---------------------------- MODULE MCTransformers ----------------------------
(***************************************************************************)
(* Instances of Transformers for TLC: what clients ask for.  Transaction 1 *)
(* is what a scenario is about, transaction 2 holds a reservation on the   *)
(* same wallet or reverses the first, transaction 3 does so once more.     *)
(* Reversals look back one day, and midnight comes once.                   *)
(***************************************************************************)
EXTENDS Transformers

MCEntityOf == [k \in {"account", "revenue", "wht2326", "vat out", "admin fee",
                      "platform fee"} |-> "AMF"]

MCKeys == {"credit", "debit", "disbursementDate", "loanAccountNumber",
           "newLoanAccountNumber", "oldLoanAccountNumber", "partner", "productType",
           "repaymentDate", "virtualAccountPoint"}

MCReq(type, net, parts) ==
    [type |-> type, flow |-> "transfer", reserved |-> TRUE, account |-> "A",
     dest |-> "B", description |-> "D", net |-> net, parts |-> parts, keys |-> MCKeys,
     entity |-> "AMF", nilMetadata |-> FALSE, ref |-> 1, original |-> None, date |-> 0]

MCPart(type, amount) == [type |-> type, amount |-> amount]

\* The same wallet, under a reference number of its own.
MCOther == [MCReq("COTMF", 7, <<>>) EXCEPT !.flow = "cashout", !.ref = 2]

Scenario(one, two, three) ==
    [t \in Trx |-> CASE t = 1 -> one [] t = 2 -> two [] t = 3 -> three [] OTHER -> NoPlan]

Single(types) == {Scenario(MCReq(type, 10, <<>>), NoPlan, NoPlan) : type \in types}

\* The transformers that ask for another flow or product, and some that write to metadata
\* the row does not have.
Alone ==
    {Scenario([MCReq(type, 10, <<>>) EXCEPT !.flow = flow, !.reserved = flow = "cashout",
                                            !.description = "NORMAL"], NoPlan, NoPlan) :
        type \in {"BBLTF", "SIVTF", "RPYAI", "DSBRP"}, flow \in {"cashin", "cashout"}}
    \union
    {Scenario([MCReq(type, 10, <<>>) EXCEPT !.nilMetadata = TRUE, !.keys = {}],
              MCOther, NoPlan) : type \in {"COTPB", "ADMFE", "RPYAB"}}

\* A repayment or a disbursement with its parts, in either order: posted at once, or
\* reserved next to another reservation.
MCParts ==
    {<<MCPart("RPYAC", 3)>>, <<MCPart("RPYAF", 10), MCPart("RPYAC", 4)>>,
     <<MCPart("RPYAC", 4), MCPart("RPYAF", 10)>>,
     <<MCPart("ADMFE", 2), MCPart("RPYAC", 0), MCPart("DSBRP", 11)>>}
Split ==
    UNION {{Scenario([MCReq(type, 20, parts) EXCEPT !.reserved = FALSE], NoPlan, NoPlan),
            Scenario(MCReq(type, 20, parts), MCOther, NoPlan)} :
              type \in {"RPYAB", "DSBRP", "COTLR", "ADMME"}, parts \in MCParts}

\* A transfer with a fee, and two reversals of it, reserved or direct.
MCReversal(type, net, held) ==
    [MCReq(type, net, <<>>) EXCEPT !.flow = "refund", !.original = 1,
                                   !.reserved = held]
Dated(request, date) == [request EXCEPT !.date = date]

Reversed ==
    {Scenario(Dated([MCReq("COTPB", 10, <<MCPart("ADMFE", 2)>>) EXCEPT !.reserved = FALSE], date),
              Dated(MCReversal("RVRSL", 10, two), back), MCReversal("RVRSL", 10, three)) :
        two \in BOOLEAN, three \in BOOLEAN, date \in {-1, 0}, back \in {-1, 0}}

\* Two transactions of one reference number, of different days, and a reversal.
Joined ==
    {Scenario(Dated([MCReq("COTPB", 10, <<>>) EXCEPT !.reserved = FALSE], date),
              [MCReq("COTMF", 7, <<>>) EXCEPT !.flow = "cashout", !.reserved = two],
              MCReversal("RVRSL", 10, three)) :
        two \in BOOLEAN, three \in BOOLEAN, date \in {-1, 0}}

\* The refund transformers want the accounts the other way round.
Refunded2 ==
    {Scenario([MCReq("COTPB", 10, <<>>) EXCEPT !.reserved = FALSE],
              [MCReversal(type, 10, TRUE) EXCEPT !.account = "B", !.dest = "A"],
              NoPlan) : type \in {"RFDTX", "RFDTF"}}

\* A QRIS payment of 10 and two refunds of it.
MCPayment == [MCReq("PAYQR", 10, <<>>) EXCEPT !.reserved = FALSE, !.flow = "cashout"]

Qris ==
    {Scenario(MCPayment, MCReversal("RVRSL", n, two), MCReversal("RVRSL", m, three)) :
        n \in {4, 6}, m \in {5, 6}, two \in BOOLEAN, three \in BOOLEAN}
    \union
    {Scenario(Dated(MCPayment, -1), MCReversal("RVRSL", 4, two), MCReversal("RVRSL", 5, three)) :
        two \in BOOLEAN, three \in BOOLEAN}

\* Two payments, and refunds of the first under its number and under the other one's.
Crossed ==
    {[Scenario(MCPayment, [MCPayment EXCEPT !.ref = 2], MCReversal("RVRSL", 6, three))
        EXCEPT ![4] = [MCReversal("RVRSL", 6, four) EXCEPT !.ref = 2]] :
        three \in BOOLEAN, four \in BOOLEAN}

MCMaster == {"COTPB", "ADMCE", "ADMFE", "ADMMA", "ADMME"}
MCExcluded == {<<System>>}
MCEnv == [vat |-> 11, external |-> FALSE, adjust |-> TRUE]

\* Every transformer there is, alone.  Rules depend on nothing, reversals on what their
\* queries show, everything else on the configuration.
MCWorld ==
    [plan : Single(DOMAIN Registry), kinds : {{}}, most : {0}, env : {MCEnv}]
    \union
    [plan : Single(Computed) \union Alone \union Split, kinds : {{"period"}}, most : {1},
     env : [vat : {11}, external : BOOLEAN, adjust : BOOLEAN]]
    \union
    [plan : Reversed \union Refunded2 \union Joined \union Qris \union Crossed,
     kinds : {{"day", "look"}}, most : {1}, env : {MCEnv}]
=============================================================================

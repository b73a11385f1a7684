-------------------------- MODULE TransformerTable ---------------------------
(***************************************************************************)
(* internal/services/transformer: the rules for payments, refunds,         *)
(* repayments, savings, top-ups and write-offs, the table of all rules,    *)
(* how a rule is applied, and the transformers that look at configuration, *)
(* flags or the other parts of the transaction.  Pure operators:           *)
(* Transformers gives them the tables and the environment.                 *)
(* Metadata is the set of keys present, and the value of the key "entity". *)
(***************************************************************************)
EXTENDS TransformerRules, SequencesExt

CONSTANTS
    None,            \* the empty account number
    EntityOf,        \* GetCachedAccount(...).Entity of each kind of account, or ""
    ConfigKey,       \* keys the maps of AccountConfig have
    MasterType,      \* transaction types found in master data
    ValidatedPAYMD,  \* metadata that TransactionValidationConfig makes PAYMD
    ValidatedTUPEP   \* and TUPEP require

-----------------------------------------------------------------------------
PAYDL == Moves("PAYDL", "DepositDiscountPPOB", "wallet")
PAYDP == FromSystem("PAYDP")
PAYFL == ToSystem("PAYFL")
PAYFP == ToSystem("PAYFP")
PAYGL == Needing({"loanAccountNumber"}, ToSystem("PAYGL"))
PAYMD == Needing(ValidatedPAYMD, ToSystem("PAYMD"))
PAYPC == Needing({"partner"}, ToSystem("PAYPC"))
PAYPD == Moves("PAYPD", "DepositDiscountPPOB", "wallet")
PAYPM == FromSystem("PAYPM")
PAYPR == Needing({"partner"}, ToSystem("PAYPR"))
PAYPV == ToSystem("PAYPV")
PAYQR == ToSystem("PAYQR")
PAYVI == Moves("PAYVI", "DepositVoucherCelengan", "wallet")
PAYVP == Moves("PAYVP", "DepositVoucher", "wallet")
PAYWC == ToSystem("PAYWC")
PAYWM == ToDestination("PAYWM")
PRMCB == Moves("PRMCB", "DepositCampaignBudget", "wallet")
RFDCB == ToSystem("RFDCB")
RFDDL == Moves("RFDDL", "wallet", "DepositDiscountPPOB")
RFDDP == ToSystem("RFDDP")
RFDFL == FromSystem("RFDFL")
RFDFP == FromSystem("RFDFP")
RFDMD == WithEntity(ToSystem("RFDMD"))
RFDMP == FromSystem("RFDMP")
RFDMT == Moves("RFDMT", "invested", "wallet")
RFDPC == Needing({"partner"}, FromSystem("RFDPC"))
RFDPD == Moves("RFDPD", "wallet", "DepositDiscountPPOB")
RFDPI == FromSystem("RFDPI")
RFDPP == ToDestination("RFDPP")
RFDPR == Needing({"partner"}, FromSystem("RFDPR"))
RFDPV == FromSystem("RFDPV")
RFDPY == ToDestination("RFDPY")
RFDQR == FromSystem("RFDQR")
RFDVP == Moves("RFDVP", "wallet", "DepositVoucher")
RPYAA == FromSystem("RPYAA")
RPYAD == WithEntity(Moves("RPYAD", "invested", "wallet"))
RPYAE == WithEntity(NamingLoan(ToSystem("RPYAE")))
RPYAH == Moves("RPYAH", System, "loan advance")
RPYAI == Needing({"NORMAL"}, Moves("RPYAI", "loan advance", System))
RPYAJ == Needing({"loanAccountNumber"}, FromSystem("RPYAJ"))
RPYAK == Moves("RPYAK", System, "AmarthaRevenueLoan")
RPYAO == ToSystem("RPYAO")
RPYBV == Needing({"loanAccountNumber", "repaymentDate"},
                 Moves("RPYBV", "wallet", "destination"))
RPYCO == ToSystem("RPYCO")
RPYEN == Moves("RPYEN", "invested", "wallet")
RPYIO == ToSystem("RPYIO")
RPYMC == FromSystem("RPYMC")
RPYPD == Moves("RPYPD", "BRI9539AccountNumber", "wallet")
RPYPO == FromSystem("RPYPO")
RPYRD == Moves("RPYRD", "OtherReceivableRepayment", "wallet")
RPYRO == Moves("RPYRO", "wallet", "BPE")
RPYTD == FromSystem("RPYTD")
RPYTR == Needing({"loanAccountNumber", "repaymentDate"}, FromSystem("RPYTR"))
RPYVA == Needing({"virtualAccountPoint", "repaymentDate"},
                 Moves("RPYVA", "wallet", "SplitEscrow"))
RVRTF == Needing({"debit", "credit", "transfer"},
                 Moves("RVRTF", "wallet", "destination"))
SIVEA == Needing({"loanAccountNumber"}, Moves("SIVEA", "invested", "wallet"))
SIVED == Needing({"loanAccountNumber"}, ToDestination("SIVED"))
SIVEP == Needing({"loanAccountNumber"}, ToDestination("SIVEP"))
SIVTF == Needing({"cashout"}, Moves("SIVTF", "invested", System))
TUPBA == FromSystem("TUPBA")
TUPBH == FromSystem("TUPBH")
TUPBM == FromSystem("TUPBM")
TUPCB == Moves("TUPCB", "OperationalPayableGeneralCashback", "wallet")
TUPDN == FromSystem("TUPDN")
TUPED == ToDestination("TUPED")
TUPEN == FromSystem("TUPEN")
TUPEP == Needing(ValidatedTUPEP, ToDestination("TUPEP"))
TUPFE == FromSystem("TUPFE")
TUPGC == Moves("TUPGC", "GeneralCashOutHoldingAccountNumber", "wallet")
TUPGE == Moves("TUPGE", "OperationalPayableGeneralCashDeposit", "wallet")
TUPGP == FromSystem("TUPGP")
TUPIK == FromSystem("TUPIK")
TUPIL == ToSystem("TUPIL")
TUPIN == FromSystem("TUPIN")
TUPIP == FromSystem("TUPIP")
TUPLF == NotingFee({"TUPLE", "ADMME", "ADMMA"}, FromSystem("TUPLF"))
TUPLR == Then(Moves("TUPLR", System, "wallet"),
              Moves("INVMT", "wallet", "invested"))
TUPLW == FromSystem("TUPLW")
TUPPB == ToDestination("TUPPB")
TUPPO == FromSystem("TUPPO")
TUPPP == Moves("TUPPP", "wallet", "destination")
TUPPY == NotingFee({"TUPPU", "ADMME"}, FromSystem("TUPPY"))
TUPQR == FromSystem("TUPQR")
TUPTI == FromSystem("TUPTI")
TUPVA == NotingFee({"TUPVU", "ADMME"}, FromSystem("TUPVA"))
TUPVB == FromSystem("TUPVB")
TUPVI == WithEntity(FromSystem("TUPVI"))
TUPVM == FromSystem("TUPVM")
TUPVP == FromSystem("TUPVP")
TUPWC == FromSystem("TUPWC")
TUPWD == FromSystem("TUPWD")
TUPWM == FromSystem("TUPWM")
TUPWX == FromSystem("TUPWX")
WOLAR == Moves("WOLAR", "invested", System)
WOLIL == ToDestination("WOLIL")
WOLLC == ToDestination("WOLLC")
WOLLR == ToSystem("WOLLR")
WOLPB == FromSystem("WOLPB")

-----------------------------------------------------------------------------
\* MapTransformer, without the transformers that are more than a rule.
Registry ==
   [ADJAF |-> ADJAF, ADMAF |-> ADMAF, ADMBI |-> ADMBI, ADMBT |-> ADMBT,
     ADMCB |-> ADMCB, ADMCE |-> ADMCE, ADMCV |-> ADMCV, ADMDA |-> ADMDA,
     ADMDD |-> ADMDD, ADMDE |-> ADMDE, ADMDU |-> ADMDU, ADMDV |-> ADMDV,
     ADMFA |-> ADMFA, ADMFE |-> ADMFE, ADMFM |-> ADMFM, ADMFP |-> ADMFP,
     ADMFU |-> ADMFU, ADMMA |-> ADMMA, ADMMD |-> ADMMD, ADMME |-> ADMME,
     ADMMV |-> ADMMV, ADMOB |-> ADMOB, ADMOC |-> ADMOC, ADMPB |-> ADMPB,
     ADMPE |-> ADMPE, ADMPF |-> ADMPF, ADMPN |-> ADMPN, ADMPP |-> ADMPP,
     ADMPT |-> ADMPT, ADMRA |-> ADMRA, ADMRD |-> ADMRD, ADMRF |-> ADMRF,
     ADMRP |-> ADMRP, ADMRV |-> ADMRV, ADMTD |-> ADMTD, ADMTP |-> ADMTP,
     ADMTV |-> ADMTV, ADMVI |-> ADMVI, ADMWP |-> ADMWP, BBLDN |-> BBLDN,
     BBLEN |-> BBLEN, BBLTF |-> BBLTF, COTAI |-> COTAI, COTAM |-> COTAM,
     COTBM |-> COTBM, COTDA |-> COTDA, COTFP |-> COTFP, COTGC |-> COTGC,
     COTLR |-> COTLR, COTMF |-> COTMF, COTPB |-> COTPB, COTPR |-> COTPR,
     COTRC |-> COTRC, COTRJ |-> COTRJ, COTRQ |-> COTRQ, COTRT |-> COTRT,
     COTWC |-> COTWC, DBFAA |-> DBFAA, DBFAB |-> DBFAB, DBFAC |-> DBFAC,
     DBFEA |-> DBFEA, DSBAA |-> DSBAA, DSBAB |-> DSBAB, DSBAO |-> DSBAO,
     DSBAP |-> DSBAP, DSBBA |-> DSBBA, DSBBB |-> DSBBB, DSBBC |-> DSBBC,
     DSBBD |-> DSBBD, DSBBE |-> DSBBE, DSBED |-> DSBED, DSBFD |-> DSBFD,
     DSBLB |-> DSBLB, DSBLD |-> DSBLD, DSBMR |-> DSBMR, DSBPD |-> DSBPD,
     DSBPI |-> DSBPI, DSBPO |-> DSBPO, DSBRD |-> DSBRD, DSBTF |-> DSBTF,
     DSBTI |-> DSBTI, FPEPD |-> FPEPD, FPEPT |-> FPEPT, INSCA |-> INSCA,
     INSCL |-> INSCL, INSDL |-> INSDL, INSHN |-> INSHN, INSLL |-> INSLL,
     INSLR |-> INSLR, INSPA |-> INSPA, INSPI |-> INSPI, INSPL |-> INSPL,
     INSPN |-> INSPN, INVMT |-> INVMT, INVVO |-> INVVO, ITDED |-> ITDED,
     ITDEP |-> ITDEP, ITDPH |-> ITDPH, ITRTF |-> ITRTF, ITRTP |-> ITRTP,
     MFAAJ |-> MFAAJ, MFAQR |-> MFAQR, MFFEP |-> MFFEP, MFFGL |-> MFFGL,
     MFFMD |-> MFFMD, MFFWC |-> MFFWC, MFGPI |-> MFGPI, MFMEP |-> MFMEP,
     MFMMP |-> MFMMP, MFMPP |-> MFMPP, MFMRP |-> MFMRP, MFMTP |-> MFMTP,
     MFMWC |-> MFMWC, MFNPC |-> MFNPC, MFNPR |-> MFNPR, MFWAF |-> MFWAF,
     MFWIT |-> MFWIT, MFWLF |-> MFWLF, MFWPH |-> MFWPH, MFWPN |-> MFWPN,
     MFWRP |-> MFWRP, MFWRQ |-> MFWRQ, MMWPD |-> MMWPD, MMWPI |-> MMWPI,
     MWMPD |-> MWMPD, MWMPI |-> MWMPI, PAYDL |-> PAYDL, PAYDP |-> PAYDP,
     PAYFL |-> PAYFL, PAYFP |-> PAYFP, PAYGL |-> PAYGL, PAYMD |-> PAYMD,
     PAYPC |-> PAYPC, PAYPD |-> PAYPD, PAYPM |-> PAYPM, PAYPR |-> PAYPR,
     PAYPV |-> PAYPV, PAYQR |-> PAYQR, PAYVI |-> PAYVI, PAYVP |-> PAYVP,
     PAYWC |-> PAYWC, PAYWM |-> PAYWM, PRMCB |-> PRMCB, RFDCB |-> RFDCB,
     RFDDL |-> RFDDL, RFDDP |-> RFDDP, RFDFL |-> RFDFL, RFDFP |-> RFDFP,
     RFDMD |-> RFDMD, RFDMP |-> RFDMP, RFDMT |-> RFDMT, RFDPC |-> RFDPC,
     RFDPD |-> RFDPD, RFDPI |-> RFDPI, RFDPP |-> RFDPP, RFDPR |-> RFDPR,
     RFDPV |-> RFDPV, RFDPY |-> RFDPY, RFDQR |-> RFDQR, RFDVP |-> RFDVP,
     RPYAA |-> RPYAA, RPYAD |-> RPYAD, RPYAE |-> RPYAE, RPYAH |-> RPYAH,
     RPYAI |-> RPYAI, RPYAJ |-> RPYAJ, RPYAK |-> RPYAK, RPYAO |-> RPYAO,
     RPYBV |-> RPYBV, RPYCO |-> RPYCO, RPYEN |-> RPYEN, RPYIO |-> RPYIO,
     RPYMC |-> RPYMC, RPYPD |-> RPYPD, RPYPO |-> RPYPO, RPYRD |-> RPYRD,
     RPYRO |-> RPYRO, RPYTD |-> RPYTD, RPYTR |-> RPYTR, RPYVA |-> RPYVA,
     RVRTF |-> RVRTF, SIVEA |-> SIVEA, SIVED |-> SIVED, SIVEP |-> SIVEP,
     SIVTF |-> SIVTF, TUPBA |-> TUPBA, TUPBH |-> TUPBH, TUPBM |-> TUPBM,
     TUPCB |-> TUPCB, TUPDN |-> TUPDN, TUPED |-> TUPED, TUPEN |-> TUPEN,
     TUPEP |-> TUPEP, TUPFE |-> TUPFE, TUPGC |-> TUPGC, TUPGE |-> TUPGE,
     TUPGP |-> TUPGP, TUPIK |-> TUPIK, TUPIL |-> TUPIL, TUPIN |-> TUPIN,
     TUPIP |-> TUPIP, TUPLF |-> TUPLF, TUPLR |-> TUPLR, TUPLW |-> TUPLW,
     TUPPB |-> TUPPB, TUPPO |-> TUPPO, TUPPP |-> TUPPP, TUPPY |-> TUPPY,
     TUPQR |-> TUPQR, TUPTI |-> TUPTI, TUPVA |-> TUPVA, TUPVB |-> TUPVB,
     TUPVI |-> TUPVI, TUPVM |-> TUPVM, TUPVP |-> TUPVP, TUPWC |-> TUPWC,
     TUPWD |-> TUPWD, TUPWM |-> TUPWM, TUPWX |-> TUPWX, WOLAR |-> WOLAR,
     WOLIL |-> WOLIL, WOLLC |-> WOLLC, WOLLR |-> WOLLR, WOLPB |-> WOLPB]

-----------------------------------------------------------------------------
(***************************************************************************)
(* Applying a rule.  w is the wallet transaction: [type, flow, account,    *)
(* dest, description, net, parts, keys, entity, nilMetadata, ...].         *)
(***************************************************************************)
AccountOf(term, w) ==
    CASE term = "wallet"                  -> <<"account", w.account>>
      [] term = "destination"             -> <<"account", w.dest>>
      [] term \in {"invested", "loan advance"} -> <<term, w.account>>
      [] term = "invested of destination" -> <<"invested", w.dest>>
      [] term \in {"receivable", "insurance premium"} -> <<term, EntityOf["account"]>>
      [] term = "receivable of metadata"  -> <<"receivable", w.entity>>
      [] term = "AmarthaRevenueLoan"      -> <<term, w.description>>
      [] OTHER                            -> <<term>>

\* getAccountNumberFromConfig finds the key.
Configured(account) ==
    account[1] \in {"receivable", "insurance premium", "AmarthaRevenueLoan"} =>
        account[2] \in ConfigKey

Met(need, w) ==
    CASE need = "destination"    -> w.dest # None
      [] need = "description"    -> w.description # ""
      [] need = "NORMAL"         -> w.description = "NORMAL"
      [] need = "entity"         -> w.entity # ""
      [] need = "in master data" -> w.type \in MasterType
      [] need \in {"cashin", "cashout", "transfer"} -> w.flow = need
      [] OTHER                   -> need \in w.keys

WritesMetadata(r, w) ==
    \/ r.entity = "written"
    \/ r.keys # {}
    \/ \E i \in DOMAIN w.parts : w.parts[i].type \in r.fee

Child(type, from, to, amount) ==
    [type |-> type, from |-> from, to |-> to, amount |-> amount]

\* What Transform returns: nothing, for an error, or the children and the transaction
\* with the metadata it was left with.
Refused            == {}
Made(children, w)  == {[children |-> children, w |-> w]}

\* Every child shares the metadata map of the transaction, so what one transformer
\* writes is there for the next.  Writing to a map that was never made panics.
ByRule(r, w, amount) ==
    LET Leg(m) == Child(m.type, AccountOf(m.from, w), AccountOf(m.to, w), amount)
        written == [w EXCEPT !.keys = @ \union r.keys,
                             !.entity = IF r.entity = "written" THEN EntityOf["account"]
                                        ELSE @]
    IN IF /\ \A need \in r.needs : Met(need, w)
          /\ r.entity # "ignored" => EntityOf["account"] # ""
          /\ WritesMetadata(r, w) => ~w.nilMetadata
          /\ \A m \in ToSet(r.moves) : Configured(Leg(m).from) /\ Configured(Leg(m).to)
       THEN Made([i \in DOMAIN r.moves |-> Leg(r.moves[i])], written)
       ELSE Refused

-----------------------------------------------------------------------------
(***************************************************************************)
(* Transformers that are more than a rule.  e is the environment: the VAT  *)
(* percentage of the transaction time (NoVat: no period holds it), whether *)
(* the flag UseAccountConfigFromExternal is on, and whether                *)
(* EnableRpyabRpyacAdjustment is configured.                               *)
(***************************************************************************)
NoVat == 0

\* The VAT in an amount that includes it, rounded to a whole number.
calculateVAT(amount, percent) ==
    (2 * amount * percent + 100 + percent) \div (2 * (100 + percent))

\* accountConfigRepository: the account of this name for a loan account.
AccountConfig(name, loan, w, e) ==
    IF e.external THEN <<name, "external", loan>>
    ELSE <<name, EntityOf["account"], w.description>>

ConfigFound(name, w, e) ==
    e.external \/ (name # "admin fee" /\ EntityOf["account"] # ""
                                      /\ w.description \in ConfigKey)

\* The transaction after MutateMetadataByAccountEntity with that entity.
Named(w, entity) ==
    [w EXCEPT !.keys = @ \union {"loanAccountNumber"}, !.entity = entity]

Withholding(w, amount, e, from) ==
    LET loan == IF e.external THEN "loan of metadata" ELSE w.account
    IN IF /\ w.description # ""
          /\ e.external => "loanAccountNumber" \in w.keys
          /\ ConfigFound("wht2326", w, e)
          /\ EntityOf["wht2326"] # "" /\ ~w.nilMetadata
       THEN Made(<<Child("RPYAC", from, AccountConfig("wht2326", loan, w, e), amount)>>,
                 [w EXCEPT !.entity = EntityOf["wht2326"]])
       ELSE Refused

\* Mutant: the withholding tax is not taken from the wallet when it is adjusted.
RPYACFromSystem(w, amount, e) == Withholding(w, amount, e, <<System>>)

RPYAC(w, amount, e) ==
    Withholding(w, amount, e, IF e.adjust THEN <<"account", w.account>> ELSE <<System>>)

\* The first RPYAC among the parts.
FirstRPYAC(w) ==
    LET at == SelectInSeq(w.parts, LAMBDA p : p.type = "RPYAC")
    IN IF at = 0 THEN 0 ELSE w.parts[at].amount

RPYAB(w, amount, e) ==
    IF EntityOf["account"] # "" /\ ~w.nilMetadata
    THEN Made(<<Child("RPYAB", <<System>>, <<"account", w.account>>,
                      IF e.adjust /\ FirstRPYAC(w) > 0 THEN amount + FirstRPYAC(w)
                      ELSE amount)>>,
              [w EXCEPT !.entity = EntityOf["account"]])
    ELSE Refused

RPYAF(w, amount, e) ==
    LET taxed == EntityOf["revenue"] # "AWF"
        vat   == IF taxed THEN calculateVAT(amount, e.vat) ELSE 0
        revenue == Child("RPYAF", <<System>>, AccountConfig("revenue", w.account, w, e),
                         amount - vat)
        tax     == Child("RPYAG", <<System>>, AccountConfig("vat out", w.account, w, e), vat)
    IN IF /\ w.description # ""
          /\ ConfigFound("revenue", w, e) /\ EntityOf["revenue"] # ""
          /\ ~w.nilMetadata
          /\ taxed => e.vat # NoVat
       THEN Made(IF vat > 0 THEN <<revenue, tax>> ELSE <<revenue>>,
                 Named(w, EntityOf["revenue"]))
       ELSE Refused

\* DSBRP.getRevenueAccountNumber: platform fee of a modal loan, or the admin fee.
DSBRPRevenue(w, e) ==
    IF w.description = "MODAL_LOAN" THEN <<"platform fee", EntityOf["account"]>>
    ELSE AccountConfig("admin fee", w.account, w, e)

DSBRP(w, amount, e) ==
    LET modal   == w.description = "MODAL_LOAN"
        untaxed == w.description \in {"NORMAL", "MODAL_LOAN"}
        to      == DSBRPRevenue(w, e)
        vat     == calculateVAT(amount, e.vat)
    IN IF /\ IF modal THEN EntityOf["account"] \in ConfigKey
             ELSE ConfigFound("admin fee", w, e)
          /\ EntityOf[to[1]] # "" /\ ~w.nilMetadata
          /\ ~untaxed => e.vat # NoVat /\ ConfigFound("vat out", w, e)
                                       /\ EntityOf["vat out"] # ""
       THEN Made(IF untaxed THEN <<Child("DSBRP", <<System>>, to, amount)>>
                 ELSE <<Child("DSBRQ", <<System>>, AccountConfig("vat out", w.account, w, e),
                              vat),
                        Child("DSBRP", <<System>>, to, amount - vat)>>,
                 Named(w, EntityOf[to[1]]))
       ELSE Refused

Computed == {"RPYAB", "RPYAC", "RPYAF", "DSBRP"}

\* What one transformer makes of an amount, for the types that read no table.
TransformOne(type, w, amount, e) ==
    CASE type = "RPYAB" -> RPYAB(w, amount, e)
      [] type = "RPYAC" -> RPYAC(w, amount, e)
      [] type = "RPYAF" -> RPYAF(w, amount, e)
      [] type = "DSBRP" -> DSBRP(w, amount, e)
      [] type \in DOMAIN Registry -> ByRule(Registry[type], w, amount)
      [] OTHER -> Refused
=============================================================================

----------------------------- MODULE MCMoneyFlow -----------------------------
(***************************************************************************)
(* Instances of MoneyFlow for TLC.  Two transaction types have one payment *)
(* type, and a third has none.                                             *)
(***************************************************************************)
EXTENDS MoneyFlow

MCTrx(type, amount) == [type |-> type, amount |-> amount]

MCPaymentOf == [type \in {"t1", "t2"} |-> "pay"]

\* An order with a transaction no rule covers, one whose transactions may fall on two
\* days, and one that has failed.
MCOrderOf ==
    [a |-> [ok |-> TRUE, trx |-> <<MCTrx("t1", 1), MCTrx("none", 8)>>],
     b |-> [ok |-> TRUE, trx |-> <<MCTrx("t1", 2), MCTrx("t2", 4)>>],
     c |-> [ok |-> FALSE, trx |-> <<MCTrx("t1", 16)>>]]

MCUpdate(status, papa, actual) ==
    [op |-> "update", status |-> status, papa |-> papa, actual |-> actual]
MCEvent(status) == [op |-> "event", status |-> status, papa |-> "q"]
MCActivate(active) == [op |-> "activate", active |-> active]

\* A summary is requested and fails, another is switched off and on.
MCAsked ==
    [request |-> MCUpdate("IN_PROGRESS", "q", FALSE), fail |-> MCEvent("FAILED"),
     off |-> MCActivate(FALSE), on |-> MCActivate(TRUE)]

MCWorld(orders, calls, most) == [orders |-> orders, calls |-> calls, faults |-> most]

\* Notifications alone, with trouble; a failure and its successor; switching off and on
\* while transactions come in.
MCWorlds ==
    {MCWorld({"a", "b"}, {}, 1), MCWorld({"a"}, {}, 2), MCWorld({"c"}, {}, 2),
     MCWorld({"a", "b"}, {"request", "fail"}, 0), MCWorld({"b"}, {"request", "fail"}, 1),
     MCWorld({"a", "b"}, {"off", "on"}, 0), MCWorld({"b"}, {"off", "request"}, 0)}
=============================================================================

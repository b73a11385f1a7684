---------------------------- MODULE BalanceProofs ----------------------------
(***************************************************************************)
(* What the operators of Balance return and how they change a balance, and *)
(* what a sum of amounts over a finite set is.  The sums are the folds of  *)
(* Functions; what is known of them is proved by taking a smallest subset  *)
(* for which it fails.                                                     *)
(***************************************************************************)
EXTENDS Balance, Functions, FiniteSetTheorems, WellFoundedInduction, TLAPS

\* Every flow and phase names operations that exist.
LEMMA OpTypes ==
    ASSUME NEW flow \in Flows, NEW phase \in Phases
    PROVE  FromOp(flow, phase) \in Ops /\ ToOp(flow, phase) \in Ops
  BY DEF Flows, Phases, Ops, FromOp, ToOp

\* An operation on a balance gives a balance.
LEMMA ApplyType ==
    ASSUME NEW op \in Ops, NEW b \in BalanceRow, NEW amount \in Int
    PROVE  Apply(op, b, amount) \in BalanceRow
<1>1. /\ Withdraw(b, amount) \in BalanceRow
      /\ Reserve(b, amount) \in BalanceRow
      /\ AddFunds(b, amount) \in BalanceRow
  BY DEF BalanceRow, Withdraw, Reserve, AddFunds
<1>2. /\ Commit(b, amount) \in BalanceRow
      /\ CancelReservation(b, amount) \in BalanceRow
  BY DEF BalanceRow, Commit, CancelReservation
<1>. QED BY <1>1, <1>2 DEF Ops, Apply

\* A calculator gives a balance to every account that had one.
LEMMA CalculateType ==
    ASSUME NEW A, NEW flow \in Flows, NEW phase \in Phases,
           NEW x, x.from \in A, x.to \in A, x.amount \in Int,
           NEW bals \in [A -> BalanceRow]
    PROVE  Calculate(flow, phase, x, bals) \in [A -> BalanceRow]
<1>. DEFINE mid == AfterFrom(flow, phase, x, bals)
<1>1. mid \in [A -> BalanceRow]
  BY OpTypes, ApplyType DEF AfterFrom
<1>. HIDE DEF mid
<1>2. [mid EXCEPT ![x.to] = Apply(ToOp(flow, phase), @, x.amount)] \in [A -> BalanceRow]
  BY <1>1, OpTypes, ApplyType
<1>. QED BY <1>2 DEF Calculate, mid

\* What a phase makes of a balance that is brought an amount and one is taken from.
Changes(phase, b, new, brought, taken) ==
    /\ new.actual = IF phase \in {"create", "commit"} THEN b.actual + brought - taken
                                                      ELSE b.actual
    /\ new.pending = IF phase = "create"  THEN b.pending
                ELSE IF phase = "reserve" THEN b.pending + taken
                                          ELSE b.pending - taken

\* The source leg takes the amount; only a direct transaction is a cash-in.
LEMMA FromOpChanges ==
    ASSUME NEW flow \in Flows, NEW phase \in Phases, flow = "cashin" => phase = "create",
           NEW b \in BalanceRow, NEW amount \in Int
    PROVE  Changes(phase, b, Apply(FromOp(flow, phase), b, amount), 0, amount)
<1>1. b.actual \in Int /\ b.pending \in Int
  BY DEF BalanceRow
<1>2. CASE phase = "create"
  <2>1. FromOp(flow, phase) = "withdraw"
    BY <1>2 DEF FromOp
  <2>. QED BY <1>1, <1>2, <2>1 DEF Apply, Withdraw, Changes, BalanceRow
<1>3. CASE phase = "reserve"
  <2>1. FromOp(flow, phase) = "reserve"
    BY <1>3 DEF FromOp
  <2>. QED BY <1>1, <1>3, <2>1 DEF Apply, Reserve, Changes, BalanceRow
<1>4. CASE phase = "commit"
  <2>1. FromOp(flow, phase) = "commit"
    BY <1>4 DEF FromOp
  <2>. QED BY <1>1, <1>4, <2>1 DEF Apply, Commit, Changes, BalanceRow
<1>5. CASE phase = "cancel"
  <2>1. FromOp(flow, phase) = "cancel"
    BY <1>5 DEF FromOp
  <2>. QED BY <1>1, <1>5, <2>1 DEF Apply, CancelReservation, Changes, BalanceRow
<1>. QED BY <1>2, <1>3, <1>4, <1>5 DEF Phases

\* The destination leg brings it, once the money is really moved.
LEMMA ToOpChanges ==
    ASSUME NEW flow \in Flows, NEW phase \in Phases, flow = "cashin" => phase = "create",
           NEW b \in BalanceRow, NEW amount \in Int
    PROVE  Changes(phase, b, Apply(ToOp(flow, phase), b, amount), amount, 0)
<1>1. b.actual \in Int /\ b.pending \in Int
  BY DEF BalanceRow
<1>2. CASE phase \in {"create", "commit"}
  <2>1. ToOp(flow, phase) = "add"
    BY <1>2 DEF ToOp
  <2>. QED BY <1>1, <1>2, <2>1 DEF Apply, AddFunds, Changes, BalanceRow
<1>3. CASE phase \in {"reserve", "cancel"}
  <2>1. ToOp(flow, phase) = "none"
    BY <1>3 DEF ToOp
  <2>. QED BY <1>1, <1>3, <2>1 DEF Apply, Changes, BalanceRow
<1>. QED BY <1>2, <1>3 DEF Phases

\* Two changes in a row add up.
LEMMA ChangesAdd ==
    ASSUME NEW phase, NEW b \in BalanceRow, NEW mid \in BalanceRow, NEW new \in BalanceRow,
           NEW b1 \in Int, NEW t1 \in Int, NEW b2 \in Int, NEW t2 \in Int,
           Changes(phase, b, mid, b1, t1), Changes(phase, mid, new, b2, t2)
    PROVE  Changes(phase, b, new, b1 + b2, t1 + t2)
<1>1. /\ b.actual \in Int /\ b.pending \in Int
      /\ mid.actual \in Int /\ mid.pending \in Int
      /\ new.actual \in Int /\ new.pending \in Int
  BY DEF BalanceRow
<1>. QED BY <1>1 DEF Changes

\* A calculator changes each balance by what the child brings and takes.
LEMMA CalculateChanges ==
    ASSUME NEW A, NEW flow \in Flows, NEW phase \in Phases, flow = "cashin" => phase = "create",
           NEW x, x.from \in A, x.to \in A, x.amount \in Int,
           NEW bals \in [A -> BalanceRow], NEW a \in A
    PROVE  Changes(phase, bals[a], Calculate(flow, phase, x, bals)[a],
                   IF x.to = a THEN x.amount ELSE 0, IF x.from = a THEN x.amount ELSE 0)
<1>. DEFINE mid == AfterFrom(flow, phase, x, bals)
            new == Calculate(flow, phase, x, bals)
            brought == IF x.to = a THEN x.amount ELSE 0
            taken == IF x.from = a THEN x.amount ELSE 0
<1>1. FromOp(flow, phase) \in Ops /\ ToOp(flow, phase) \in Ops
  BY OpTypes
<1>2. mid \in [A -> BalanceRow]
  BY <1>1, ApplyType DEF AfterFrom
<1>3. new \in [A -> BalanceRow]
  BY CalculateType
<1>4. /\ mid[x.from] = Apply(FromOp(flow, phase), bals[x.from], x.amount)
      /\ a # x.from => mid[a] = bals[a]
  BY DEF AfterFrom
<1>5. /\ new[x.to] = Apply(ToOp(flow, phase), mid[x.to], x.amount)
      /\ a # x.to => new[a] = mid[a]
  BY <1>2 DEF Calculate
<1>. HIDE DEF mid, new
<1>6. bals[a] \in BalanceRow /\ mid[a] \in BalanceRow /\ new[a] \in BalanceRow
  BY <1>2, <1>3
<1>7. \A b \in BalanceRow : Changes(phase, b, b, 0, 0)
  BY DEF Changes, BalanceRow, Phases
<1>8. brought \in Int /\ taken \in Int
  OBVIOUS
<1>9. Changes(phase, bals[a], mid[a], 0, taken)
  BY <1>4, <1>6, <1>7, FromOpChanges
<1>10. Changes(phase, mid[a], new[a], brought, 0)
  BY <1>5, <1>6, <1>7, ToOpChanges
<1>. HIDE DEF brought, taken
<1>11. Changes(phase, bals[a], new[a], 0 + brought, taken + 0)
  BY <1>6, <1>8, <1>9, <1>10, ChangesAdd
<1>12. Changes(phase, bals[a], new[a], brought, taken)
  BY <1>8, <1>11
<1>. QED BY <1>12 DEF new, brought, taken

-----------------------------------------------------------------------------
(***************************************************************************)
(* Sums over finite sets.                                                  *)
(***************************************************************************)

\* The equation a sum over the subsets of S solves.
Pick(s) == CHOOSE x \in s : TRUE
Solves(g, f, S) ==
    g = [s \in SUBSET S |-> IF s = {} THEN 0 ELSE f[Pick(s)] + g[s \ {Pick(s)}]]
Sol(f, S) == CHOOSE g : Solves(g, f, S)

LEMMA SumSol ==
    ASSUME NEW f, NEW S
    PROVE  SumFunctionOnSet(f, S) = Sol(f, S)[S]
BY DEF SumFunctionOnSet, FoldFunctionOnSet, MapThenFoldSet, Sol, Solves, Pick

\* Among some subsets of a finite set one is smallest.
LEMMA Smallest ==
    ASSUME NEW S, IsFiniteSet(S), NEW T, T \subseteq SUBSET S, T # {}
    PROVE  \E x \in T : \A y \in SUBSET x : y # x => y \notin T
<1>1. IsWellFoundedOn(StrictSubsetOrdering(S), SUBSET S)
  BY FS_StrictSubsetOrderingWellFounded, FS_FiniteSubsetsOfFinite
<1>2. PICK x \in T : \A y \in T : <<y, x>> \notin StrictSubsetOrdering(S)
  BY <1>1, WFMin
<1>3. \A y \in SUBSET x : y \in T /\ y # x => <<y, x>> \in StrictSubsetOrdering(S)
  <2>1. ASSUME NEW y \in SUBSET x, y # x PROVE <<y, x>> \in StrictSubsetOrdering(S)
    <3>1. y \in SUBSET S /\ x \in SUBSET S
      OBVIOUS
    <3>. QED BY <3>1, <2>1 DEF StrictSubsetOrdering
  <2>. QED BY <2>1
<1>4. \A y \in SUBSET x : y # x => y \notin T
  BY <1>2, <1>3
<1>. QED BY <1>4, <1>2

LEMMA PickIn == ASSUME NEW s, s # {} PROVE Pick(s) \in s
BY DEF Pick

LEMMA SolvesAt ==
    ASSUME NEW f, NEW S, NEW g, Solves(g, f, S), NEW s \in SUBSET S
    PROVE  g[s] = IF s = {} THEN 0 ELSE f[Pick(s)] + g[s \ {Pick(s)}]
<1>. DEFINE h == [t \in SUBSET S |-> IF t = {} THEN 0 ELSE f[Pick(t)] + g[t \ {Pick(t)}]]
<1>1. g = h
  BY DEF Solves
<1>2. h[s] = IF s = {} THEN 0 ELSE f[Pick(s)] + g[s \ {Pick(s)}]
  OBVIOUS
<1>. QED BY <1>1, <1>2

\* Two solutions agree where both are defined.
LEMMA SolvesAgree ==
    ASSUME NEW f, NEW S, NEW U, IsFiniteSet(S), NEW g, NEW h, Solves(g, f, S), Solves(h, f, U)
    PROVE  \A s \in SUBSET S : s \subseteq U => g[s] = h[s]
<1>. DEFINE T == {s \in SUBSET S : s \subseteq U /\ g[s] # h[s]}
<1>1. SUFFICES ASSUME T # {} PROVE FALSE
  OBVIOUS
<1>0. T \subseteq SUBSET S
  OBVIOUS
<1>2. PICK s \in T : \A y \in SUBSET s : y # s => y \notin T
  <2>. HIDE DEF T
  <2>. QED BY <1>0, <1>1, Smallest
<1>3. s # {}
  <2>1. g[{}] = 0 /\ h[{}] = 0
    BY SolvesAt
  <2>. QED BY <1>2, <2>1
<1>4. Pick(s) \in s
  BY <1>3, PickIn
<1>5. g[s \ {Pick(s)}] = h[s \ {Pick(s)}]
  <2>1. s \ {Pick(s)} \in SUBSET s /\ s \ {Pick(s)} # s /\ s \ {Pick(s)} \subseteq U
    BY <1>2, <1>4
  <2>2. s \ {Pick(s)} \notin T
    BY <1>2, <2>1
  <2>. QED BY <2>1, <2>2
<1>6. g[s] = f[Pick(s)] + g[s \ {Pick(s)}] /\ h[s] = f[Pick(s)] + h[s \ {Pick(s)}]
  BY <1>2, <1>3, SolvesAt
<1>. QED BY <1>2, <1>5, <1>6

\* The equation has a solution over every finite set.
LEMMA SolExists ==
    ASSUME NEW f, NEW S, IsFiniteSet(S)
    PROVE  Solves(Sol(f, S), f, S)
<1>. DEFINE T == {s \in SUBSET S : ~\E g : Solves(g, f, s)}
<1>1. SUFFICES ASSUME T # {} PROVE FALSE
  <2>1. S \notin T => \E g : Solves(g, f, S)
    OBVIOUS
  <2>. QED BY <2>1 DEF Sol
<1>0. T \subseteq SUBSET S
  OBVIOUS
<1>2. PICK s \in T : \A y \in SUBSET s : y # s => y \notin T
  <2>. HIDE DEF T
  <2>. QED BY <1>0, <1>1, Smallest
<1>. DEFINE val(u) == Sol(f, u)[u]
           g == [u \in SUBSET s |-> IF u = {} THEN 0 ELSE f[Pick(u)] + val(u \ {Pick(u)})]
<1>3. ASSUME NEW u \in SUBSET s, u # s
      PROVE  IsFiniteSet(u) /\ Solves(Sol(f, u), f, u)
  <2>1. IsFiniteSet(u)
    BY FS_Subset
  <2>2. \E h : Solves(h, f, u)
    BY <1>2, <1>3
  <2>. QED BY <2>1, <2>2 DEF Sol
<1>4. ASSUME NEW u \in SUBSET s, u # s, u # {}
      PROVE  val(u) = f[Pick(u)] + val(u \ {Pick(u)})
  <2>1. Pick(u) \in u /\ u \ {Pick(u)} # s /\ u \ {Pick(u)} \in SUBSET u
    BY <1>4, PickIn
  <2>2. Sol(f, u)[u] = f[Pick(u)] + Sol(f, u)[u \ {Pick(u)}]
    BY <1>3, <1>4, SolvesAt
  <2>3. Sol(f, u)[u \ {Pick(u)}] = Sol(f, u \ {Pick(u)})[u \ {Pick(u)}]
    <3>. DEFINE v == u \ {Pick(u)}
    <3>1. IsFiniteSet(u) /\ Solves(Sol(f, u), f, u) /\ Solves(Sol(f, v), f, v)
      BY <1>3, <1>4, <2>1
    <3>2. v \in SUBSET u /\ v \subseteq v
      OBVIOUS
    <3>. HIDE DEF v
    <3>3. Sol(f, u)[v] = Sol(f, v)[v]
      BY <3>1, <3>2, SolvesAgree
    <3>. QED BY <3>3 DEF v
  <2>. QED BY <2>2, <2>3
<1>5. s # {} => val({}) = 0
  <2>. SUFFICES ASSUME s # {} PROVE val({}) = 0
    OBVIOUS
  <2>1. Solves(Sol(f, {}), f, {})
    <3>1. {} \in SUBSET s
      OBVIOUS
    <3>. QED BY <1>3, <3>1, Zenon
  <2>. QED BY <2>1, SolvesAt
<1>6. g[{}] = 0 /\ \A u \in SUBSET s : u # {} => g[u] = f[Pick(u)] + val(u \ {Pick(u)})
  <2>. DEFINE at(u) == IF u = {} THEN 0 ELSE f[Pick(u)] + val(u \ {Pick(u)})
  <2>1. g = [u \in SUBSET s |-> at(u)]
    OBVIOUS
  <2>2. at({}) = 0 /\ \A u : u # {} => at(u) = f[Pick(u)] + val(u \ {Pick(u)})
    BY Zenon
  <2>. HIDE DEF at, g
  <2>3. {} \in SUBSET s /\ \A u \in SUBSET s : g[u] = at(u)
    BY <2>1
  <2>. QED BY <2>2, <2>3, Zenon
<1>7. ASSUME NEW u \in SUBSET s, u # {}
      PROVE  g[u] = f[Pick(u)] + g[u \ {Pick(u)}]
  <2>. DEFINE v == u \ {Pick(u)}
  <2>1. Pick(u) \in u /\ v \in SUBSET s /\ v # s
    BY <1>7, PickIn
  <2>2. g[v] = val(v)
    <3>1. CASE v = {}
      BY <1>5, <1>6, <1>7, <3>1
    <3>2. CASE v # {}
      BY <1>4, <1>6, <2>1, <3>2
    <3>. QED BY <3>1, <3>2
  <2>. QED BY <1>6, <1>7, <2>2
<1>8. Solves(g, f, s)
  BY <1>6, <1>7 DEF Solves
<1>. QED BY <1>2, <1>8

\* The sum over nothing.
LEMMA SumEmpty ==
    ASSUME NEW f
    PROVE  SumFunctionOnSet(f, {}) = 0
<1>1. Solves(Sol(f, {}), f, {})
  BY SolExists, FS_EmptySet
<1>. QED BY <1>1, SumSol, SolvesAt

LEMMA SumPick ==
    ASSUME NEW f, NEW S, IsFiniteSet(S), S # {}
    PROVE  SumFunctionOnSet(f, S) = f[Pick(S)] + SumFunctionOnSet(f, S \ {Pick(S)})
<1>. DEFINE rest == S \ {Pick(S)}
<1>1. IsFiniteSet(rest) /\ rest \in SUBSET S
  BY FS_Subset
<1>. HIDE DEF rest
<1>2. Solves(Sol(f, S), f, S) /\ Solves(Sol(f, rest), f, rest)
  BY <1>1, SolExists
<1>3. Sol(f, S)[rest] = Sol(f, rest)[rest]
  <2>1. \A s \in SUBSET S : s \subseteq rest => Sol(f, S)[s] = Sol(f, rest)[s]
    BY <1>2, SolvesAgree
  <2>. QED BY <1>1, <2>1
<1>4. Sol(f, S)[S] = f[Pick(S)] + Sol(f, S)[rest]
  BY <1>2, SolvesAt DEF rest
<1>. QED BY <1>3, <1>4, SumSol DEF rest

\* A sum of integers is an integer.
LEMMA SumInt ==
    ASSUME NEW f, NEW S, IsFiniteSet(S), \A x \in S : f[x] \in Int
    PROVE  SumFunctionOnSet(f, S) \in Int
<1>. DEFINE T == {s \in SUBSET S : SumFunctionOnSet(f, s) \notin Int}
<1>1. SUFFICES ASSUME T # {} PROVE FALSE
  OBVIOUS
<1>2. PICK s \in T : \A y \in SUBSET s : y # s => y \notin T
  <2>1. T \subseteq SUBSET S
    OBVIOUS
  <2>. HIDE DEF T
  <2>. QED BY <1>1, <2>1, Smallest
<1>3. s # {}
  <2>1. SumFunctionOnSet(f, {}) \in Int
    BY SumEmpty
  <2>2. SumFunctionOnSet(f, s) \notin Int
    BY <1>2
  <2>. QED BY <2>1, <2>2
<1>4. Pick(s) \in s /\ s \subseteq S /\ IsFiniteSet(s)
  BY <1>2, <1>3, PickIn, FS_Subset
<1>5. SumFunctionOnSet(f, s \ {Pick(s)}) \in Int
  <2>1. s \ {Pick(s)} \in SUBSET s /\ s \ {Pick(s)} # s /\ s \ {Pick(s)} \in SUBSET S
    BY <1>4
  <2>. QED BY <1>2, <2>1
<1>6. f[Pick(s)] \in Int
  BY <1>4
<1>7. SumFunctionOnSet(f, s) \in Int
  BY <1>3, <1>4, <1>5, <1>6, SumPick
<1>. QED BY <1>2, <1>7

\* Any element may be taken out first.
LEMMA SumRemove ==
    ASSUME NEW f, NEW S, IsFiniteSet(S), \A x \in S : f[x] \in Int, NEW x \in S
    PROVE  SumFunctionOnSet(f, S) = f[x] + SumFunctionOnSet(f, S \ {x})
<1>. DEFINE Ok(s) == \A e \in s : SumFunctionOnSet(f, s) = f[e] + SumFunctionOnSet(f, s \ {e})
           T == {s \in SUBSET S : ~Ok(s)}
<1>1. SUFFICES ASSUME T # {} PROVE FALSE
  <2>1. S \notin T => Ok(S)
    OBVIOUS
  <2>. QED BY <2>1
<1>2. PICK s \in T : \A y \in SUBSET s : y # s => y \notin T
  <2>1. T \subseteq SUBSET S
    OBVIOUS
  <2>. HIDE DEF T
  <2>. QED BY <1>1, <2>1, Smallest
<1>3. s \subseteq S /\ ~Ok(s)
  BY <1>2
<1>4. PICK e \in s : SumFunctionOnSet(f, s) # f[e] + SumFunctionOnSet(f, s \ {e})
  BY <1>3
<1>. DEFINE c == Pick(s)
<1>5. c \in s /\ SumFunctionOnSet(f, s) = f[c] + SumFunctionOnSet(f, s \ {c})
  BY <1>3, <1>4, PickIn, SumPick, FS_Subset
<1>. HIDE DEF c
<1>6. c # e
  BY <1>4, <1>5
<1>7. ASSUME NEW y \in SUBSET s, y # s PROVE Ok(y)
  <2>1. y \in SUBSET S /\ y \notin T
    BY <1>2, <1>3, <1>7
  <2>. QED BY <2>1
<1>8. SumFunctionOnSet(f, s \ {c}) = f[e] + SumFunctionOnSet(f, (s \ {c}) \ {e})
  <2>1. s \ {c} \in SUBSET s /\ s \ {c} # s /\ e \in s \ {c}
    BY <1>4, <1>5, <1>6
  <2>. QED BY <1>7, <2>1
<1>9. SumFunctionOnSet(f, s \ {e}) = f[c] + SumFunctionOnSet(f, (s \ {e}) \ {c})
  <2>1. s \ {e} \in SUBSET s /\ s \ {e} # s /\ c \in s \ {e}
    BY <1>4, <1>5, <1>6
  <2>. QED BY <1>7, <2>1
<1>. DEFINE rest == s \ {c, e}
<1>10. (s \ {c}) \ {e} = rest /\ (s \ {e}) \ {c} = rest /\ rest \subseteq S
  BY <1>3
<1>11. SumFunctionOnSet(f, rest) \in Int
  BY <1>10, SumInt, FS_Subset
<1>12. f[c] \in Int /\ f[e] \in Int
  BY <1>3, <1>4, <1>5
<1>. HIDE DEF rest
<1>13. SumFunctionOnSet(f, s) = f[c] + (f[e] + SumFunctionOnSet(f, rest))
  BY <1>5, <1>8, <1>10
<1>14. SumFunctionOnSet(f, s \ {e}) = f[c] + SumFunctionOnSet(f, rest)
  BY <1>9, <1>10
<1>. QED BY <1>4, <1>11, <1>12, <1>13, <1>14

\* One more element.
LEMMA SumAdd ==
    ASSUME NEW f, NEW S, IsFiniteSet(S), \A y \in S : f[y] \in Int, NEW x, x \notin S, f[x] \in Int
    PROVE  SumFunctionOnSet(f, S \union {x}) = f[x] + SumFunctionOnSet(f, S)
<1>1. IsFiniteSet(S \union {x}) /\ (S \union {x}) \ {x} = S
  BY FS_AddElement
<1>. QED BY <1>1, SumRemove

\* A sum depends on the summands only.
LEMMA SumSame ==
    ASSUME NEW f, NEW g, NEW S, IsFiniteSet(S), \A x \in S : f[x] = g[x]
    PROVE  SumFunctionOnSet(f, S) = SumFunctionOnSet(g, S)
<1>. DEFINE T == {s \in SUBSET S : SumFunctionOnSet(f, s) # SumFunctionOnSet(g, s)}
<1>1. SUFFICES ASSUME T # {} PROVE FALSE
  OBVIOUS
<1>2. PICK s \in T : \A y \in SUBSET s : y # s => y \notin T
  <2>1. T \subseteq SUBSET S
    OBVIOUS
  <2>. HIDE DEF T
  <2>. QED BY <1>1, <2>1, Smallest
<1>3. s # {}
  BY <1>2, SumEmpty
<1>4. Pick(s) \in s /\ s \subseteq S /\ IsFiniteSet(s)
  BY <1>2, <1>3, PickIn, FS_Subset
<1>5. SumFunctionOnSet(f, s \ {Pick(s)}) = SumFunctionOnSet(g, s \ {Pick(s)})
  <2>1. s \ {Pick(s)} \in SUBSET s /\ s \ {Pick(s)} # s /\ s \ {Pick(s)} \in SUBSET S
    BY <1>4
  <2>. QED BY <1>2, <2>1
<1>6. f[Pick(s)] = g[Pick(s)]
  BY <1>4
<1>7. SumFunctionOnSet(f, s) = SumFunctionOnSet(g, s)
  BY <1>3, <1>4, <1>5, <1>6, SumPick
<1>. QED BY <1>2, <1>7

\* A sum of zeros.
LEMMA SumZero ==
    ASSUME NEW f, NEW S, IsFiniteSet(S), \A x \in S : f[x] = 0
    PROVE  SumFunctionOnSet(f, S) = 0
<1>. DEFINE T == {s \in SUBSET S : SumFunctionOnSet(f, s) # 0}
<1>1. SUFFICES ASSUME T # {} PROVE FALSE
  OBVIOUS
<1>2. PICK s \in T : \A y \in SUBSET s : y # s => y \notin T
  <2>1. T \subseteq SUBSET S
    OBVIOUS
  <2>. HIDE DEF T
  <2>. QED BY <1>1, <2>1, Smallest
<1>3. s # {}
  BY <1>2, SumEmpty
<1>4. Pick(s) \in s /\ s \subseteq S /\ IsFiniteSet(s)
  BY <1>2, <1>3, PickIn, FS_Subset
<1>5. SumFunctionOnSet(f, s \ {Pick(s)}) = 0
  <2>1. s \ {Pick(s)} \in SUBSET s /\ s \ {Pick(s)} # s /\ s \ {Pick(s)} \in SUBSET S
    BY <1>4
  <2>. QED BY <1>2, <2>1
<1>6. SumFunctionOnSet(f, s) = f[Pick(s)] + SumFunctionOnSet(f, s \ {Pick(s)})
  BY <1>3, <1>4, SumPick
<1>. QED BY <1>2, <1>4, <1>5, <1>6
=============================================================================

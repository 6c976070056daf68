--------------------------- MODULE SpendingProofs ---------------------------
(***************************************************************************)
(* Proofs about Spending, for any prices, any limit and period, and any    *)
(* number of responses, tool calls and runs. A run's cost and the ledger   *)
(* are sums over finite sets (SumFunctionOnSet), so the module begins with *)
(* what such a sum is: the fold's recursion has a solution on every finite *)
(* set, and from it that a sum does not depend on the order, grows with    *)
(* its terms and is no smaller than a part of it. The library's induction  *)
(* theorems are replaced by a smallest counterexample (SmallestSet).       *)
(*                                                                         *)
(* The inductive invariant SpendingIInv adds to the properties: whose the  *)
(* responses in a history are, that the calls asked for are the first      *)
(* ones, what an unfinished run has used, and that a run was allowed       *)
(* within the limit and nothing was charged since.                         *)
(***************************************************************************)
EXTENDS Spending, FiniteSetTheorems, WellFoundedInduction, TLAPS

-----------------------------------------------------------------------------
(* Sums over finite sets.                                                  *)

\* The element the fold takes first.
Pick(s) == CHOOSE x \in s : TRUE

\* g sums f over each part of S.
Adds(g, f, S) ==
    g = [s \in SUBSET S |-> IF s = {} THEN 0 ELSE f[Pick(s)] + g[s \ {Pick(s)}]]

LEMMA SumByRecursion ==
    ASSUME NEW f, NEW S
    PROVE  SumFunctionOnSet(f, S) = (CHOOSE g : Adds(g, f, S))[S]
BY DEF SumFunctionOnSet, FoldFunctionOnSet, MapThenFoldSet, Adds, Pick

\* Among finite sets there is one that none of the others is smaller than.
LEMMA SmallestSet ==
    ASSUME NEW C, C # {}, \A s \in C : IsFiniteSet(s)
    PROVE  \E s \in C : \A t \in C : ~(Cardinality(t) < Cardinality(s))
<1> DEFINE N == {Cardinality(s) : s \in C}
           R == OpToRel(<, Nat)
<1>1. /\ N \subseteq Nat
      /\ N # {}
  BY FS_CardinalityType
<1>2. \E x \in N : \A y \in N : <<y, x>> \notin R
  <2> HIDE DEF N, R
  <2>1. IsWellFoundedOn(R, Nat)
    BY NatLessThanWellFounded DEF R
  <2> QED
    BY <1>1, <2>1, WFMin
<1>3. \A x, y \in N : y < x => <<y, x>> \in R
  BY <1>1 DEF OpToRel
<1>4. PICK s \in C : \A y \in N : <<y, Cardinality(s)>> \notin R
  BY <1>2
<1>5. \A t \in C : ~(Cardinality(t) < Cardinality(s))
  BY <1>3, <1>4
<1> QED
  BY <1>5

\* Taking an element out makes a finite set smaller.
LEMMA Smaller ==
    ASSUME NEW S, IsFiniteSet(S), NEW x \in S
    PROVE  /\ IsFiniteSet(S \ {x})
           /\ Cardinality(S \ {x}) < Cardinality(S)
<1>1. /\ IsFiniteSet(S \ {x})
      /\ Cardinality(S \ {x}) = Cardinality(S) - 1
  BY FS_RemoveElement
<1>2. Cardinality(S) \in Nat
  BY FS_CardinalityType
<1> QED
  BY <1>1, <1>2

LEMMA PickedIsIn ==
    ASSUME NEW S, S # {}
    PROVE  Pick(S) \in S
BY DEF Pick

LEMMA AddsUnfolds ==
    ASSUME NEW f, NEW S, NEW g, Adds(g, f, S), NEW s \in SUBSET S
    PROVE  /\ s = {} => g[s] = 0
           /\ s # {} => g[s] = f[Pick(s)] + g[s \ {Pick(s)}]
<1> DEFINE h == [t \in SUBSET S |-> IF t = {} THEN 0 ELSE f[Pick(t)] + g[t \ {Pick(t)}]]
<1>1. g = h
  BY DEF Adds
<1>2. h[s] = IF s = {} THEN 0 ELSE f[Pick(s)] + g[s \ {Pick(s)}]
  OBVIOUS
<1> HIDE DEF h
<1> QED
  BY <1>1, <1>2

\* Where two such functions overlap they agree.
LEMMA AddsAgree ==
    ASSUME NEW f, NEW S, NEW T, IsFiniteSet(S), NEW g, NEW h, Adds(g, f, S), Adds(h, f, T),
           NEW s \in SUBSET S, s \in SUBSET T
    PROVE  g[s] = h[s]
<1> DEFINE C == {t \in SUBSET S : t \in SUBSET T /\ g[t] # h[t]}
<1>1. SUFFICES ASSUME C # {} PROVE FALSE
  OBVIOUS
<1>2. \A t \in C : IsFiniteSet(t)
  BY FS_Subset
<1> HIDE DEF C
<1>3. PICK t \in C : \A u \in C : ~(Cardinality(u) < Cardinality(t))
  BY <1>1, <1>2, SmallestSet
<1> USE DEF C
<1>4. t # {}
  BY AddsUnfolds
<1>5. Pick(t) \in t
  BY <1>4, PickedIsIn
<1>6. g[t \ {Pick(t)}] = h[t \ {Pick(t)}]
  <2>1. t \in SUBSET S /\ t \in SUBSET T /\ IsFiniteSet(t)
    BY <1>2
  <2>2. Cardinality(t \ {Pick(t)}) < Cardinality(t)
    BY <2>1, <1>5, Smaller
  <2>3. t \ {Pick(t)} \notin C
    BY <2>2, <1>3
  <2> QED
    BY <2>1, <2>3
<1>7. /\ g[t] = f[Pick(t)] + g[t \ {Pick(t)}]
      /\ h[t] = f[Pick(t)] + h[t \ {Pick(t)}]
  <2>1. t \in SUBSET S /\ t \in SUBSET T
    OBVIOUS
  <2> HIDE DEF C
  <2>2. g[t] = f[Pick(t)] + g[t \ {Pick(t)}]
    BY <1>4, <2>1, AddsUnfolds
  <2>3. h[t] = f[Pick(t)] + h[t \ {Pick(t)}]
    BY <1>4, <2>1, AddsUnfolds
  <2> QED
    BY <2>2, <2>3
<1> QED
  BY <1>6, <1>7

\* On a finite set there is one.
LEMMA AddsExists ==
    ASSUME NEW f, NEW S, IsFiniteSet(S)
    PROVE  \E g : Adds(g, f, S)
<1> DEFINE C == {s \in SUBSET S : ~ \E g : Adds(g, f, s)}
<1>1. SUFFICES ASSUME C # {} PROVE FALSE
  OBVIOUS
<1>2. \A s \in C : IsFiniteSet(s)
  BY FS_Subset
<1> HIDE DEF C
<1>3. PICK s \in C : \A u \in C : ~(Cardinality(u) < Cardinality(s))
  BY <1>1, <1>2, SmallestSet
<1> USE DEF C
<1>4. \A x \in s : s \ {x} \notin C
  BY <1>2, <1>3, Smaller
<1> DEFINE G(u) == CHOOSE g : Adds(g, f, u)
<1>5. ASSUME NEW u \in SUBSET s, u # s
      PROVE  Adds(G(u), f, u)
  <2>1. PICK x \in s : u \subseteq s \ {x}
    BY <1>5
  <2>2. IsFiniteSet(s) /\ IsFiniteSet(s \ {x})
    BY <1>2, Smaller
  <2>3. /\ Cardinality(s) \in Nat /\ Cardinality(u) \in Nat
        /\ Cardinality(u) <= Cardinality(s \ {x})
        /\ Cardinality(s \ {x}) \in Nat
        /\ Cardinality(s \ {x}) < Cardinality(s)
    BY <2>1, <2>2, FS_Subset, FS_CardinalityType, Smaller
  <2>4. u \notin C
    BY <2>3, <1>3
  <2> QED
    BY <2>4
<1>6. ASSUME NEW t \in SUBSET s, t # s, NEW u \in SUBSET t
      PROVE  G(t)[u] = G(u)[u]
  <2>1. Adds(G(t), f, t) /\ Adds(G(u), f, u)
    BY <1>5, <1>6
  <2>2. IsFiniteSet(t)
    BY <1>2, <1>6, FS_Subset
  <2>3. u \in SUBSET t /\ u \in SUBSET u
    BY <1>6
  <2> HIDE DEF G
  <2> QED
    BY <2>1, <2>2, <2>3, AddsAgree
<1> DEFINE h == [t \in SUBSET s |->
                    IF t = {} THEN 0
                    ELSE IF t = s THEN f[Pick(s)] + G(s \ {Pick(s)})[s \ {Pick(s)}]
                    ELSE G(t)[t]]
<1>7. ASSUME NEW t \in SUBSET s
      PROVE  h[t] = IF t = {} THEN 0 ELSE f[Pick(t)] + h[t \ {Pick(t)}]
  <2>1. CASE t = {}
    BY <2>1
  <2>2. ASSUME t # {} PROVE /\ Pick(t) \in t
                            /\ t \ {Pick(t)} \in SUBSET s
                            /\ t \ {Pick(t)} # s
                            /\ t \ {Pick(t)} \in SUBSET t
    BY <2>2, PickedIsIn
  <2>3. ASSUME t # {}
        PROVE  h[t \ {Pick(t)}] = G(t \ {Pick(t)})[t \ {Pick(t)}]
    <3> DEFINE u == t \ {Pick(t)}
    <3>1. u \in SUBSET s /\ u # s
      BY <2>2, <2>3
    <3> HIDE DEF u
    <3>2. Adds(G(u), f, u)
      BY <3>1, <1>5
    <3>3. u = {} => G(u)[u] = 0
      <4> HIDE DEF G
      <4> QED  BY <3>2, AddsUnfolds
    <3>4. h[u] = G(u)[u]
      <4> HIDE DEF G
      <4> QED  BY <3>1, <3>3
    <3> QED
      BY <3>4 DEF u
  <2>4. CASE t # {} /\ t = s
    <3> HIDE DEF G
    <3> QED  BY <2>3, <2>4
  <2>5. CASE t # {} /\ t # s
    <3>1. Adds(G(t), f, t)
      BY <2>5, <1>5
    <3>2. G(t)[t] = f[Pick(t)] + G(t)[t \ {Pick(t)}]
      <4> HIDE DEF G
      <4> QED  BY <3>1, <2>5, AddsUnfolds
    <3>3. G(t)[t \ {Pick(t)}] = G(t \ {Pick(t)})[t \ {Pick(t)}]
      <4> HIDE DEF G
      <4> QED  BY <1>6, <2>2, <2>5
    <3> HIDE DEF G
    <3>4. h[t] = G(t)[t]
      BY <2>5
    <3> HIDE DEF h
    <3> QED
      BY <3>2, <3>3, <3>4, <2>3, <2>5
  <2> QED
    BY <2>1, <2>4, <2>5
<1>8. Adds(h, f, s)
  <2>1. h = [t \in SUBSET s |-> h[t]]
    OBVIOUS
  <2> HIDE DEF h
  <2>2. \A t \in SUBSET s : h[t] = IF t = {} THEN 0 ELSE f[Pick(t)] + h[t \ {Pick(t)}]
    BY <1>7
  <2> QED
    BY <2>1, <2>2 DEF Adds
<1> QED
  <2> HIDE DEF h
  <2> QED  BY <1>8

-----------------------------------------------------------------------------
\* The sum of f over a finite set.
LEMMA SumUnfolds ==
    ASSUME NEW f, NEW S, IsFiniteSet(S)
    PROVE  /\ S = {} => SumFunctionOnSet(f, S) = 0
           /\ S # {} => SumFunctionOnSet(f, S)
                          = f[Pick(S)] + SumFunctionOnSet(f, S \ {Pick(S)})
<1> DEFINE G(u) == CHOOSE g : Adds(g, f, u)
<1>1. Adds(G(S), f, S)
  BY AddsExists
<1>2. /\ SumFunctionOnSet(f, S) = G(S)[S]
      /\ SumFunctionOnSet(f, S \ {Pick(S)}) = G(S \ {Pick(S)})[S \ {Pick(S)}]
  BY SumByRecursion
<1>3. Adds(G(S \ {Pick(S)}), f, S \ {Pick(S)})
  BY AddsExists, FS_Difference
<1> HIDE DEF G
<1>4. G(S)[S \ {Pick(S)}] = G(S \ {Pick(S)})[S \ {Pick(S)}]
  <2> DEFINE T == S \ {Pick(S)}
  <2>1. T \in SUBSET S /\ T \in SUBSET T
    OBVIOUS
  <2>2. Adds(G(T), f, T)
    BY <1>3
  <2> HIDE DEF T
  <2>3. G(S)[T] = G(T)[T]
    BY <1>1, <2>1, <2>2, AddsAgree
  <2> QED
    BY <2>3 DEF T
<1>5. /\ S = {} => G(S)[S] = 0
      /\ S # {} => G(S)[S] = f[Pick(S)] + G(S)[S \ {Pick(S)}]
  BY <1>1, AddsUnfolds
<1> QED
  BY <1>2, <1>4, <1>5

LEMMA SumType ==
    ASSUME NEW f, NEW S, IsFiniteSet(S), \A x \in S : f[x] \in Nat
    PROVE  SumFunctionOnSet(f, S) \in Nat
<1> DEFINE C == {s \in SUBSET S : SumFunctionOnSet(f, s) \notin Nat}
<1>1. SUFFICES ASSUME C # {} PROVE FALSE
  OBVIOUS
<1>2. \A s \in C : IsFiniteSet(s)
  BY FS_Subset
<1> HIDE DEF C
<1>3. PICK s \in C : \A u \in C : ~(Cardinality(u) < Cardinality(s))
  BY <1>1, <1>2, SmallestSet
<1> USE DEF C
<1>4. s # {} /\ SumFunctionOnSet(f, s) = f[Pick(s)] + SumFunctionOnSet(f, s \ {Pick(s)})
  BY <1>2, SumUnfolds
<1>5. Pick(s) \in s
  BY <1>4, PickedIsIn
<1>6. s \ {Pick(s)} \notin C
  BY <1>2, <1>3, <1>5, Smaller
<1> QED
  BY <1>4, <1>5, <1>6

LEMMA SumOfZeros ==
    ASSUME NEW f, NEW S, IsFiniteSet(S), \A x \in S : f[x] = 0
    PROVE  SumFunctionOnSet(f, S) = 0
<1> DEFINE C == {s \in SUBSET S : SumFunctionOnSet(f, s) # 0}
<1>1. SUFFICES ASSUME C # {} PROVE FALSE
  OBVIOUS
<1>2. \A s \in C : IsFiniteSet(s)
  BY FS_Subset
<1> HIDE DEF C
<1>3. PICK s \in C : \A u \in C : ~(Cardinality(u) < Cardinality(s))
  BY <1>1, <1>2, SmallestSet
<1> USE DEF C
<1>4. s # {} /\ SumFunctionOnSet(f, s) = f[Pick(s)] + SumFunctionOnSet(f, s \ {Pick(s)})
  BY <1>2, SumUnfolds
<1>5. Pick(s) \in s
  BY <1>4, PickedIsIn
<1>6. s \ {Pick(s)} \notin C
  BY <1>2, <1>3, <1>5, Smaller
<1> QED
  BY <1>4, <1>5, <1>6

\* A sum depends on the values it adds only.
LEMMA SumAgrees ==
    ASSUME NEW f, NEW g, NEW S, IsFiniteSet(S), \A x \in S : f[x] = g[x]
    PROVE  SumFunctionOnSet(f, S) = SumFunctionOnSet(g, S)
<1> DEFINE C == {s \in SUBSET S : SumFunctionOnSet(f, s) # SumFunctionOnSet(g, s)}
<1>1. SUFFICES ASSUME C # {} PROVE FALSE
  OBVIOUS
<1>2. \A s \in C : IsFiniteSet(s)
  BY FS_Subset
<1> HIDE DEF C
<1>3. PICK s \in C : \A u \in C : ~(Cardinality(u) < Cardinality(s))
  BY <1>1, <1>2, SmallestSet
<1> USE DEF C
<1>4. /\ s = {} => SumFunctionOnSet(f, s) = 0 /\ SumFunctionOnSet(g, s) = 0
      /\ s # {} =>
            /\ SumFunctionOnSet(f, s) = f[Pick(s)] + SumFunctionOnSet(f, s \ {Pick(s)})
            /\ SumFunctionOnSet(g, s) = g[Pick(s)] + SumFunctionOnSet(g, s \ {Pick(s)})
  BY <1>2, SumUnfolds
<1>5. s # {} /\ Pick(s) \in s
  BY <1>4, PickedIsIn
<1>6. s \ {Pick(s)} \notin C
  BY <1>2, <1>3, <1>5, Smaller
<1> QED
  BY <1>4, <1>5, <1>6

\* Any element may be added last.
LEMMA SumTakesOut ==
    ASSUME NEW f, NEW S, IsFiniteSet(S), \A x \in S : f[x] \in Nat
    PROVE  \A x \in S : SumFunctionOnSet(f, S) = f[x] + SumFunctionOnSet(f, S \ {x})
<1> DEFINE Holds(s) ==
       \A x \in s : SumFunctionOnSet(f, s) = f[x] + SumFunctionOnSet(f, s \ {x})
    C == {s \in SUBSET S : ~Holds(s)}
<1>1. SUFFICES ASSUME C # {} PROVE FALSE
  OBVIOUS
<1>2. \A s \in C : IsFiniteSet(s)
  BY FS_Subset
<1> HIDE DEF C
<1>3. PICK s \in C : \A u \in C : ~(Cardinality(u) < Cardinality(s))
  BY <1>1, <1>2, SmallestSet
<1> USE DEF C
<1>4. PICK x \in s : SumFunctionOnSet(f, s) # f[x] + SumFunctionOnSet(f, s \ {x})
  BY <1>3
<1> DEFINE p == Pick(s)
<1>5. p \in s /\ s \in SUBSET S
  BY <1>4, PickedIsIn
<1>6. SumFunctionOnSet(f, s) = f[p] + SumFunctionOnSet(f, s \ {p})
  BY <1>2, <1>4, SumUnfolds
<1>7. Holds(s \ {p}) /\ Holds(s \ {x})
  <2> HIDE DEF Holds
  <2>1. /\ Cardinality(s \ {p}) < Cardinality(s)
        /\ Cardinality(s \ {x}) < Cardinality(s)
    BY <1>2, <1>5, Smaller
  <2> QED
    BY <2>1, <1>3, <1>5
<1> HIDE DEF p
<1>8. p # x
  BY <1>4, <1>6
<1>9. /\ SumFunctionOnSet(f, s \ {p}) = f[x] + SumFunctionOnSet(f, (s \ {p}) \ {x})
      /\ SumFunctionOnSet(f, s \ {x}) = f[p] + SumFunctionOnSet(f, (s \ {x}) \ {p})
  BY <1>5, <1>7, <1>8
<1>10. (s \ {p}) \ {x} = (s \ {x}) \ {p}
  OBVIOUS
<1>11. SumFunctionOnSet(f, (s \ {x}) \ {p}) \in Nat
  <2> DEFINE u == (s \ {x}) \ {p}
  <2>1. IsFiniteSet(u) /\ \A y \in u : f[y] \in Nat
    BY <1>5, FS_Subset
  <2> HIDE DEF u
  <2>2. SumFunctionOnSet(f, u) \in Nat
    BY <2>1, SumType
  <2> QED
    BY <2>2 DEF u
<1>12. f[x] \in Nat /\ f[p] \in Nat
  BY <1>4, <1>5
<1>13. PICK w \in Nat : w = SumFunctionOnSet(f, (s \ {x}) \ {p})
  BY <1>11
<1>14. /\ SumFunctionOnSet(f, s) = f[p] + (f[x] + w)
       /\ SumFunctionOnSet(f, s \ {x}) = f[p] + w
  BY <1>6, <1>9, <1>10, <1>13
<1>15. f[p] + (f[x] + w) = f[x] + (f[p] + w)
  BY <1>12
<1> QED
  BY <1>4, <1>14, <1>15

\* A part of a sum is no larger.
LEMMA SumIsMonotone ==
    ASSUME NEW f, NEW S, IsFiniteSet(S), \A x \in S : f[x] \in Nat, NEW T \in SUBSET S
    PROVE  SumFunctionOnSet(f, T) <= SumFunctionOnSet(f, S)
<1> DEFINE C == {s \in SUBSET S : T \subseteq s
                                 /\ ~(SumFunctionOnSet(f, T) <= SumFunctionOnSet(f, s))}
<1>1. SUFFICES ASSUME C # {} PROVE FALSE
  OBVIOUS
<1>2. \A s \in SUBSET S : IsFiniteSet(s)
  BY FS_Subset
<1>3. \A s \in SUBSET S : SumFunctionOnSet(f, s) \in Nat
  BY <1>2, SumType
<1>4. PICK s \in C : \A u \in C : ~(Cardinality(u) < Cardinality(s))
  <2>1. \A s \in C : IsFiniteSet(s)
    BY <1>2
  <2> HIDE DEF C
  <2> QED
    BY <1>1, <2>1, SmallestSet
<1>5. PICK x \in s : x \notin T
  BY <1>3, <1>4
<1>6. s \ {x} \notin C
  BY <1>2, <1>4, <1>5, Smaller
<1>7. SumFunctionOnSet(f, s) = f[x] + SumFunctionOnSet(f, s \ {x})
  BY <1>2, <1>4, <1>5, SumTakesOut
<1>8. /\ f[x] \in Nat
      /\ SumFunctionOnSet(f, s \ {x}) \in Nat
      /\ SumFunctionOnSet(f, T) <= SumFunctionOnSet(f, s \ {x})
      /\ ~(SumFunctionOnSet(f, T) <= SumFunctionOnSet(f, s))
      /\ SumFunctionOnSet(f, T) \in Nat
  BY <1>3, <1>4, <1>5, <1>6
<1> QED
  BY <1>7, <1>8

\* More at one element is more in the sum.
LEMMA SumGrows ==
    ASSUME NEW f, NEW g, NEW S, IsFiniteSet(S), NEW x, NEW d \in Nat,
           \A y \in S : f[y] \in Nat,
           \A y \in S : g[y] = IF y = x THEN f[y] + d ELSE f[y]
    PROVE  SumFunctionOnSet(g, S) = IF x \in S THEN SumFunctionOnSet(f, S) + d
                                    ELSE SumFunctionOnSet(f, S)
<1>1. CASE x \notin S
  BY <1>1, SumAgrees
<1>2. CASE x \in S
  <2>1. \A y \in S : g[y] \in Nat
    OBVIOUS
  <2>2. /\ SumFunctionOnSet(f, S) = f[x] + SumFunctionOnSet(f, S \ {x})
        /\ SumFunctionOnSet(g, S) = g[x] + SumFunctionOnSet(g, S \ {x})
    BY <1>2, <2>1, SumTakesOut
  <2>3. IsFiniteSet(S \ {x})
    BY FS_Difference
  <2>4. SumFunctionOnSet(f, S \ {x}) \in Nat
    BY <2>3, SumType
  <2>5. SumFunctionOnSet(f, S \ {x}) = SumFunctionOnSet(g, S \ {x})
    BY <2>3, SumAgrees
  <2> QED
    BY <1>2, <2>2, <2>4, <2>5
<1> QED
  BY <1>1, <1>2
-----------------------------------------------------------------------------
(* The inductive invariant.                                                *)

\* The run is not over.
Active == {"model", "tools", "answered", "recorded"}

\* What the run is given and what it adds belongs to no later run.
RunsInOrder ==
    /\ turn.phase \in Active => turns > 0
    /\ \A i \in DOMAIN turn.messages : turn.messages[i].run <= turns
    /\ \A t \in Threads : \A i \in DOMAIN history[t] : history[t][i].run <= turns

\* The calls asked for so far are the first ones, and each response asked for no more
\* than MaxCalls of them.
CallsInOrder ==
    \E k \in 0..(Cardinality(Own(turn.messages)) * MaxCalls) :
        InState(CallStates \ {"unknown"}) = 1..k

\* Until a run is over its own responses and searches account for what it used.
UseIsKnown == turn.phase \in Active => consumed = ResultUsage

\* And all that was captured cost what the run used and what the history had cost.
PriceOfAll(m) == PriceOf(m, DOMAIN m)

HistoryIsKnown ==
    turn.phase \in Active =>
        PriceOfAll(turn.messages) + Metered = consumed + PriceOfAll(history[turn.thread])

\* It is charged with its reply, and not before.
ChargedSoFar ==
    /\ turn.phase \in {"model", "tools", "answered"} => turn.charged = 0
    /\ turn.phase = "recorded" => turn.charged = consumed

TurnInv ==
    /\ RunsInOrder /\ CallsInOrder /\ UseIsKnown /\ HistoryIsKnown /\ ChargedSoFar
    /\ UseIsCharged /\ CallsAreTracedOnce

\* A run that is not over began within the limit, and nothing but itself was charged since.
StartedWithin == running => SpentIn(InPeriod) < Limit + turn.charged

BudgetInv == StartedWithin /\ OvershootIsOneRun /\ NoticeIsHonest

SpendingIInv == TypeOK /\ TurnInv /\ BudgetInv

-----------------------------------------------------------------------------
(* What a run costs.                                                       *)

PricesOf(m) == [i \in DOMAIN m |-> m[i].price]

OwnOf(m, n) == {i \in DOMAIN m : m[i].run = n}

LEMMA PricesType ==
    ASSUME NEW m \in Seq(Response)
    PROVE  /\ DOMAIN m = 1..Len(m) /\ Len(m) \in Nat /\ IsFiniteSet(DOMAIN m)
           /\ \A i \in DOMAIN m : PricesOf(m)[i] = m[i].price /\ m[i].price \in Nat
           /\ \A i \in DOMAIN m : m[i].run \in 1..MaxTurns
<1>1. DOMAIN m = 1..Len(m) /\ Len(m) \in Nat
  OBVIOUS
<1>2. IsFiniteSet(1..Len(m))
  BY <1>1, FS_Interval
<1>3. \A i \in DOMAIN m : m[i] \in Response
  BY <1>1
<1>4. \A i \in DOMAIN m : m[i].price \in Nat /\ m[i].run \in 1..MaxTurns
  BY <1>3, AgentTurnAssumption DEF Response
<1> QED
  BY <1>1, <1>2, <1>4 DEF PricesOf

\* Some of the responses cost no more than all of them.
LEMMA PartsAreCheaper ==
    ASSUME NEW m \in Seq(Response), NEW W \in SUBSET DOMAIN m
    PROVE  /\ PriceOf(m, W) \in Nat
           /\ PriceOf(m, DOMAIN m) \in Nat
           /\ PriceOf(m, W) <= PriceOf(m, DOMAIN m)
<1>1. /\ PriceOf(m, W) = SumFunctionOnSet(PricesOf(m), W)
      /\ PriceOf(m, DOMAIN m) = SumFunctionOnSet(PricesOf(m), DOMAIN m)
  BY DEF PriceOf, PricesOf
<1>2. IsFiniteSet(DOMAIN m) /\ \A i \in DOMAIN m : PricesOf(m)[i] \in Nat
  BY PricesType
<1>3. SumFunctionOnSet(PricesOf(m), W) <= SumFunctionOnSet(PricesOf(m), DOMAIN m)
  BY <1>2, SumIsMonotone
<1>4. IsFiniteSet(W) /\ \A i \in W : PricesOf(m)[i] \in Nat
  BY <1>2, FS_Subset
<1>5. SumFunctionOnSet(PricesOf(m), W) \in Nat
  BY <1>4, SumType
<1>6. SumFunctionOnSet(PricesOf(m), DOMAIN m) \in Nat
  BY <1>2, SumType
<1> QED
  BY <1>1, <1>3, <1>5, <1>6

\* The next response of a run adds itself to the run's own, and its price to what they
\* cost.
LEMMA ResponseIsAddedToAll ==
    ASSUME NEW m \in Seq(Response), NEW r \in Response
    PROVE  PriceOfAll(Append(m, r)) = PriceOfAll(m) + r.price /\ PriceOfAll(m) \in Nat
<1> DEFINE a == Append(m, r)
           x == Len(m) + 1
           f == PricesOf(a)
           g == PricesOf(m)
           W == DOMAIN m
           V == DOMAIN a
<1>1. /\ W = 1..Len(m) /\ Len(m) \in Nat /\ IsFiniteSet(W)
      /\ \A i \in W : g[i] = m[i].price /\ g[i] \in Nat
  BY PricesType
<1>2. /\ a \in Seq(Response)
      /\ V = 1..(Len(m) + 1)
      /\ \A i \in 1..Len(m) : a[i] = m[i]
      /\ a[Len(m) + 1] = r
  OBVIOUS
<1>3. /\ IsFiniteSet(V)
      /\ \A i \in V : f[i] = a[i].price /\ f[i] \in Nat
  BY <1>2, PricesType
<1>4. /\ PriceOfAll(a) = SumFunctionOnSet(f, V)
      /\ PriceOfAll(m) = SumFunctionOnSet(g, W)
  BY DEF PriceOfAll, PriceOf, PricesOf
<1> HIDE DEF a, f, g, V, W
<1>5. x \in V /\ V \ {x} = W
  BY <1>1, <1>2
<1>6. f[x] = r.price /\ r.price \in Nat /\ \A i \in W : f[i] = g[i]
  BY <1>1, <1>2, <1>3
<1> HIDE DEF x
<1>7. SumFunctionOnSet(f, V) = f[x] + SumFunctionOnSet(f, V \ {x})
  BY <1>3, <1>5, SumTakesOut
<1>8. SumFunctionOnSet(f, W) = SumFunctionOnSet(g, W)
  BY <1>1, <1>6, SumAgrees
<1>9. SumFunctionOnSet(g, W) \in Nat
  BY <1>1, SumType
<1>10. SumFunctionOnSet(f, V) = r.price + SumFunctionOnSet(g, W)
  <2>1. SumFunctionOnSet(f, V \ {x}) = SumFunctionOnSet(g, W)
    BY <1>5, <1>8
  <2> QED
    BY <2>1, <1>6, <1>7
<1>11. PriceOfAll(a) = PriceOfAll(m) + r.price
  BY <1>4, <1>6, <1>9, <1>10
<1> QED
  BY <1>4, <1>9, <1>11 DEF a

LEMMA ResponseIsAdded ==
    ASSUME NEW m \in Seq(Response), NEW r \in Response
    PROVE  /\ Append(m, r) \in Seq(Response)
           /\ IsFiniteSet(OwnOf(m, r.run))
           /\ Cardinality(OwnOf(m, r.run)) \in Nat
           /\ Cardinality(OwnOf(Append(m, r), r.run)) = Cardinality(OwnOf(m, r.run)) + 1
           /\ PriceOf(Append(m, r), OwnOf(Append(m, r), r.run))
                = PriceOf(m, OwnOf(m, r.run)) + r.price
<1> DEFINE a == Append(m, r)
           W == OwnOf(m, r.run)
           x == Len(m) + 1
<1>1. /\ DOMAIN m = 1..Len(m) /\ Len(m) \in Nat /\ IsFiniteSet(DOMAIN m)
      /\ \A i \in DOMAIN m : PricesOf(m)[i] = m[i].price /\ m[i].price \in Nat
  BY PricesType
<1>2. /\ a \in Seq(Response)
      /\ DOMAIN a = 1..(Len(m) + 1)
      /\ \A i \in 1..Len(m) : a[i] = m[i]
      /\ a[Len(m) + 1] = r
  OBVIOUS
<1>3. /\ IsFiniteSet(DOMAIN a)
      /\ \A i \in DOMAIN a : PricesOf(a)[i] = a[i].price /\ a[i].price \in Nat
  BY <1>2, PricesType
<1> HIDE DEF a
<1>4. OwnOf(a, r.run) = W \cup {x}
  <2>1. \A i : i \in DOMAIN a <=> i \in DOMAIN m \/ i = x
    BY <1>1, <1>2
  <2>2. x \notin DOMAIN m
    BY <1>1
  <2>3. \A i \in DOMAIN m : a[i] = m[i]
    BY <1>1, <1>2
  <2>4. a[x] = r
    BY <1>2
  <2> HIDE DEF x
  <2> QED
    BY <2>1, <2>2, <2>3, <2>4 DEF OwnOf
<1>5. W \in SUBSET DOMAIN m /\ x \notin W /\ IsFiniteSet(W)
  <2>1. W \in SUBSET DOMAIN m
    BY DEF OwnOf
  <2> QED
    BY <2>1, <1>1, FS_Subset
<1>6. Cardinality(W) \in Nat /\ Cardinality(W \cup {x}) = Cardinality(W) + 1
  <2> HIDE DEF W, x
  <2> QED
    BY <1>5, FS_AddElement, FS_CardinalityType
<1>7. PriceOf(a, W \cup {x}) = PriceOf(m, W) + r.price
  <2> DEFINE f == PricesOf(a)
             g == PricesOf(m)
             V == W \cup {x}
  <2>1. \A i \in V : i \in DOMAIN a
    BY <1>1, <1>2, <1>5
  <2>2. IsFiniteSet(V) /\ V \ {x} = W /\ x \in V
    <3> HIDE DEF W, x
    <3> QED
      BY <1>5, FS_AddElement
  <2>3. \A i \in V : f[i] \in Nat
    BY <2>1, <1>3
  <2>4. SumFunctionOnSet(f, V) = f[x] + SumFunctionOnSet(f, V \ {x})
    <3> HIDE DEF f, V, x
    <3> QED
      BY <2>2, <2>3, SumTakesOut
  <2>5. \A i \in W : f[i] = g[i]
    BY <1>1, <1>2, <1>3, <1>5
  <2>6. SumFunctionOnSet(f, W) = SumFunctionOnSet(g, W)
    <3> HIDE DEF f, g, W
    <3> QED
      BY <1>5, <2>5, SumAgrees
  <2>7. f[x] = r.price /\ r.price \in Nat
    BY <1>1, <1>2, <1>3
  <2>8. \A i \in W : g[i] \in Nat
    BY <1>1, <1>5
  <2>9. SumFunctionOnSet(g, W) \in Nat
    <3> HIDE DEF g, W
    <3> QED
      BY <1>5, <2>8, SumType
  <2>10. /\ PriceOf(a, V) = SumFunctionOnSet(f, V)
         /\ PriceOf(m, W) = SumFunctionOnSet(g, W)
    BY DEF PriceOf, PricesOf
  <2> HIDE DEF f, g, V, W, x
  <2>11. SumFunctionOnSet(f, V) = SumFunctionOnSet(g, W) + r.price
    <3>1. SumFunctionOnSet(f, V \ {x}) = SumFunctionOnSet(g, W)
      BY <2>2, <2>6
    <3>2. SumFunctionOnSet(f, V) = r.price + SumFunctionOnSet(g, W)
      BY <3>1, <2>4, <2>7
    <3> QED
      BY <3>2, <2>7, <2>9
  <2> QED
    BY <2>10, <2>11 DEF V
<1> QED
  BY <1>2, <1>4, <1>5, <1>6, <1>7 DEF a

-----------------------------------------------------------------------------
(* The run: each of its steps keeps what TypeOK and TurnInv say of it.     *)

TurnPart == TurnTypeOK /\ TurnInv

LEMMA TurnStarts == TurnInit => TurnPart
<1> SUFFICES ASSUME TurnInit PROVE TurnPart
  OBVIOUS
<1>1. PICK t \in Threads : turn = NewTurn("idle", t)
  BY AgentTurnAssumption DEF TurnInit
<1>2. /\ history = [u \in Threads |-> <<>>] /\ turns = 0 /\ consumed = 0
      /\ turn = [phase |-> "idle", thread |-> t, messages |-> <<>>, call |-> NoCalls,
                 searches |-> 0, steps |-> NoSteps, charged |-> 0]
  BY <1>1 DEF TurnInit, NewTurn
<1>3. TurnTypeOK
  <2>1. <<>> \in Seq(Response)
    OBVIOUS
  <2>2. history \in [Threads -> Seq(Response)]
    BY <1>2, <2>1
  <2>3. NoCalls \in [Calls -> CallStates] /\ NoSteps \in [Step -> Nat]
    BY DEF NoCalls, NoSteps, CallStates
  <2>4. "idle" \in Phases
    BY DEF Phases
  <2>5. turns \in 0..MaxTurns /\ consumed \in Nat
    BY <1>2, AgentTurnAssumption
  <2> QED
    BY <1>2, <2>1, <2>2, <2>3, <2>4, <2>5 DEF TurnTypeOK, Turn
<1>4. RunsInOrder
  BY <1>2 DEF RunsInOrder, Active
<1>5. CallsInOrder
  <2>1. Own(turn.messages) = {}
    BY <1>2 DEF Own
  <2>2. Cardinality(Own(turn.messages)) * MaxCalls = 0
    BY <2>1, FS_EmptySet, AgentTurnAssumption
  <2>3. \A c \in Calls : turn.call[c] = "unknown"
    BY <1>2 DEF NoCalls
  <2>4. InState(CallStates \ {"unknown"}) = {}
    BY <2>3 DEF InState
  <2>5. 1..0 = {}
    OBVIOUS
  <2>6. 0 \in 0..(Cardinality(Own(turn.messages)) * MaxCalls)
    BY <2>2
  <2> QED
    BY <2>4, <2>5, <2>6 DEF CallsInOrder
<1>6. UseIsKnown /\ UseIsCharged /\ HistoryIsKnown /\ ChargedSoFar
  BY <1>2 DEF UseIsKnown, UseIsCharged, HistoryIsKnown, ChargedSoFar, Active
<1>7. CallsAreTracedOnce
  <2>1. \A s \in Step : turn.steps[s] = 0 /\ turn.call[s.call] = "unknown"
    BY <1>2 DEF NoSteps, NoCalls, Step
  <2> QED
    BY <2>1 DEF CallsAreTracedOnce
<1> QED
  BY <1>3, <1>4, <1>5, <1>6, <1>7 DEF TurnPart, TurnInv

LEMMA BeginKeeps ==
    ASSUME TurnPart, NEW t \in Threads, Begin(t)
    PROVE  TurnPart' /\ turn'.charged = 0
<1> USE DEF TurnPart, TurnInv, Turn
<1>1. /\ turns' = turns + 1 /\ turns < MaxTurns /\ turns \in Nat
      /\ consumed' = 0 /\ history' = history
      /\ turn' = [phase |-> "model", thread |-> t, messages |-> history[t], call |-> NoCalls,
                  searches |-> 0, steps |-> NoSteps, charged |-> 0]
  BY DEF Begin, NewTurn, TurnTypeOK
<1>2. /\ history[t] \in Seq(Response)
      /\ \A i \in DOMAIN history[t] : history[t][i].run <= turns
  BY DEF TurnTypeOK, RunsInOrder
<1>3. \A i \in DOMAIN history[t] : history[t][i].run \in Nat
  BY <1>2, PricesType
<1>4. TurnTypeOK'
  <2>1. NoCalls \in [Calls -> CallStates] /\ NoSteps \in [Step -> Nat]
    BY DEF NoCalls, NoSteps, CallStates
  <2>2. "model" \in Phases
    BY DEF Phases
  <2>3. turns' \in 0..MaxTurns
    BY <1>1, AgentTurnAssumption
  <2>4. history' \in [Threads -> Seq(Response)]
    BY <1>1 DEF TurnTypeOK
  <2> QED
    BY <1>1, <1>2, <2>1, <2>2, <2>3, <2>4 DEF TurnTypeOK
<1>5. RunsInOrder'
  <2>1. \A u \in Threads : \A i \in DOMAIN history[u] : history[u][i].run <= turns + 1
    <3>1. ASSUME NEW u \in Threads, NEW i \in DOMAIN history[u]
          PROVE  history[u][i].run <= turns + 1
      <4>1. history[u] \in Seq(Response) /\ history[u][i].run <= turns
        BY DEF TurnTypeOK, RunsInOrder
      <4>2. history[u][i].run \in Nat
        BY <4>1, PricesType
      <4> QED
        BY <1>1, <4>1, <4>2
    <3> QED
      BY <3>1
  <2>2. turns + 1 > 0
    BY <1>1
  <2> QED
    BY <1>1, <2>1, <2>2 DEF RunsInOrder
<1>6. Own(turn.messages)' = {}
  <2>1. \A i \in DOMAIN history[t] : history[t][i].run # turns + 1
    BY <1>1, <1>2, <1>3
  <2> QED
    BY <1>1, <2>1 DEF Own
<1>7. CallsInOrder'
  <2>2. (Cardinality(Own(turn.messages)) * MaxCalls)' = 0
    BY <1>6, FS_EmptySet, AgentTurnAssumption
  <2>3. \A c \in Calls : turn'.call[c] = "unknown"
    BY <1>1 DEF NoCalls
  <2>4. InState(CallStates \ {"unknown"})' = {}
    BY <2>3 DEF InState
  <2>5. 1..0 = {}
    OBVIOUS
  <2>6. 0 \in (0..(Cardinality(Own(turn.messages)) * MaxCalls))'
    BY <2>2
  <2> QED
    BY <2>4, <2>5, <2>6 DEF CallsInOrder
<1>8. UseIsKnown'
  <2>1. PriceOf(turn.messages, Own(turn.messages))' = 0
    <3>1. PriceOf(history[t], {}) = 0
      BY SumUnfolds, FS_EmptySet DEF PriceOf
    <3> QED
      BY <1>1, <1>6, <3>1
  <2>2. Metered' = 0
    BY <1>1, AgentTurnAssumption DEF Metered
  <2> QED
    BY <1>1, <2>1, <2>2 DEF UseIsKnown, ResultUsage
<1>9. UseIsCharged' /\ HistoryIsKnown' /\ ChargedSoFar'
  <2>1. PriceOfAll(history[t]) \in Nat
    BY <1>2, PartsAreCheaper DEF PriceOfAll
  <2>2. /\ PriceOfAll(turn.messages)' = PriceOfAll(history[t])
        /\ PriceOfAll(history[turn.thread])' = PriceOfAll(history[t])
    BY <1>1
  <2>3. Metered' = 0
    BY <1>1, AgentTurnAssumption DEF Metered
  <2>4. HistoryIsKnown'
    BY <1>1, <2>1, <2>2, <2>3 DEF HistoryIsKnown
  <2> QED
    BY <1>1, <2>4 DEF UseIsCharged, ChargedSoFar
<1>10. CallsAreTracedOnce'
  <2>1. \A s \in Step : turn'.steps[s] = 0 /\ turn'.call[s.call] = "unknown"
    BY <1>1 DEF NoSteps, NoCalls, Step
  <2> QED
    BY <2>1 DEF CallsAreTracedOnce
<1> QED
  BY <1>1, <1>4, <1>5, <1>7, <1>8, <1>9, <1>10

\* One response more leaves room for MaxCalls calls more.
LEMMA RoomForCalls ==
    ASSUME NEW c \in Nat, NEW n \in 0..MaxCalls, NEW k \in 0..(c * MaxCalls)
    PROVE  k + n \in 0..((c + 1) * MaxCalls)
<1>1. MaxCalls \in Nat
  BY AgentTurnAssumption
<1>2. c * MaxCalls \in Nat /\ (c + 1) * MaxCalls = c * MaxCalls + MaxCalls
  BY <1>1
<1>3. PICK p \in Nat : p = c * MaxCalls
  BY <1>2
<1> QED
  BY <1>1, <1>2, <1>3

LEMMA CallsFit ==
    ASSUME NEW c \in Nat, c < MaxResponses, NEW k \in 0..((c + 1) * MaxCalls)
    PROVE  k \in 0..(MaxResponses * MaxCalls)
<1>1. MaxCalls \in Nat /\ MaxResponses \in Nat
  BY AgentTurnAssumption
<1>2. PICK d \in Nat : MaxResponses = (c + 1) + d
  <2>1. MaxResponses - (c + 1) \in Nat /\ MaxResponses = (c + 1) + (MaxResponses - (c + 1))
    BY <1>1
  <2> QED
    BY <2>1
<1>3. MaxResponses * MaxCalls = (c + 1) * MaxCalls + d * MaxCalls
  BY <1>1, <1>2
<1>4. d * MaxCalls \in Nat /\ (c + 1) * MaxCalls \in Nat
  BY <1>1
<1> QED
  BY <1>3, <1>4

LEMMA BothGrow ==
    ASSUME NEW a \in Nat, NEW b \in Nat, NEW c \in Nat, NEW h \in Nat, NEW d \in Nat,
           a + b = c + h
    PROVE  (a + d) + b = (c + d) + h /\ a + (b + d) = (c + d) + h
OBVIOUS

LEMMA ModelKeeps ==
    ASSUME TurnPart, Model
    PROVE  TurnPart' /\ turn'.charged = turn.charged
<1> USE DEF TurnPart, TurnInv, Turn
<1>1. PICK price \in Prices, n \in 0..MaxCalls : Respond(price, NextCalls(n))
  BY DEF Model
<1>2. PICK k \in 0..(Cardinality(Own(turn.messages)) * MaxCalls) :
          InState(CallStates \ {"unknown"}) = 1..k
  BY DEF CallsInOrder
<1> DEFINE m == turn.messages
           calls == (k + 1)..(k + n)
           r == [run |-> turns, price |-> price, calls |-> calls]
           p == IF calls = {} THEN "answered" ELSE "tools"
           cl == [c \in Calls |-> IF c \in calls THEN "executing" ELSE turn.call[c]]
<1>3. /\ turn \in Turn
      /\ m \in Seq(Response) /\ turns \in 0..MaxTurns /\ consumed \in Nat
      /\ history \in [Threads -> Seq(Response)]
  BY DEF TurnTypeOK
<1>4. k \in Nat /\ n \in Nat /\ price \in Nat /\ MaxCalls \in Nat
  <2>1. k \in Nat
    OBVIOUS
  <2>2. n \in Nat
    OBVIOUS
  <2> QED
    BY <2>1, <2>2, AgentTurnAssumption
<1>5. NextCalls(n) = calls
  <2>1. Cardinality(1..k) = k
    BY <1>4, FS_Interval
  <2> QED
    BY <1>2, <2>1 DEF NextCalls
<1>6. /\ turn.phase = "model" /\ Cardinality(Own(m)) < MaxResponses
      /\ turn' = [turn EXCEPT !.phase = p, !.messages = Append(m, r), !.call = cl]
      /\ consumed' = consumed + price /\ history' = history /\ turns' = turns
  BY <1>1, <1>5 DEF Respond
<1>7. /\ turn'.phase = p /\ turn'.messages = Append(m, r) /\ turn'.call = cl
      /\ turn'.thread = turn.thread /\ turn'.searches = turn.searches
      /\ turn'.steps = turn.steps /\ turn'.charged = turn.charged
      /\ DOMAIN turn' = DOMAIN turn
  BY <1>3, <1>6
<1>8. turns > 0 /\ turns \in 1..MaxTurns
  BY <1>3, <1>6 DEF RunsInOrder, Active
<1>9. Own(m) = OwnOf(m, turns) /\ Own(turn.messages)' = OwnOf(Append(m, r), turns)
  BY <1>6, <1>7 DEF Own, OwnOf
<1>10. k + n \in 0..((Cardinality(Own(m)) + 1) * MaxCalls)
       /\ k + n \in 0..(MaxResponses * MaxCalls)
       /\ Cardinality(Own(m)) \in Nat
  <2>1. IsFiniteSet(OwnOf(m, turns))
    <3>1. IsFiniteSet(DOMAIN m) /\ OwnOf(m, turns) \in SUBSET DOMAIN m
      BY <1>3, PricesType DEF OwnOf
    <3> QED
      BY <3>1, FS_Subset
  <2>2. Cardinality(Own(m)) \in Nat
    BY <1>9, <2>1, FS_CardinalityType
  <2>3. k + n \in 0..((Cardinality(Own(m)) + 1) * MaxCalls)
    BY <2>2, RoomForCalls
  <2>4. k + n \in 0..(MaxResponses * MaxCalls)
    BY <2>2, <2>3, <1>6, CallsFit
  <2> QED
    BY <2>2, <2>3, <2>4
<1>11. 1..(k + n) \subseteq Calls /\ calls \subseteq 1..(k + n)
  <2>1. PICK q \in Int : q = MaxResponses * MaxCalls
    BY AgentTurnAssumption
  <2>2. k + n <= q /\ Calls = 1..q
    BY <1>10, <2>1, <1>4 DEF Calls
  <2> QED
    BY <1>4, <2>2
<1>12. r \in Response /\ r.run = turns /\ r.price = price
  BY <1>8, <1>11 DEF Response
<1>13. /\ Append(m, r) \in Seq(Response)
       /\ Cardinality(OwnOf(Append(m, r), turns)) = Cardinality(OwnOf(m, turns)) + 1
       /\ PriceOf(Append(m, r), OwnOf(Append(m, r), turns))
            = PriceOf(m, OwnOf(m, turns)) + price
  <2> HIDE DEF m, r
  <2> QED
    BY <1>3, <1>12, ResponseIsAdded
<1>14. \A c \in Calls : c \in calls => turn.call[c] = "unknown"
  <2>1. \A c \in Calls : c \in calls => c \notin 1..k
    BY <1>4 DEF Calls
  <2>2. \A c \in Calls : turn.call[c] \in CallStates
    BY <1>3
  <2> QED
    BY <1>2, <2>1, <2>2 DEF InState
<1>15. \A c \in Calls : turn'.call[c] = IF c \in calls THEN "executing" ELSE turn.call[c]
  BY <1>7
<1>16. TurnTypeOK'
  <2>1. cl \in [Calls -> CallStates]
    BY <1>3 DEF CallStates
  <2>2. p \in Phases
    BY DEF Phases
  <2>3. turn' \in Turn
    <3> HIDE DEF cl, p, r, calls, m
    <3> QED
      BY <1>3, <1>6, <1>13, <2>1, <2>2
  <2>4. consumed' \in Nat
    BY <1>3, <1>4, <1>6
  <2> QED
    BY <1>3, <1>6, <2>3, <2>4 DEF TurnTypeOK
<1>17. RunsInOrder'
  <2>1. \A i \in DOMAIN Append(m, r) : Append(m, r)[i].run <= turns
    <3>1. /\ DOMAIN m = 1..Len(m) /\ Len(m) \in Nat
          /\ \A i \in DOMAIN m : m[i].run <= turns
      BY <1>3 DEF RunsInOrder
    <3>2. /\ DOMAIN Append(m, r) = 1..(Len(m) + 1)
          /\ \A i \in 1..Len(m) : Append(m, r)[i] = m[i]
          /\ Append(m, r)[Len(m) + 1] = r
      <4> HIDE DEF m, r
      <4> QED
        BY <1>3, <1>12
    <3>3. r.run <= turns
      BY <1>3, <1>12
    <3> HIDE DEF m, r
    <3>4. \A i \in DOMAIN Append(m, r) : i \in DOMAIN m \/ i = Len(m) + 1
      BY <3>1, <3>2
    <3>5. \A i \in DOMAIN m : Append(m, r)[i] = m[i]
      BY <3>1, <3>2
    <3> QED
      BY <3>1, <3>2, <3>3, <3>4, <3>5
  <2>2. \A t \in Threads : \A i \in DOMAIN history[t] : history[t][i].run <= turns
    BY DEF RunsInOrder
  <2> HIDE DEF m, r
  <2> QED
    BY <1>6, <1>7, <1>8, <2>1, <2>2 DEF RunsInOrder
<1>18. CallsInOrder'
  <2>1. InState(CallStates \ {"unknown"})' = 1..(k + n)
    <3>1. \A c \in Calls : turn'.call[c] \in CallStates \ {"unknown"}
                           <=> c \in calls \/ c \in 1..k
      BY <1>2, <1>14, <1>15 DEF InState, CallStates
    <3>2. \A c : (c \in calls \/ c \in 1..k) <=> c \in 1..(k + n)
      BY <1>4
    <3> HIDE DEF calls
    <3> QED
      BY <3>1, <3>2, <1>11 DEF InState
  <2>2. Cardinality(Own(turn.messages))' = Cardinality(Own(m)) + 1
    BY <1>9, <1>13
  <2>3. (0..(Cardinality(Own(turn.messages)) * MaxCalls))'
          = 0..((Cardinality(Own(m)) + 1) * MaxCalls)
    BY <2>2
  <2> QED
    BY <1>10, <2>1, <2>3 DEF CallsInOrder
<1>19. UseIsKnown'
  <2>1. consumed = PriceOf(m, Own(m)) + Metered
    BY <1>6 DEF UseIsKnown, Active, ResultUsage
  <2>2. /\ PriceOf(turn.messages, Own(turn.messages))' = PriceOf(m, Own(m)) + price
        /\ Metered' = Metered
    BY <1>7, <1>9, <1>13 DEF Metered
  <2>3. PriceOf(m, Own(m)) \in Nat
    <3>1. Own(m) \in SUBSET DOMAIN m
      BY DEF Own
    <3> QED
      BY <1>3, <3>1, PartsAreCheaper
  <2>4. Metered \in Nat
    BY <1>3, AgentTurnAssumption DEF Metered
  <2>5. consumed' = PriceOf(m, Own(m)) + price + Metered
    BY <2>1, <2>3, <2>4, <1>4, <1>6
  <2>6. ResultUsage' = PriceOf(m, Own(m)) + price + Metered
    BY <2>2 DEF ResultUsage
  <2> QED
    BY <2>5, <2>6 DEF UseIsKnown
<1>20. UseIsCharged' /\ HistoryIsKnown' /\ ChargedSoFar'
  <2>1. PriceOfAll(Append(m, r)) = PriceOfAll(m) + price /\ PriceOfAll(m) \in Nat
    <3> HIDE DEF m, r
    <3> QED
      BY <1>3, <1>12, ResponseIsAddedToAll
  <2>2. PriceOfAll(m) + Metered = consumed + PriceOfAll(history[turn.thread])
    BY <1>6 DEF HistoryIsKnown, Active
  <2>3. /\ PriceOfAll(turn.messages)' = PriceOfAll(m) + price
        /\ PriceOfAll(history[turn.thread])' = PriceOfAll(history[turn.thread])
        /\ Metered' = Metered
    BY <1>6, <1>7, <2>1 DEF Metered
  <2>4. Metered \in Nat
    BY <1>3, AgentTurnAssumption DEF Metered
  <2>5. PriceOfAll(history[turn.thread]) \in Nat
    <3>1. history[turn.thread] \in Seq(Response)
      BY <1>3
    <3> QED
      BY <3>1, PartsAreCheaper DEF PriceOfAll
  <2>6. HistoryIsKnown'
    <3> HIDE DEF m
    <3>1. (PriceOfAll(m) + price) + Metered = (consumed + price) + PriceOfAll(history[turn.thread])
      <4>1. consumed \in Nat /\ price \in Nat /\ PriceOfAll(m) \in Nat
        BY <1>3, <1>4, <2>1
      <4> QED
        BY <4>1, <2>2, <2>4, <2>5, BothGrow, SMTT(60)
    <3>2. (PriceOfAll(turn.messages) + Metered)' = (PriceOfAll(m) + price) + Metered
      BY <2>3
    <3>3. (consumed + PriceOfAll(history[turn.thread]))'
            = (consumed + price) + PriceOfAll(history[turn.thread])
      BY <1>6, <2>3
    <3> QED
      BY <3>1, <3>2, <3>3 DEF HistoryIsKnown
  <2> QED
    BY <1>6, <1>7, <2>6 DEF UseIsCharged, ChargedSoFar
<1>21. CallsAreTracedOnce'
  <2>1. \A s \in Step : s.call \in Calls
    BY DEF Step
  <2>2. \A s \in Step : turn'.call[s.call] = "recorded" <=> turn.call[s.call] = "recorded"
    BY <1>14, <1>15, <2>1
  <2> HIDE DEF calls
  <2> QED
    BY <1>6, <1>7, <2>2 DEF CallsAreTracedOnce
<1> QED
  BY <1>7, <1>16, <1>17, <1>18, <1>19, <1>20, <1>21

\* A tool call is over, with a search that is metered or without.
LEMMA ToolsKeep ==
    ASSUME TurnPart, NEW c \in Calls, ToolRuns(c) \/ WebSearch(c)
    PROVE  TurnPart' /\ turn'.charged = turn.charged
<1> USE DEF TurnPart, TurnInv, Turn
<1>1. /\ turn \in Turn
      /\ turns \in 0..MaxTurns /\ consumed \in Nat /\ history \in [Threads -> Seq(Response)]
  BY DEF TurnTypeOK
<1> DEFINE ran == [turn.call EXCEPT ![c] = "ran"]
<1>2. ran \in [Calls -> CallStates]
  BY <1>1 DEF CallStates
<1>3. PICK d \in {0, 1} :
          /\ turn.phase = "tools" /\ turn.call[c] = "executing"
          /\ turn'.phase = turn.phase /\ turn'.messages = turn.messages /\ turn'.call = ran
          /\ turn'.thread = turn.thread /\ turn'.searches = turn.searches + d
          /\ turn'.steps = turn.steps /\ turn'.charged = turn.charged
          /\ turn' \in Turn
          /\ consumed' = consumed + d * SearchCost
          /\ history' = history /\ turns' = turns
  <2>1. CASE ToolRuns(c)
    <3>1. turn' = [turn EXCEPT !.call = ran]
      BY <1>1, <2>1 DEF ToolRuns
    <3>2. consumed + 0 * SearchCost = consumed
      BY <1>1, AgentTurnAssumption
    <3> HIDE DEF ran
    <3>3. /\ turn'.phase = turn.phase /\ turn'.messages = turn.messages /\ turn'.call = ran
          /\ turn'.thread = turn.thread /\ turn'.searches = turn.searches + 0
          /\ turn'.steps = turn.steps /\ turn'.charged = turn.charged
      BY <1>1, <3>1
    <3>4. turn' \in Turn
      BY <1>1, <1>2, <3>1
    <3> QED
      BY <2>1, <3>2, <3>3, <3>4 DEF ToolRuns
  <2>2. CASE WebSearch(c)
    <3>1. turn' = [turn EXCEPT !.call = ran, !.searches = turn.searches + 1]
      BY <1>1, <2>2 DEF WebSearch
    <3>2. 1 * SearchCost = SearchCost
      BY AgentTurnAssumption
    <3> HIDE DEF ran
    <3>3. /\ turn'.phase = turn.phase /\ turn'.messages = turn.messages /\ turn'.call = ran
          /\ turn'.thread = turn.thread /\ turn'.searches = turn.searches + 1
          /\ turn'.steps = turn.steps /\ turn'.charged = turn.charged
      BY <1>1, <3>1
    <3>4. turn' \in Turn
      <4>1. turn.searches + 1 \in Nat
        BY <1>1
      <4> QED
        BY <1>1, <1>2, <3>1, <4>1
    <3> QED
      BY <2>2, <3>2, <3>3, <3>4 DEF WebSearch
  <2> QED
    BY <2>1, <2>2
<1>4. \A x \in Calls : turn'.call[x] = IF x = c THEN "ran" ELSE turn.call[x]
  BY <1>1, <1>3
<1>5. TurnTypeOK'
  <2>1. consumed' \in Nat
    BY <1>1, <1>3, AgentTurnAssumption
  <2> HIDE DEF ran
  <2> QED
    BY <1>1, <1>3, <2>1 DEF TurnTypeOK
<1>6. RunsInOrder'
  BY <1>3 DEF RunsInOrder
<1>7. CallsInOrder'
  <2>1. InState(CallStates \ {"unknown"})' = InState(CallStates \ {"unknown"})
    BY <1>3, <1>4 DEF InState, CallStates
  <2>2. Own(turn.messages)' = Own(turn.messages)
    BY <1>3 DEF Own
  <2> QED
    BY <2>1, <2>2 DEF CallsInOrder
<1>8. UseIsKnown'
  <2>1. consumed = PriceOf(turn.messages, Own(turn.messages)) + Metered
    BY <1>3 DEF UseIsKnown, Active, ResultUsage
  <2>2. PriceOf(turn.messages, Own(turn.messages)) \in Nat
    <3>1. Own(turn.messages) \in SUBSET DOMAIN turn.messages
      BY DEF Own
    <3> QED
      BY <1>1, <3>1, PartsAreCheaper
  <2>3. Metered' = Metered + d * SearchCost
    <3>1. (turn.searches + d) * SearchCost = turn.searches * SearchCost + d * SearchCost
      BY <1>1, AgentTurnAssumption
    <3> QED
      BY <1>3, <3>1 DEF Metered
  <2>4. Metered \in Nat /\ d * SearchCost \in Nat
    BY <1>1, AgentTurnAssumption DEF Metered
  <2>5. PriceOf(turn.messages, Own(turn.messages))' = PriceOf(turn.messages, Own(turn.messages))
    BY <1>3 DEF Own
  <2>6. consumed' = PriceOf(turn.messages, Own(turn.messages)) + (Metered + d * SearchCost)
    BY <1>3, <2>1, <2>2, <2>4
  <2> QED
    BY <2>3, <2>5, <2>6 DEF UseIsKnown, ResultUsage
<1>9. UseIsCharged' /\ HistoryIsKnown' /\ ChargedSoFar'
  <2>1. PriceOfAll(turn.messages) + Metered = consumed + PriceOfAll(history[turn.thread])
    BY <1>3 DEF HistoryIsKnown, Active
  <2>2. /\ PriceOfAll(turn.messages)' = PriceOfAll(turn.messages)
        /\ PriceOfAll(history[turn.thread])' = PriceOfAll(history[turn.thread])
    BY <1>3
  <2>3. Metered' = Metered + d * SearchCost
    <3>1. (turn.searches + d) * SearchCost = turn.searches * SearchCost + d * SearchCost
      BY <1>1, AgentTurnAssumption
    <3> QED
      BY <1>3, <3>1 DEF Metered
  <2>4. Metered \in Nat /\ d * SearchCost \in Nat
    BY <1>1, AgentTurnAssumption DEF Metered
  <2>5. PriceOfAll(turn.messages) \in Nat /\ PriceOfAll(history[turn.thread]) \in Nat
    <3>1. history[turn.thread] \in Seq(Response) /\ turn.messages \in Seq(Response)
      BY <1>1
    <3> QED
      BY <3>1, PartsAreCheaper DEF PriceOfAll
  <2>6. PriceOfAll(turn.messages) + (Metered + d * SearchCost)
          = (consumed + d * SearchCost) + PriceOfAll(history[turn.thread])
    <3>1. consumed \in Nat
      BY <1>1
    <3> QED
      BY <3>1, <2>1, <2>4, <2>5, BothGrow
  <2>7. HistoryIsKnown'
    <3>1. (PriceOfAll(turn.messages) + Metered)'
            = PriceOfAll(turn.messages) + (Metered + d * SearchCost)
      BY <2>2, <2>3
    <3>2. (consumed + PriceOfAll(history[turn.thread]))'
            = (consumed + d * SearchCost) + PriceOfAll(history[turn.thread])
      BY <1>3, <2>2
    <3> QED
      BY <2>6, <3>1, <3>2 DEF HistoryIsKnown
  <2> QED
    BY <1>3, <2>7 DEF UseIsCharged, ChargedSoFar
<1>10. CallsAreTracedOnce'
  <2>1. \A s \in Step : s.call \in Calls
    BY DEF Step
  <2>2. \A s \in Step : turn'.call[s.call] = "recorded" <=> turn.call[s.call] = "recorded"
    BY <1>3, <1>4, <2>1
  <2> QED
    BY <1>3, <2>2 DEF CallsAreTracedOnce
<1> QED
  BY <1>3, <1>5, <1>6, <1>7, <1>8, <1>9, <1>10

\* The hook writes the step of a call that is over.
LEMMA RecordStepKeeps ==
    ASSUME TurnPart, NEW c \in Calls, RecordStep(c)
    PROVE  TurnPart' /\ turn'.charged = turn.charged
<1> USE DEF TurnPart, TurnInv, Turn
<1> DEFINE key == [run |-> turns, call |-> c]
           cl == [turn.call EXCEPT ![c] = "recorded"]
           st == [turn.steps EXCEPT ![key] = @ + 1]
<1>1. /\ turn \in Turn
      /\ turns \in 0..MaxTurns /\ consumed \in Nat /\ history \in [Threads -> Seq(Response)]
  BY DEF TurnTypeOK
<1>2. /\ turn.phase = "tools" /\ turn.call[c] = "ran"
      /\ turn' = [turn EXCEPT !.call = cl, !.steps = st]
      /\ history' = history /\ turns' = turns /\ consumed' = consumed
  BY <1>1 DEF RecordStep
<1>3. key \in Step /\ key.run = turns /\ key.call = c
  BY <1>1, <1>2 DEF RunsInOrder, Active, Step
<1>4. cl \in [Calls -> CallStates] /\ st \in [Step -> Nat]
  <2>1. cl \in [Calls -> CallStates]
    BY <1>1 DEF CallStates
  <2> HIDE DEF key
  <2>2. st \in [Step -> Nat]
    BY <1>1, <1>3
  <2> QED
    BY <2>1, <2>2
<1>5. /\ \A x \in Calls : cl[x] = IF x = c THEN "recorded" ELSE turn.call[x]
      /\ \A s \in Step : st[s] = IF s = key THEN turn.steps[s] + 1 ELSE turn.steps[s]
  <2> HIDE DEF key
  <2> QED
    BY <1>1, <1>3
<1> HIDE DEF cl, st
<1>6. /\ turn'.phase = turn.phase /\ turn'.messages = turn.messages /\ turn'.call = cl
      /\ turn'.thread = turn.thread /\ turn'.searches = turn.searches
      /\ turn'.steps = st /\ turn'.charged = turn.charged
      /\ turn' \in Turn
  BY <1>1, <1>2, <1>4
<1>7. TurnTypeOK'
  BY <1>1, <1>2, <1>6 DEF TurnTypeOK
<1>8. RunsInOrder'
  BY <1>2, <1>6 DEF RunsInOrder
<1>9. Own(turn.messages)' = Own(turn.messages)
  BY <1>2, <1>6 DEF Own
<1>10. CallsInOrder'
  <2>1. InState(CallStates \ {"unknown"})' = InState(CallStates \ {"unknown"})
    BY <1>2, <1>5, <1>6 DEF InState, CallStates
  <2> QED
    BY <2>1, <1>9 DEF CallsInOrder
<1>11. UseIsKnown' /\ UseIsCharged' /\ HistoryIsKnown' /\ ChargedSoFar'
  BY <1>2, <1>6, <1>9 DEF UseIsKnown, UseIsCharged, HistoryIsKnown, ChargedSoFar,
                          ResultUsage, Metered
<1>12. CallsAreTracedOnce'
  <2>1. ASSUME NEW s \in Step
        PROVE  turn'.steps[s] = IF s.run = turns' /\ turn'.call[s.call] = "recorded" THEN 1 ELSE 0
    <3>1. /\ s.call \in Calls
          /\ s = [run |-> s.run, call |-> s.call]
      BY DEF Step
    <3>2. turn.steps[s] = IF s.run = turns /\ turn.call[s.call] = "recorded" THEN 1 ELSE 0
      BY DEF CallsAreTracedOnce
    <3>3. CASE s = key
      BY <1>2, <1>3, <1>5, <1>6, <3>1, <3>2, <3>3
    <3>4. CASE s # key
      <4>1. s.run # turns \/ s.call # c
        BY <3>1, <3>4
      <4> HIDE DEF key
      <4>2. turn'.steps[s] = turn.steps[s] /\ turn'.call[s.call] = cl[s.call]
        BY <1>5, <1>6, <3>4
      <4>3. cl[s.call] = IF s.call = c THEN "recorded" ELSE turn.call[s.call]
        BY <1>5, <3>1
      <4> QED
        BY <1>2, <3>2, <4>1, <4>2, <4>3
    <3> QED
      BY <3>3, <3>4
  <2> QED
    BY <2>1 DEF CallsAreTracedOnce
<1> QED
  BY <1>6, <1>7, <1>8, <1>10, <1>11, <1>12

LEMMA ToolsReturnKeeps ==
    ASSUME TurnPart, ToolsReturn
    PROVE  TurnPart' /\ turn'.charged = turn.charged
<1> USE DEF TurnPart, TurnInv, Turn
<1>1. /\ turn \in Turn
      /\ "model" \in Phases
  BY DEF TurnTypeOK, Phases
<1>2. /\ turn.phase = "tools" /\ turn' = [turn EXCEPT !.phase = "model"]
      /\ history' = history /\ turns' = turns /\ consumed' = consumed
  BY DEF ToolsReturn
<1>3. /\ turn'.phase = "model" /\ turn'.messages = turn.messages /\ turn'.call = turn.call
      /\ turn'.thread = turn.thread /\ turn'.searches = turn.searches
      /\ turn'.steps = turn.steps /\ turn'.charged = turn.charged
      /\ turn' \in Turn
  BY <1>1, <1>2
<1>4. TurnTypeOK'
  BY <1>2, <1>3 DEF TurnTypeOK
<1>5. Own(turn.messages)' = Own(turn.messages)
      /\ InState(CallStates \ {"unknown"})' = InState(CallStates \ {"unknown"})
  BY <1>2, <1>3 DEF Own, InState
<1>6. RunsInOrder' /\ CallsInOrder'
  BY <1>2, <1>3, <1>5 DEF RunsInOrder, CallsInOrder, Active
<1>7. UseIsKnown' /\ UseIsCharged' /\ HistoryIsKnown' /\ ChargedSoFar'
  BY <1>2, <1>3, <1>5 DEF UseIsKnown, UseIsCharged, HistoryIsKnown, ChargedSoFar,
                          ResultUsage, Metered, Active
<1>8. CallsAreTracedOnce'
  BY <1>2, <1>3 DEF CallsAreTracedOnce
<1> QED
  BY <1>3, <1>4, <1>6, <1>7, <1>8

LEMMA TurnStutters ==
    ASSUME TurnPart, UNCHANGED turnVars
    PROVE  TurnPart' /\ turn'.charged = turn.charged
<1> USE DEF TurnPart, TurnInv, turnVars, Turn
<1>1. TurnTypeOK'
  BY DEF TurnTypeOK
<1>2. RunsInOrder' /\ UseIsCharged' /\ CallsAreTracedOnce' /\ ChargedSoFar'
  BY DEF RunsInOrder, UseIsCharged, CallsAreTracedOnce, ChargedSoFar
<1>3. Own(turn.messages)' = Own(turn.messages)
      /\ InState(CallStates \ {"unknown"})' = InState(CallStates \ {"unknown"})
  BY DEF Own, InState
<1>4. CallsInOrder'
  BY <1>3 DEF CallsInOrder
<1>5. UseIsKnown' /\ HistoryIsKnown'
  BY <1>3 DEF UseIsKnown, HistoryIsKnown, ResultUsage, Metered
<1> QED
  BY <1>1, <1>2, <1>4, <1>5

-----------------------------------------------------------------------------
(* How the run ends.                                                       *)

\* What the rows add up to is the usage they are made of.
LEMMA RowsAddUp ==
    ASSUME TurnPart, NEW p \in Nat
    PROVE  Rows(p + Metered) = p + Metered /\ p + Metered \in Nat
<1>1. PICK q \in Nat : q = Metered
  <2>1. turn.searches \in Nat
    BY DEF TurnPart, TurnTypeOK, Turn
  <2> QED
    BY <2>1, AgentTurnAssumption DEF Metered
<1> QED
  BY <1>1 DEF Rows, ModelCost

\* Record writes the phase, adds the cost and no step: the hooks wrote them.
LEMMA RecordWrites ==
    ASSUME TurnPart, NEW p \in Phases, NEW cost \in Nat, Record(p, cost)
    PROVE  /\ turn'.phase = p /\ turn'.messages = turn.messages /\ turn'.call = turn.call
           /\ turn'.thread = turn.thread /\ turn'.searches = turn.searches
           /\ turn'.steps = turn.steps /\ turn'.charged = turn.charged + cost
           /\ turn' \in Turn
           /\ turns' = turns /\ consumed' = consumed
<1>1. turn \in Turn /\ turn.charged + cost \in Nat
  BY DEF TurnPart, TurnTypeOK, Turn
<1> DEFINE st == [s \in Step |-> turn.steps[s] + IF s \in Unrecorded(Extracted) THEN 1 ELSE 0]
           sum == turn.charged + cost
<1>2. turn' = [turn EXCEPT !.phase = p, !.charged = sum, !.steps = st]
      /\ turns' = turns /\ consumed' = consumed
  BY DEF Record
<1>3. st = turn.steps
  <2>1. st = [s \in Step |-> turn.steps[s]]
    <3>1. \A s \in Step : turn.steps[s] \in Nat
      BY <1>1 DEF Turn
    <3>2. \A s \in Step : turn.steps[s] + (IF s \in Unrecorded(Extracted) THEN 1 ELSE 0)
                          = turn.steps[s]
      BY <3>1 DEF Unrecorded
    <3> QED
      BY <3>2
  <2> HIDE DEF st
  <2> QED
    BY <1>1, <2>1 DEF Turn
<1> HIDE DEF st
<1>4. turn' = [turn EXCEPT !.phase = p, !.charged = sum, !.steps = turn.steps]
  BY <1>2, <1>3
<1>5. sum \in Nat
  BY <1>1
<1> HIDE DEF sum
<1>6. /\ turn'.phase = p /\ turn'.messages = turn.messages /\ turn'.call = turn.call
      /\ turn'.thread = turn.thread /\ turn'.searches = turn.searches
      /\ turn'.steps = turn.steps /\ turn'.charged = sum
      /\ turn' \in Turn
  BY <1>1, <1>4, <1>5 DEF Turn
<1> QED
  BY <1>2, <1>6 DEF sum

\* The messages, the trace and the counts of the run stay what they are.
RunStands ==
    /\ turn'.messages = turn.messages /\ turn'.call = turn.call
    /\ turn'.thread = turn.thread /\ turn'.searches = turn.searches
    /\ turn'.steps = turn.steps
    /\ turn' \in Turn
    /\ turns' = turns /\ consumed' = consumed

\* What the run has been charged when it comes to phase p.
Settled(p, charged) ==
    /\ p \in {"recorded", "completed"} => charged = consumed
    /\ p = "failed" =>
          /\ charged >= consumed
          /\ charged <= consumed + PriceOfAll(history[turn.thread])
    /\ p = "failed_late" => charged = 2 * consumed

\* The steps that end a run change its phase, what it is charged and, when it ends well,
\* the history of its thread.
LEMMA EndEffect ==
    ASSUME TurnPart,
           RecordReply \/ Return \/ FailLate \/ QuietExit
              \/ FailDelivery \/ FailAgent \/ TimeOut \/ LoseRecord
    PROVE  \E p \in {"recorded"} \cup Ended, cost \in Nat :
              /\ turn.phase \in Active /\ RunStands
              /\ turn'.phase = p /\ turn'.charged = turn.charged + cost
              /\ Settled(p, turn.charged + cost)
              /\ history' = history \/ (p = "completed" /\ LeaveHistory)
<1> USE DEF TurnPart, TurnInv
<1>1. /\ turn \in Turn /\ turn.charged \in Nat /\ turn.charged + 0 = turn.charged
      /\ turns \in 0..MaxTurns /\ consumed \in Nat /\ history \in [Threads -> Seq(Response)]
  BY DEF TurnTypeOK, Turn
<1> DEFINE own == PriceOf(turn.messages, Own(turn.messages))
           all == PriceOf(turn.messages, DOMAIN turn.messages)
           mem == PriceOfAll(history[turn.thread])
<1>2. own \in Nat /\ all \in Nat
  <2>1. Own(turn.messages) \in SUBSET DOMAIN turn.messages
    BY DEF Own
  <2> QED
    BY <1>1, <2>1, PartsAreCheaper DEF Turn
<1>3. /\ Rows(ResultUsage) = own + Metered /\ Rows(ResultUsage) \in Nat
      /\ Rows(PartialUsage) = all + Metered /\ Rows(PartialUsage) \in Nat
  BY <1>2, RowsAddUp DEF ResultUsage, PartialUsage
<1>4. turn.phase \in Active =>
          /\ consumed = Rows(ResultUsage)
          /\ Rows(PartialUsage) = consumed + mem
  BY <1>3 DEF UseIsKnown, ResultUsage, HistoryIsKnown, PriceOfAll
<1>5. mem \in Nat
  <2>1. history[turn.thread] \in Seq(Response)
    BY <1>1 DEF Turn
  <2> QED
    BY <2>1, PartsAreCheaper DEF PriceOfAll
<1> HIDE DEF own, all, mem
<1>6. ASSUME NEW p \in {"recorded", "completed", "failed"}, turn.phase = "answered",
             Record(p, Rows(ResultUsage)),
             history' = history \/ (p = "completed" /\ LeaveHistory)
      PROVE  /\ turn.phase \in Active /\ RunStands
             /\ turn'.phase = p /\ turn'.charged = turn.charged + consumed
             /\ Settled(p, turn.charged + consumed)
  <2>1. p \in Phases /\ p \in {"recorded"} \cup Ended /\ turn.phase \in Active
    BY <1>6 DEF Phases, Ended, Active
  <2>2. turn.charged = 0 /\ Rows(ResultUsage) = consumed
    BY <1>4, <1>6, <2>1 DEF ChargedSoFar
  <2>3. RunStands /\ turn'.phase = p /\ turn'.charged = turn.charged + consumed
    BY <1>1, <1>6, <2>1, <2>2, RecordWrites DEF RunStands
  <2>4. Settled(p, turn.charged + consumed)
    <3>1. turn.charged + consumed = consumed /\ consumed <= consumed + mem
      BY <1>1, <1>5, <2>2
    <3> QED
      BY <1>1, <1>6, <3>1 DEF Settled, mem
  <2> QED
    BY <2>1, <2>3, <2>4
<1>7. CASE RecordReply \/ QuietExit \/ FailDelivery
  <2>1. PICK p \in {"recorded", "completed", "failed"} :
           /\ turn.phase = "answered" /\ Record(p, Rows(ResultUsage))
           /\ history' = history \/ (p = "completed" /\ LeaveHistory)
    BY <1>7 DEF RecordReply, QuietExit, FailDelivery
  <2>2. p \in {"recorded"} \cup Ended
    BY DEF Ended
  <2> QED
    BY <1>1, <1>6, <2>1, <2>2
<1>8. CASE Return
  <2>1. /\ turn.phase = "recorded" /\ turn' = [turn EXCEPT !.phase = "completed"]
        /\ "completed" \in Phases /\ "completed" \in Ended /\ turn.phase \in Active
        /\ LeaveHistory /\ turns' = turns /\ consumed' = consumed
    BY <1>8 DEF Return, Phases, Ended, Active
  <2>2. RunStands /\ turn'.phase = "completed" /\ turn'.charged = turn.charged + 0
    BY <1>1, <2>1 DEF RunStands, Turn
  <2>3. Settled("completed", turn.charged + 0)
    BY <1>1, <2>1 DEF Settled, ChargedSoFar
  <2> QED
    BY <2>1, <2>2, <2>3
<1>9. CASE FailLate
  <2>1. /\ turn.phase = "recorded" /\ Record("failed_late", Rows(ResultUsage))
        /\ "failed_late" \in Phases /\ "failed_late" \in Ended /\ turn.phase \in Active
        /\ history' = history
    BY <1>9 DEF FailLate, Phases, Ended, Active
  <2>2. Rows(ResultUsage) = consumed /\ turn.charged = consumed
    BY <1>4, <2>1 DEF ChargedSoFar
  <2>3. RunStands /\ turn'.phase = "failed_late" /\ turn'.charged = turn.charged + consumed
    BY <1>1, <2>1, <2>2, RecordWrites DEF RunStands
  <2>4. Settled("failed_late", turn.charged + consumed)
    BY <1>1, <2>2 DEF Settled
  <2> QED
    BY <1>1, <2>1, <2>3, <2>4
<1>10. CASE FailAgent
  <2>1. /\ turn.phase \in {"model", "tools"} /\ Record("failed", Rows(PartialUsage))
        /\ "failed" \in Phases /\ "failed" \in Ended /\ turn.phase \in Active
        /\ history' = history
    BY <1>10 DEF FailAgent, Phases, Ended, Active
  <2>2. turn.charged = 0 /\ Rows(PartialUsage) = consumed + mem
    BY <1>4, <2>1 DEF ChargedSoFar
  <2>3. RunStands /\ turn'.phase = "failed" /\ turn'.charged = turn.charged + (consumed + mem)
    BY <1>3, <2>1, <2>2, RecordWrites DEF RunStands
  <2>4. Settled("failed", turn.charged + (consumed + mem))
    <3>1. /\ turn.charged + (consumed + mem) = consumed + mem
          /\ consumed + mem >= consumed /\ consumed + mem <= consumed + mem
      BY <1>1, <1>5, <2>2
    <3> QED
      BY <3>1 DEF Settled, mem
  <2>5. consumed + mem \in Nat
    BY <1>1, <1>5
  <2> QED
    BY <2>1, <2>3, <2>4, <2>5
<1>11. CASE TimeOut \/ LoseRecord
  <2>1. /\ turn.phase \in Active /\ turn' = [turn EXCEPT !.phase = "lost"]
        /\ "lost" \in Phases /\ "lost" \in Ended
        /\ history' = history /\ turns' = turns /\ consumed' = consumed
    BY <1>11 DEF TimeOut, LoseRecord, LoseUsage, Phases, Ended, Active
  <2>2. RunStands /\ turn'.phase = "lost" /\ turn'.charged = turn.charged + 0
    BY <1>1, <2>1 DEF RunStands, Turn
  <2>3. Settled("lost", turn.charged + 0)
    BY DEF Settled
  <2> QED
    BY <2>1, <2>2, <2>3
<1> QED
  BY <1>7, <1>8, <1>9, <1>10, <1>11

LEMMA EndKeeps ==
    ASSUME TurnPart,
           RecordReply \/ Return \/ FailLate \/ QuietExit
              \/ FailDelivery \/ FailAgent \/ TimeOut \/ LoseRecord
    PROVE  TurnPart' /\ turn'.charged - turn.charged \in Nat
<1> USE DEF TurnPart, TurnInv
<1>1. /\ turn \in Turn /\ turn.charged \in Nat
      /\ turns \in 0..MaxTurns /\ consumed \in Nat /\ history \in [Threads -> Seq(Response)]
  BY DEF TurnTypeOK, Turn
<1>2. PICK p \in {"recorded"} \cup Ended, cost \in Nat :
          /\ turn.phase \in Active /\ RunStands
          /\ turn'.phase = p /\ turn'.charged = turn.charged + cost
          /\ Settled(p, turn.charged + cost)
          /\ history' = history \/ (p = "completed" /\ LeaveHistory)
  BY EndEffect
<1>3. turn'.charged - turn.charged \in Nat
  BY <1>1, <1>2
<1>4. /\ history' \in [Threads -> Seq(Response)]
      /\ \A t \in Threads : history'[t] = history[t] \/ history'[t] = turn.messages
  <2>1. turn.thread \in Threads /\ turn.messages \in Seq(Response)
    BY <1>1 DEF Turn
  <2>2. CASE history' = history
    BY <1>1, <2>2
  <2>3. CASE history' = [history EXCEPT ![turn.thread] = turn.messages]
    BY <1>1, <2>1, <2>3
  <2> QED
    BY <1>2, <2>2, <2>3 DEF LeaveHistory
<1>5. TurnTypeOK'
  BY <1>1, <1>2, <1>4 DEF TurnTypeOK, RunStands
<1>6. RunsInOrder'
  <2>1. ASSUME NEW t \in Threads
        PROVE  \A i \in DOMAIN history'[t] : history'[t][i].run <= turns
    BY <1>4 DEF RunsInOrder
  <2> QED
    BY <1>2, <2>1 DEF RunsInOrder, RunStands
<1>7. Own(turn.messages)' = Own(turn.messages)
      /\ InState(CallStates \ {"unknown"})' = InState(CallStates \ {"unknown"})
      /\ Metered' = Metered
  BY <1>2 DEF Own, InState, RunStands, Metered
<1>8. CallsInOrder' /\ UseIsKnown'
  BY <1>2, <1>7 DEF CallsInOrder, UseIsKnown, RunStands, ResultUsage
<1>9. HistoryIsKnown'
  <2>1. p \in Active => history' = history
    BY <1>2 DEF Active
  <2>2. p \in Active =>
           /\ PriceOfAll(turn.messages)' = PriceOfAll(turn.messages)
           /\ PriceOfAll(history[turn.thread])' = PriceOfAll(history[turn.thread])
    BY <1>2, <2>1 DEF RunStands
  <2> QED
    BY <1>2, <1>7, <2>2 DEF HistoryIsKnown, RunStands
<1>10. ChargedSoFar'
  BY <1>2 DEF ChargedSoFar, Settled, Ended, RunStands
<1>11. UseIsCharged'
  <2>1. p = "failed" => history' = history
    BY <1>2
  <2>2. /\ turn'.phase = p /\ turn'.charged = turn.charged + cost
        /\ consumed' = consumed /\ turn'.thread = turn.thread
    BY <1>2 DEF RunStands
  <2> QED
    BY <1>2, <2>1, <2>2 DEF UseIsCharged, Settled, PriceOfAll
<1>12. CallsAreTracedOnce'
  BY <1>2 DEF CallsAreTracedOnce, RunStands
<1> QED
  BY <1>3, <1>5, <1>6, <1>8, <1>9, <1>10, <1>11, <1>12

-----------------------------------------------------------------------------
(* The budget.                                                             *)

BudgetPart == BudgetTypeOK /\ BudgetInv

\* Rounding up to days: enough of them, and one less is not enough.
LEMMA RoundedUp ==
    ASSUME NEW x \in Nat, x > 0
    PROVE  LET q == (x + Day - 1) \div Day
           IN  q \in Nat /\ q * Day >= x /\ (q - 1) * Day < x
<1>1. Day \in Nat /\ Day > 0
  BY BudgetPeriodAssumption
<1> DEFINE y == x + Day - 1
           q == y \div Day
<1>2. y \in Nat
  BY <1>1
<1> HIDE DEF y
<1>3. q \in Nat /\ q * Day <= y /\ y < q * Day + Day
  BY <1>1, <1>2
<1> HIDE DEF q
<1>4. (q - 1) * Day = q * Day - Day /\ q * Day \in Nat
  BY <1>1, <1>3
<1>5. q * Day >= x /\ (q - 1) * Day < x
  BY <1>1, <1>3, <1>4 DEF y
<1> QED
  BY <1>3, <1>5 DEF q, y

LEMMA SpentType ==
    ASSUME BudgetTypeOK
    PROVE  /\ IsFiniteSet(InPeriod) /\ InPeriod \in SUBSET Times
           /\ SpentIn(InPeriod) \in Nat
<1>1. IsFiniteSet(Times)
  BY BudgetPeriodAssumption, FS_Interval DEF Times
<1>2. InPeriod \in SUBSET Times
  BY DEF InPeriod
<1>3. IsFiniteSet(InPeriod)
  BY <1>1, <1>2, FS_Subset
<1>4. \A t \in InPeriod : ledger[t] \in Nat
  BY <1>2 DEF BudgetTypeOK
<1>5. SumFunctionOnSet(ledger, InPeriod) \in Nat
  BY <1>3, <1>4, SumType
<1> QED
  BY <1>2, <1>3, <1>5 DEF SpentIn

LEMMA BudgetStarts ==
    ASSUME BudgetInit, turn.charged \in Nat
    PROVE  BudgetPart
<1>1. BudgetTypeOK
  <2>1. now \in Times /\ ledger \in [Times -> Nat] /\ running \in BOOLEAN /\ runs \in 0..MaxRuns
    <3>1. 0 \in 0..Horizon /\ 0 \in 0..MaxRuns
      BY BudgetPeriodAssumption
    <3> QED
      BY <3>1 DEF BudgetInit, Times
  <2>2. notice \in [sent: BOOLEAN, at: Times, days: Nat]
    BY BudgetPeriodAssumption DEF BudgetInit, NoNotice, Times
  <2> QED
    BY <2>1, <2>2 DEF BudgetTypeOK
<1>2. SpentIn(InPeriod) = 0
  <2>1. \A t \in InPeriod : ledger[t] = 0
    BY DEF BudgetInit, InPeriod
  <2> QED
    BY <1>1, <2>1, SpentType, SumOfZeros DEF SpentIn
<1>3. StartedWithin /\ NoticeIsHonest
  BY DEF BudgetInit, StartedWithin, NoticeIsHonest, NoNotice
<1>4. OvershootIsOneRun
  BY <1>2, BudgetPeriodAssumption DEF OvershootIsOneRun
<1> QED
  BY <1>1, <1>3, <1>4 DEF BudgetPart, BudgetInv

LEMMA BudgetStutters ==
    ASSUME BudgetPart, UNCHANGED budgetVars, turn'.charged = turn.charged
    PROVE  BudgetPart'
BY DEF BudgetPart, BudgetInv, budgetVars, BudgetTypeOK, StartedWithin, OvershootIsOneRun,
       NoticeIsHonest, SpentIn

LEMMA NextRunType ==
    ASSUME BudgetTypeOK, NextRun
    PROVE  runs' \in 0..MaxRuns
BY BudgetPeriodAssumption DEF NextRun, BudgetTypeOK

LEMMA AllowKeeps ==
    ASSUME BudgetPart, Allow, turn'.charged = 0
    PROVE  BudgetPart'
<1> USE DEF BudgetPart, BudgetInv
<1>1. BudgetTypeOK'
  BY NextRunType DEF Allow, BudgetTypeOK
<1>2. SpentIn(InPeriod)' = SpentIn(InPeriod) /\ SpentIn(InPeriod) < Limit
  BY DEF Allow, SpentIn
<1>3. StartedWithin' /\ OvershootIsOneRun'
  BY <1>2, BudgetPeriodAssumption DEF StartedWithin, OvershootIsOneRun
<1>4. NoticeIsHonest'
  BY DEF Allow, NoticeIsHonest
<1> QED
  BY <1>1, <1>3, <1>4

LEMMA RefuseKeeps ==
    ASSUME BudgetPart, Refuse, turn'.charged = turn.charged
    PROVE  BudgetPart'
<1> USE DEF BudgetPart, BudgetInv
<1>1. /\ now \in Nat /\ now \in Times /\ PeriodEnd \in Nat /\ Day \in Nat
  BY BudgetPeriodAssumption DEF BudgetTypeOK, Times
<1>2. /\ DaysUntilReset \in Nat
      /\ now + DaysUntilReset * Day >= PeriodEnd
      /\ DaysUntilReset > 0 => now + (DaysUntilReset - 1) * Day < PeriodEnd
  <2>1. CASE PeriodEnd <= now
    <3>1. DaysUntilReset = 0
      BY <2>1 DEF DaysUntilReset
    <3>2. 0 * Day = 0
      BY <1>1
    <3> QED
      BY <2>1, <3>1, <3>2, <1>1
  <2>2. CASE ~(PeriodEnd <= now)
    <3> DEFINE x == PeriodEnd - now
               q == (x + Day - 1) \div Day
    <3>1. x \in Nat /\ x > 0
      BY <1>1, <2>2
    <3>2. DaysUntilReset = q
      BY <2>2 DEF DaysUntilReset
    <3> HIDE DEF x
    <3>3. q \in Nat /\ q * Day >= x /\ (q - 1) * Day < x
      BY <3>1, RoundedUp
    <3> HIDE DEF q
    <3>4. q * Day \in Nat /\ (q - 1) * Day \in Int
      BY <1>1, <3>3
    <3>5. now + q * Day >= PeriodEnd /\ now + (q - 1) * Day < PeriodEnd
      BY <1>1, <3>3, <3>4 DEF x
    <3> QED
      BY <3>2, <3>3, <3>5
  <2> QED
    BY <2>1, <2>2
<1>3. notice' = [sent |-> TRUE, at |-> now, days |-> DaysUntilReset]
  BY DEF Refuse
<1>4. BudgetTypeOK'
  <2>1. notice' \in [sent: BOOLEAN, at: Times, days: Nat]
    BY <1>1, <1>2, <1>3
  <2> QED
    BY <2>1, NextRunType DEF Refuse, BudgetTypeOK
<1>5. NoticeIsHonest'
  BY <1>2, <1>3 DEF NoticeIsHonest
<1>6. StartedWithin' /\ OvershootIsOneRun'
  BY DEF Refuse, StartedWithin, OvershootIsOneRun, SpentIn
<1> QED
  BY <1>4, <1>5, <1>6

LEMMA ChargeKeeps ==
    ASSUME BudgetPart, turn.charged \in Nat, NEW d \in Nat, turn'.charged = turn.charged + d,
           NEW over \in BOOLEAN, Charge(d, over)
    PROVE  BudgetPart'
<1> USE DEF BudgetPart, BudgetInv
<1>1. /\ running /\ running' \in BOOLEAN /\ ledger' = [ledger EXCEPT ![now] = @ + d]
      /\ now' = now /\ notice' = notice /\ runs' = runs
      /\ ledger \in [Times -> Nat] /\ now \in Times
  BY DEF Charge, BudgetTypeOK
<1>3. BudgetTypeOK'
  <2>1. ledger[now] + d \in Nat
    BY <1>1
  <2>2. ledger' \in [Times -> Nat]
    BY <1>1, <2>1
  <2> QED
    BY <1>1, <2>2 DEF BudgetTypeOK
<1>4. SpentIn(InPeriod)' = IF now \in InPeriod THEN SpentIn(InPeriod) + d ELSE SpentIn(InPeriod)
  <2>1. IsFiniteSet(InPeriod) /\ InPeriod \in SUBSET Times
    BY SpentType
  <2>2. /\ \A y \in InPeriod : ledger[y] \in Nat
        /\ \A y \in InPeriod : ledger'[y] = IF y = now THEN ledger[y] + d ELSE ledger[y]
    BY <1>1, <2>1
  <2>3. SumFunctionOnSet(ledger', InPeriod)
            = IF now \in InPeriod THEN SumFunctionOnSet(ledger, InPeriod) + d
              ELSE SumFunctionOnSet(ledger, InPeriod)
    <3>1. now \in InPeriod \/ now \notin InPeriod
      OBVIOUS
    <3> QED
      BY <2>1, <2>2, <3>1, SumGrows, SMTT(60)
  <2> QED
    BY <2>3 DEF SpentIn
<1>5. SpentIn(InPeriod) < Limit + turn.charged /\ SpentIn(InPeriod) \in Nat
  BY <1>1, SpentType DEF StartedWithin
<1>6. SpentIn(InPeriod)' < Limit + turn'.charged
  <2>1. SpentIn(InPeriod)' <= SpentIn(InPeriod) + d /\ SpentIn(InPeriod)' \in Nat
    BY <1>4, <1>5
  <2> QED
    BY <1>5, <2>1, BudgetPeriodAssumption
<1>7. OvershootIsOneRun' /\ StartedWithin'
  BY <1>6 DEF OvershootIsOneRun, StartedWithin
<1>8. NoticeIsHonest'
  BY <1>1 DEF NoticeIsHonest
<1> QED
  BY <1>3, <1>7, <1>8

LEMMA TickKeeps ==
    ASSUME BudgetPart, Tick, turn'.charged = turn.charged
    PROVE  BudgetPart'
<1> USE DEF BudgetPart, BudgetInv
<1>1. BudgetTypeOK'
  <2>1. now \in Nat /\ now < Horizon /\ now' = now + 1
    BY DEF Tick, BudgetTypeOK, Times
  <2>2. now' \in Times
    BY <2>1, BudgetPeriodAssumption DEF Times
  <2> QED
    BY <2>2 DEF Tick, BudgetTypeOK
<1>2. StartedWithin' /\ OvershootIsOneRun' /\ NoticeIsHonest'
  BY DEF Tick, StartedWithin, OvershootIsOneRun, NoticeIsHonest, SpentIn
<1> QED
  BY <1>1, <1>2

-----------------------------------------------------------------------------
(* The composed specification.                                             *)

LEMMA SpendingStarts == Init => SpendingIInv
<1> SUFFICES ASSUME Init PROVE SpendingIInv
  OBVIOUS
<1>1. TurnPart
  BY TurnStarts DEF Init
<1>2. turn.charged \in Nat
  BY <1>1 DEF TurnPart, TurnTypeOK, Turn
<1>3. BudgetPart
  BY <1>2, BudgetStarts DEF Init
<1> QED
  BY <1>1, <1>3 DEF SpendingIInv, TypeOK, TurnPart, BudgetPart

LEMMA SpendingSteps == SpendingIInv /\ [Next]_spendingVars => SpendingIInv'
<1> SUFFICES ASSUME TurnPart, BudgetPart, [Next]_spendingVars
             PROVE  TurnPart' /\ BudgetPart'
  BY DEF SpendingIInv, TypeOK, TurnPart, BudgetPart
<1>1. ASSUME NEW t \in Threads, Start(t) PROVE TurnPart' /\ BudgetPart'
  BY <1>1, BeginKeeps, AllowKeeps DEF Start
<1>2. CASE RefuseRun
  BY <1>2, TurnStutters, RefuseKeeps DEF RefuseRun
<1>3. CASE TurnStep
  <2>1. TurnPart' /\ turn'.charged = turn.charged
    BY <1>3, ModelKeeps, ToolsKeep, RecordStepKeeps, ToolsReturnKeeps DEF TurnStep
  <2> QED
    BY <1>3, <2>1, BudgetStutters DEF TurnStep
<1>4. CASE EndTurn
  <2>1. TurnPart' /\ turn'.charged - turn.charged \in Nat
    BY <1>4, EndKeeps DEF EndTurn
  <2>2. turn.charged \in Nat /\ turn'.charged \in Nat
    BY <2>1 DEF TurnPart, TurnTypeOK, Turn
  <2>3. turn'.charged = turn.charged + (turn'.charged - turn.charged)
    BY <2>2
  <2>4. (turn'.phase \in Ended) \in BOOLEAN
    OBVIOUS
  <2>5. Charge(turn'.charged - turn.charged, turn'.phase \in Ended)
    BY <1>4 DEF EndTurn
  <2> QED
    BY <2>1, <2>2, <2>3, <2>4, <2>5, ChargeKeeps
<1>5. CASE TimePasses
  BY <1>5, TurnStutters, TickKeeps DEF TimePasses
<1>6. CASE UNCHANGED spendingVars
  <2>1. UNCHANGED turnVars /\ UNCHANGED budgetVars
    BY <1>6 DEF spendingVars
  <2> QED
    BY <2>1, TurnStutters, BudgetStutters
<1> QED
  BY <1>1, <1>2, <1>3, <1>4, <1>5, <1>6 DEF Next

LEMMA SpendingInvariant == Spec => []SpendingIInv
BY SpendingStarts, SpendingSteps, PTL DEF Spec

\* The ledger gets what a run used: a reply and a quiet exit exactly that, a run that fails
\* before its reply is recorded at least that and its thread's history besides at the most,
\* one that fails afterwards twice that, whatever the prices, the number of responses and the
\* calls (RunRecorder, _summarise_partial_usage).
THEOREM LedgerCoversUse == Spec => []UseIsCharged
<1>1. SpendingIInv => UseIsCharged
  BY DEF SpendingIInv, TurnInv
<1> QED
  BY <1>1, SpendingInvariant, PTL

\* The trace of a run shows each tool call once, when the hook has written it, and no
\* call of an earlier run of the thread (_filter_live_recorded_tool_steps).
THEOREM TraceShowsEachCallOnce == Spec => []CallsAreTracedOnce
<1>1. SpendingIInv => CallsAreTracedOnce
  BY DEF SpendingIInv, TurnInv
<1> QED
  BY <1>1, SpendingInvariant, PTL

\* The period is overspent by less than its latest run was charged, for every limit and
\* every period (BudgetGovernor.decide before the run, RunRecorder after it).
THEOREM OverspendingIsBounded == Spec => []OvershootIsOneRun
<1>1. SpendingIInv => OvershootIsOneRun
  BY DEF SpendingIInv, BudgetInv
<1> QED
  BY <1>1, SpendingInvariant, PTL

\* The days a budget reply promises reach the end of the period and no further than the
\* day it ends in, whatever the length of a day (BudgetGovernor.decide).
THEOREM RepliesPromiseTheReset == Spec => []NoticeIsHonest
<1>1. SpendingIInv => NoticeIsHonest
  BY DEF SpendingIInv, BudgetInv
<1> QED
  BY <1>1, SpendingInvariant, PTL
=============================================================================

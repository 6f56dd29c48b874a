-------------------------- MODULE BulkImport_proofs --------------------------
(***************************************************************************)
(* What a bulk import stores and counts, for requests of any length.       *)
(*                                                                         *)
(* The session of a request is defined by recursion over its profiles.     *)
(* The induction theorems of the library take an operator, which the       *)
(* provers cannot instantiate; here the argument is by the least           *)
(* counterexample, which exists because finite sets are well founded       *)
(* under inclusion: that theorem speaks of sets only.                      *)
(***************************************************************************)
EXTENDS BulkImport, FiniteSetTheorems, WellFoundedInduction, TLAPS

\* Every non-empty set of natural numbers has a least element.
LEMMA Smallest ==
  ASSUME NEW T, T \subseteq Nat, T # {}
  PROVE  \E x \in T : \A y \in T : x <= y
<1> DEFINE Initial == {1..n : n \in T}
<1>1. Initial \subseteq FiniteSubsetsOf(Nat)
  <2>1. \A n \in T : IsFiniteSet(1..n) /\ 1..n \subseteq Nat
    BY FS_Interval
  <2>2. QED BY <2>1 DEF FiniteSubsetsOf
<1>2. Initial # {}
  OBVIOUS
<1>3. IsWellFoundedOn(StrictSubsetOrdering(Nat), FiniteSubsetsOf(Nat))
  BY FS_StrictSubsetOrderingWellFounded
<1> HIDE DEF Initial
<1>4. PICK X \in Initial : \A Y \in Initial : <<Y, X>> \notin StrictSubsetOrdering(Nat)
  BY <1>1, <1>2, <1>3, WFMin, Zenon
<1>5. PICK x \in T : X = 1..x
  BY DEF Initial
<1>6. ASSUME NEW y \in T PROVE x <= y
  <2>1. <<1..y, 1..x>> \notin StrictSubsetOrdering(Nat)
    BY <1>4, <1>5 DEF Initial
  <2>2. SUFFICES ASSUME y < x PROVE FALSE
    OBVIOUS
  <2>3. 1..y \subseteq 1..x /\ x \in 1..x /\ x \notin 1..y
    BY <2>2
  <2>4. QED BY <2>1, <2>3 DEF StrictSubsetOrdering
<1>7. QED BY <1>6

-----------------------------------------------------------------------------
\* The session after the first i profiles of a request, in closed form: what was
\* taken is counted, and held since the last profile that was not.
GoodUpTo(ps, i) == {k \in 1..i : ps[k] = "good"}
HeldAt(ps, i) == {k \in 1..i : \A m \in k..i : ps[m] = "good"}
SessionAt(ps, i) == [accepted |-> Cardinality(GoodUpTo(ps, i)), held |-> HeldAt(ps, i)]

\* A request begins with a fresh session.
LEMMA SessionBegins == ASSUME NEW ps PROVE SessionAt(ps, 0) = Fresh
<1>1. GoodUpTo(ps, 0) = {} /\ HeldAt(ps, 0) = {}
  BY DEF GoodUpTo, HeldAt
<1>2. Cardinality({}) = 0
  BY FS_EmptySet
<1>3. QED BY <1>1, <1>2 DEF SessionAt, Fresh

\* One more profile does to the closed form what create does to the session.
LEMMA SessionGoesOn ==
  ASSUME NEW ps \in Seq(Kinds), NEW i \in 1..Len(ps)
  PROVE  SessionAt(ps, i) = Create(SessionAt(ps, i - 1), i, ps[i])
<1>1. i \in Nat /\ i - 1 \in Nat /\ 1..i = (1..(i - 1)) \cup {i} /\ i \notin 1..(i - 1)
  OBVIOUS
<1>2. IsFiniteSet(GoodUpTo(ps, i - 1)) /\ i \notin GoodUpTo(ps, i - 1)
  <2>1. IsFiniteSet(1..(i - 1))
    BY <1>1, FS_Interval
  <2>2. GoodUpTo(ps, i - 1) \subseteq 1..(i - 1)
    BY DEF GoodUpTo
  <2>3. QED BY <1>1, <2>1, <2>2, FS_Subset
<1>3. CASE ps[i] = "good"
  <2>1. GoodUpTo(ps, i) = GoodUpTo(ps, i - 1) \cup {i}
    BY <1>1, <1>3 DEF GoodUpTo
  <2>2. Cardinality(GoodUpTo(ps, i)) = Cardinality(GoodUpTo(ps, i - 1)) + 1
    BY <1>2, <2>1, FS_AddElement
  <2>3. HeldAt(ps, i) = HeldAt(ps, i - 1) \cup {i}
    BY <1>1, <1>3 DEF HeldAt
  <2>4. QED BY <1>3, <2>2, <2>3 DEF SessionAt, Create
<1>4. CASE ps[i] # "good"
  <2>1. GoodUpTo(ps, i) = GoodUpTo(ps, i - 1)
    BY <1>1, <1>4 DEF GoodUpTo
  <2>2. HeldAt(ps, i) = {}
    BY <1>1, <1>4 DEF HeldAt
  <2>3. QED BY <1>4, <2>1, <2>2 DEF SessionAt, Create
<1>5. QED BY <1>3, <1>4

\* The recursion of SessionAfter, as an equation about a function.
Follows(after, ps) ==
  after = [i \in 0..Len(ps) |-> IF i = 0 THEN Fresh ELSE Create(after[i - 1], i, ps[i])]

\* The equation has a solution, the closed form ...
LEMMA SessionExists ==
  ASSUME NEW ps \in Seq(Kinds)
  PROVE  \E after : Follows(after, ps)
<1> DEFINE closed == [i \in 0..Len(ps) |-> SessionAt(ps, i)]
<1>1. \A i \in 0..Len(ps) :
        closed[i] = IF i = 0 THEN Fresh ELSE Create(closed[i - 1], i, ps[i])
  <2> SUFFICES ASSUME NEW i \in 0..Len(ps)
               PROVE closed[i] = IF i = 0 THEN Fresh ELSE Create(closed[i - 1], i, ps[i])
    OBVIOUS
  <2>1. CASE i = 0
    BY <2>1, SessionBegins
  <2>2. CASE i # 0
    <3>1. i \in 1..Len(ps) /\ i - 1 \in 0..Len(ps)
      BY <2>2
    <3>2. closed[i] = SessionAt(ps, i) /\ closed[i - 1] = SessionAt(ps, i - 1)
      BY <3>1
    <3> HIDE DEF closed
    <3>3. QED BY <2>2, <3>1, <3>2, SessionGoesOn
  <2>3. QED BY <2>1, <2>2
<1>2. closed = [i \in 0..Len(ps) |-> closed[i]]
  OBVIOUS
<1> HIDE DEF closed
<1>3. Follows(closed, ps)
  BY <1>1, <1>2 DEF Follows
<1>4. QED BY <1>3

\* ... and no other one: there is no least profile after which they differ.
LEMMA SessionIsClosedForm ==
  ASSUME NEW ps \in Seq(Kinds), NEW after, Follows(after, ps)
  PROVE  \A i \in 0..Len(ps) : after[i] = SessionAt(ps, i)
<1> DEFINE Differ == {i \in 0..Len(ps) : after[i] # SessionAt(ps, i)}
<1>1. SUFFICES ASSUME Differ # {} PROVE FALSE
  OBVIOUS
<1>2. PICK i \in Differ : \A k \in Differ : i <= k
  <2>1. Differ \subseteq Nat
    OBVIOUS
  <2> HIDE DEF Differ
  <2>2. QED BY <1>1, <2>1, Smallest
<1>3. i \in 0..Len(ps)
  OBVIOUS
<1>4. after[i] = IF i = 0 THEN Fresh ELSE Create(after[i - 1], i, ps[i])
  BY <1>3, Zenon DEF Follows
<1>5. i # 0
  BY <1>4, SessionBegins
<1>6. i - 1 \in 0..Len(ps) /\ i \in 1..Len(ps) /\ ~(i <= i - 1)
  BY <1>3, <1>5
<1>7. after[i - 1] = SessionAt(ps, i - 1)
  BY <1>2, <1>6
<1>8. after[i] = SessionAt(ps, i)
  BY <1>4, <1>5, <1>6, <1>7, SessionGoesOn
<1>9. QED BY <1>8

\* A bulk import counts every profile it has taken and stores those after the last
\* one that was refused, for requests of any length: the closed forms Stored and
\* Accepted are what the loop of create calls over one session ends with.
THEOREM LoopIsClosedForm ==
  ASSUME NEW ps \in Seq(Kinds)
  PROVE  SessionAfter(ps) = [accepted |-> Accepted(ps), held |-> Stored(ps)]
<1> DEFINE after == CHOOSE a : Follows(a, ps)
<1>1. SessionAfter(ps) = after[Len(ps)]
  BY DEF SessionAfter, Follows
<1>2. Follows(after, ps)
  BY SessionExists
<1> HIDE DEF after
<1>3. after[Len(ps)] = SessionAt(ps, Len(ps))
  BY <1>2, SessionIsClosedForm
<1>4. DOMAIN ps = 1..Len(ps)
  OBVIOUS
<1>5. GoodUpTo(ps, Len(ps)) = {i \in DOMAIN ps : ps[i] = "good"} /\ HeldAt(ps, Len(ps)) = Stored(ps)
  BY <1>4 DEF GoodUpTo, HeldAt, Stored
<1>6. QED BY <1>1, <1>3, <1>5 DEF SessionAt, Accepted
\* What a bulk import says it imported is what it stores, unless a profile it had
\* taken was followed by one that was refused: then, and only then, it claims more.
THEOREM OverstatesExactlyAfterRefusal ==
  ASSUME NEW ps \in Seq(Kinds)
  PROVE  /\ Cardinality(Stored(ps)) <= Accepted(ps)
         /\ Cardinality(Stored(ps)) = Accepted(ps) <=>
              ~ \E i, k \in DOMAIN ps : i < k /\ ps[i] = "good" /\ ps[k] # "good"
<1> DEFINE good == {i \in DOMAIN ps : ps[i] = "good"}
<1>1. DOMAIN ps = 1..Len(ps) /\ Len(ps) \in Nat
  OBVIOUS
<1>2. IsFiniteSet(good)
  <2>1. IsFiniteSet(1..Len(ps))
    BY <1>1, FS_Interval
  <2>2. QED BY <1>1, <2>1, FS_Subset
<1>3. Stored(ps) \subseteq good
  <2>1. SUFFICES ASSUME NEW i \in Stored(ps) PROVE i \in good
    OBVIOUS
  <2>2. i \in 1..Len(ps) /\ \A k \in i..Len(ps) : ps[k] = "good"
    BY <1>1 DEF Stored
  <2>3. i \in i..Len(ps)
    BY <2>2
  <2>4. QED BY <1>1, <2>2, <2>3
<1>4. Stored(ps) = good <=>
        ~ \E i, k \in DOMAIN ps : i < k /\ ps[i] = "good" /\ ps[k] # "good"
  <2>1. ASSUME NEW i \in DOMAIN ps, NEW k \in DOMAIN ps, i < k, ps[i] = "good", ps[k] # "good"
        PROVE  Stored(ps) # good
    <3>1. k \in i..Len(ps) /\ i \in good
      BY <1>1, <2>1
    <3>2. i \notin Stored(ps)
      BY <2>1, <3>1 DEF Stored
    <3>3. QED BY <3>1, <3>2
  <2>2. ASSUME \A i, k \in DOMAIN ps : i < k /\ ps[i] = "good" => ps[k] = "good"
        PROVE  good \subseteq Stored(ps)
    <3>1. SUFFICES ASSUME NEW i \in good, NEW k \in i..Len(ps) PROVE ps[k] = "good"
      BY DEF Stored
    <3>2. i \in DOMAIN ps /\ k \in DOMAIN ps /\ ps[i] = "good" /\ (k = i \/ i < k)
      BY <1>1
    <3>3. QED BY <2>2, <3>2
  <2>3. QED BY <1>3, <2>1, <2>2
<1> HIDE DEF good
<1>5. Cardinality(Stored(ps)) <= Cardinality(good)
  BY <1>2, <1>3, FS_Subset
<1>6. Cardinality(Stored(ps)) = Cardinality(good) <=> Stored(ps) = good
  BY <1>2, <1>3, FS_Subset
<1>7. Accepted(ps) = Cardinality(good)
  BY DEF Accepted, good
<1>8. QED BY <1>4, <1>5, <1>6, <1>7
=============================================================================

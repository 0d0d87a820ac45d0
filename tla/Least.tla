------------------------------- MODULE Least -------------------------------
(***************************************************************************)
(* The least number of a bounded set, and what Min makes of it.  The least *)
(* number principle of the library takes an operator; here it follows from *)
(* the well-founded inclusion of finite sets.                              *)
(***************************************************************************)
EXTENDS FiniteSetTheorems, FiniteSetsExt, TLAPS

LEMMA LeastExists ==
    ASSUME NEW n \in Nat, NEW T \in SUBSET (0 .. n), T # {}
    PROVE  \E i \in T : \A j \in T : i <= j
<1> DEFINE U == 0 .. n
           R == StrictSubsetOrdering(U)
           W == {0 .. i : i \in T}
<1>1. IsFiniteSet(U)
  BY FS_Interval
<1>2. IsWellFoundedOn(R, SUBSET U)
  <2>1. IsWellFoundedOn(R, FiniteSubsetsOf(U))
    BY FS_StrictSubsetOrderingWellFounded
  <2> QED
    BY <1>1, <2>1, FS_FiniteSubsetsOfFinite
<1>3. W \subseteq SUBSET U /\ W # {}
  <2>1. ASSUME NEW i \in T
        PROVE  0 .. i \in SUBSET U
    OBVIOUS
  <2> QED
    BY <2>1
<1>4. \E X \in W : \A Y \in W : ~ (<<Y, X>> \in R)
  <2> HIDE DEF W, R, U
  <2> QED
    BY <1>2, <1>3, WFMin
<1>5. PICK i \in T : \A j \in T : ~ (<<0 .. j, 0 .. i>> \in R)
  BY <1>4
<1>6. ASSUME NEW j \in T, j < i
      PROVE  FALSE
  <2>1. 0 .. j \in SUBSET U /\ 0 .. i \in SUBSET U
    OBVIOUS
  <2>2. 0 .. j \subseteq 0 .. i
    BY <1>6
  <2>3. i \in 0 .. i /\ i \notin 0 .. j
    BY <1>6
  <2>4. <<0 .. j, 0 .. i>> \in R
    BY <2>1, <2>2, <2>3 DEF StrictSubsetOrdering
  <2> QED
    BY <1>5, <2>4
<1> QED
  BY <1>6

LEMMA MinIsLeast ==
    ASSUME NEW n \in Nat, NEW T \in SUBSET (0 .. n), T # {}
    PROVE  Min(T) \in T /\ \A j \in T : Min(T) <= j
BY LeastExists DEF Min
=============================================================================

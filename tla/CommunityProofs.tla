-------------------------- MODULE CommunityProofs ---------------------------
(***************************************************************************)
(* The properties of Community, for every set of items and voters, every    *)
(* cap, tier and weight, and a ledger of any length.                        *)
(*                                                                         *)
(* The cache.  Every function of Ledger that changes which rows count ends  *)
(* in Recompute; Settle does not, and keeps the rows that count.  The two   *)
(* sums are equal because they are sums of the same function over the same  *)
(* set: nothing is needed of the points.                                    *)
(*                                                                         *)
(* The rows.  None that is not void stands for a withdrawn vote, and no     *)
(* removal penalty is on content that is up.  Every function of Ledger      *)
(* leaves the rows in their order, never revives a void one, and appends    *)
(* rows of known reason and source (Descends).  What is left to show of a   *)
(* handler is that it appends no row, or voids the rows, of the vote it     *)
(* withdraws or the content it puts up.                                     *)
(*                                                                         *)
(* The cap and the floor.  Both bound sums, so what a fold over a finite    *)
(* set yields is shown first (SumTake, SumGrows, SumFalls), by induction    *)
(* over the subsets.  A book is good when it is typed, its cache agrees,    *)
(* no pillar is over its cap and conduct is above its floor; every          *)
(* function of Ledger keeps it good.  That a void row of conduct was no     *)
(* gain needs ConductRows: a gain of conduct has no source to take it back  *)
(* by.                                                                      *)
(***************************************************************************)
EXTENDS Community, SequenceTheorems, FiniteSetTheorems, TLAPS

\* Induction over the subsets of a finite set, for a set of good ones.
LEMMA FiniteInduction ==
    ASSUME NEW S, IsFiniteSet(S), NEW Good,
           \A T \in SUBSET S :
              (\A U \in SUBSET T : U # T => U \in Good) => T \in Good
    PROVE  \A T \in SUBSET S : T \in Good
<1> DEFINE Bad == {T \in SUBSET S : T \notin Good}
<1>1. SUFFICES ASSUME Bad # {} PROVE FALSE
  OBVIOUS
<1>2. IsWellFoundedOn(StrictSubsetOrdering(S), SUBSET S)
  BY FS_StrictSubsetOrderingWellFounded, FS_FiniteSubsetsOfFinite
<1>3. PICK T \in Bad : \A U \in Bad : ~ (<<U, T>> \in StrictSubsetOrdering(S))
  <2>1. Bad \subseteq SUBSET S
    OBVIOUS
  <2> HIDE DEF Bad
  <2> QED BY <1>1, <1>2, <2>1, WFMin
<1>4. ASSUME NEW U \in SUBSET T, U # T
      PROVE  U \in Good
  <2>1. U \in SUBSET S
    OBVIOUS
  <2>2. <<U, T>> \in StrictSubsetOrdering(S)
    BY <1>4, <2>1 DEF StrictSubsetOrdering
  <2> QED BY <1>3, <2>1, <2>2
<1> QED BY <1>4

-----------------------------------------------------------------------------
(* Sums.  The fold takes one element after another, those that CHOOSE picks. *)

Picked(T) == CHOOSE x \in T : TRUE

LEMMA PickedIn ==
    ASSUME NEW T, T # {}
    PROVE  Picked(T) \in T
  BY DEF Picked

\* What the fold over the subsets of T must satisfy.
Summing(fun, T, iter) ==
    iter = [s \in SUBSET T |->
               IF s = {} THEN 0 ELSE fun[Picked(s)] + iter[s \ {Picked(s)}]]

LEMMA SumIsFold ==
    ASSUME NEW fun, NEW T
    PROVE  SumFunctionOnSet(fun, T) = (CHOOSE iter : Summing(fun, T, iter))[T]
  BY Zenon DEF SumFunctionOnSet, FoldFunctionOnSet, MapThenFoldSet, Summing, Picked

\* The sum over T is that over T without an element, and the element's value.
SumSteps(fun, T) ==
    SumFunctionOnSet(fun, T) =
        (IF T = {} THEN 0
         ELSE fun[Picked(T)] + SumFunctionOnSet(fun, T \ {Picked(T)}))

LEMMA SummingAgrees ==
    ASSUME NEW fun, NEW T, NEW iter, NEW R,
           IsFiniteSet(T), Summing(fun, T, iter), R \subseteq T,
           \A U \in SUBSET R : SumSteps(fun, U)
    PROVE  iter[R] = SumFunctionOnSet(fun, R)
<1> DEFINE Good == {U \in SUBSET R : iter[U] = SumFunctionOnSet(fun, U)}
<1>1. ASSUME NEW U \in SUBSET R, \A V \in SUBSET U : V # U => V \in Good
      PROVE  U \in Good
  <2>1. U \in SUBSET T
    OBVIOUS
  <2>2. iter[U] = IF U = {} THEN 0 ELSE fun[Picked(U)] + iter[U \ {Picked(U)}]
    BY <2>1 DEF Summing
  <2>3. SumSteps(fun, U)
    OBVIOUS
  <2>4. CASE U = {}
    BY <2>2, <2>3, <2>4 DEF SumSteps
  <2>5. CASE U # {}
    <3>1. U \ {Picked(U)} \in SUBSET U /\ U \ {Picked(U)} # U
      BY <2>5, PickedIn
    <3>2. iter[U \ {Picked(U)}] = SumFunctionOnSet(fun, U \ {Picked(U)})
      BY <1>1, <3>1
    <3> QED BY <2>2, <2>3, <2>5, <3>2 DEF SumSteps
  <2> QED BY <2>4, <2>5
<1>2. IsFiniteSet(R)
  BY FS_Subset
<1>3. R \in Good
  <2> HIDE DEF Good
  <2>1. \A U \in SUBSET R : U \in Good
    BY <1>1, <1>2, FiniteInduction
  <2> QED BY <2>1
<1> QED BY <1>3

LEMMA SumUnfolds ==
    ASSUME NEW fun, NEW S, IsFiniteSet(S)
    PROVE  SumSteps(fun, S)
<1> DEFINE Good == {T \in SUBSET S : SumSteps(fun, T)}
<1>1. ASSUME NEW T \in SUBSET S, \A U \in SUBSET T : U # T => U \in Good
      PROVE  T \in Good
  <2> DEFINE sum == [s \in SUBSET T |->
                        IF s = {} THEN 0
                        ELSE fun[Picked(s)] + SumFunctionOnSet(fun, s \ {Picked(s)})]
             iter == CHOOSE k : Summing(fun, T, k)
  <2>1. \A U \in SUBSET T : U # T => SumSteps(fun, U)
    BY <1>1
  <2>2. IsFiniteSet(T)
    BY FS_Subset
  <2>3. ASSUME NEW s \in SUBSET T, s # {}
        PROVE  sum[s \ {Picked(s)}] = SumFunctionOnSet(fun, s \ {Picked(s)})
    <3> DEFINE r == s \ {Picked(s)}
    <3>1. r \in SUBSET T /\ r # T
      BY <2>3, PickedIn
    <3>2. SumSteps(fun, r)
      BY <2>1, <3>1
    <3>3. sum[r] = IF r = {} THEN 0 ELSE fun[Picked(r)] + SumFunctionOnSet(fun, r \ {Picked(r)})
      BY <3>1
    <3> HIDE DEF r
    <3> QED BY <3>2, <3>3 DEF SumSteps, r
  <2>4. Summing(fun, T, sum)
    <3>1. \A s \in SUBSET T :
             (IF s = {} THEN 0 ELSE fun[Picked(s)] + SumFunctionOnSet(fun, s \ {Picked(s)}))
             = (IF s = {} THEN 0 ELSE fun[Picked(s)] + sum[s \ {Picked(s)}])
      <4> HIDE DEF sum
      <4> QED BY <2>3
    <3> DEFINE new == [s \in SUBSET T |->
                        IF s = {} THEN 0 ELSE fun[Picked(s)] + sum[s \ {Picked(s)}]]
    <3>2. sum = new
      BY <3>1
    <3> QED BY <3>2 DEF Summing
  <2>5. Summing(fun, T, iter)
    <3> HIDE DEF sum
    <3> QED BY <2>4
  <2>6. SumFunctionOnSet(fun, T) = iter[T]
    BY SumIsFold
  <2> HIDE DEF iter
  <2>7. iter[T] = IF T = {} THEN 0 ELSE fun[Picked(T)] + iter[T \ {Picked(T)}]
    BY <2>5 DEF Summing
  <2>8. CASE T = {}
    BY <2>6, <2>7, <2>8 DEF SumSteps
  <2>9. CASE T # {}
    <3> DEFINE r == T \ {Picked(T)}
    <3>1. r \subseteq T /\ r # T
      BY <2>9, PickedIn
    <3>2. \A U \in SUBSET r : SumSteps(fun, U)
      BY <2>1, <3>1
    <3> HIDE DEF r
    <3>3. iter[r] = SumFunctionOnSet(fun, r)
      <4>1. r \subseteq T
        BY <3>1
      <4> HIDE DEF sum
      <4> QED BY <2>2, <2>5, <3>2, <4>1, SummingAgrees
    <3> QED BY <2>6, <2>7, <2>9, <3>3 DEF SumSteps, r
  <2> QED BY <2>8, <2>9
<1>2. \A T \in SUBSET S : T \in Good
  <2> HIDE DEF Good
  <2> QED BY <1>1, FiniteInduction
<1> QED BY <1>2

\* The values of fun on T are integers.
IntOn(fun, T) == \A x \in T : fun[x] \in Int

LEMMA SumInt ==
    ASSUME NEW fun, NEW S, IsFiniteSet(S), IntOn(fun, S)
    PROVE  SumFunctionOnSet(fun, S) \in Int
<1> DEFINE Good == {T \in SUBSET S : SumFunctionOnSet(fun, T) \in Int}
<1>1. ASSUME NEW T \in SUBSET S, \A U \in SUBSET T : U # T => U \in Good
      PROVE  T \in Good
  <2>1. SumSteps(fun, T)
    BY FS_Subset, SumUnfolds
  <2>2. CASE T = {}
    BY <2>1, <2>2 DEF SumSteps
  <2>3. CASE T # {}
    <3>1. Picked(T) \in T
      BY <2>3, PickedIn
    <3>2. SumFunctionOnSet(fun, T \ {Picked(T)}) \in Int
      BY <1>1, <3>1
    <3>3. fun[Picked(T)] \in Int
      BY <3>1 DEF IntOn
    <3> QED BY <2>1, <2>3, <3>2, <3>3 DEF SumSteps
  <2> QED BY <2>2, <2>3
<1>2. \A T \in SUBSET S : T \in Good
  <2> HIDE DEF Good
  <2> QED BY <1>1, FiniteInduction
<1> QED BY <1>2

\* Any element can be taken out first.
LEMMA SumTake ==
    ASSUME NEW fun, NEW S, NEW y, IsFiniteSet(S), IntOn(fun, S), y \in S
    PROVE  SumFunctionOnSet(fun, S) = fun[y] + SumFunctionOnSet(fun, S \ {y})
<1> DEFINE Takes(T) == \A z \in T :
              SumFunctionOnSet(fun, T) = fun[z] + SumFunctionOnSet(fun, T \ {z})
           Good == {T \in SUBSET S : Takes(T)}
<1>1. ASSUME NEW T \in SUBSET S, \A U \in SUBSET T : U # T => U \in Good
      PROVE  T \in Good
  <2> SUFFICES ASSUME NEW z \in T
               PROVE  SumFunctionOnSet(fun, T) = fun[z] + SumFunctionOnSet(fun, T \ {z})
    OBVIOUS
  <2> DEFINE x == Picked(T)
  <2>1. x \in T
    BY PickedIn
  <2>2. SumFunctionOnSet(fun, T) = fun[x] + SumFunctionOnSet(fun, T \ {x})
    BY FS_Subset, SumUnfolds DEF SumSteps
  <2> HIDE DEF x
  <2>3. CASE z = x
    BY <2>2, <2>3
  <2>4. CASE z # x
    <3>1. T \ {x} \in Good /\ T \ {z} \in Good
      BY <1>1, <2>1
    <3>2. SumFunctionOnSet(fun, T \ {x}) = fun[z] + SumFunctionOnSet(fun, (T \ {x}) \ {z})
      BY <2>4, <3>1
    <3>3. SumFunctionOnSet(fun, T \ {z}) = fun[x] + SumFunctionOnSet(fun, (T \ {z}) \ {x})
      BY <2>1, <2>4, <3>1
    <3>4. (T \ {x}) \ {z} = (T \ {z}) \ {x}
      OBVIOUS
    <3> DEFINE rest == SumFunctionOnSet(fun, (T \ {x}) \ {z})
    <3>5. rest \in Int
      <4>1. IsFiniteSet((T \ {x}) \ {z})
        BY FS_Subset
      <4>2. IntOn(fun, (T \ {x}) \ {z})
        BY DEF IntOn
      <4> QED BY <4>1, <4>2, SumInt
    <3>6. fun[x] \in Int /\ fun[z] \in Int
      BY <2>1 DEF IntOn
    <3>7. SumFunctionOnSet(fun, T \ {z}) = fun[x] + rest
      BY <3>3, <3>4
    <3> HIDE DEF rest
    <3>8. SumFunctionOnSet(fun, T \ {x}) = fun[z] + rest
      BY <3>2 DEF rest
    <3> QED BY <2>2, <3>5, <3>6, <3>7, <3>8
  <2> QED BY <2>3, <2>4
<1>2. \A T \in SUBSET S : T \in Good
  <2> HIDE DEF Good
  <2> QED BY <1>1, FiniteInduction
<1> QED BY <1>2

\* Only the values at the rows matter.
LEMMA SumSame ==
    ASSUME NEW fun, NEW gun, NEW S, IsFiniteSet(S), \A x \in S : fun[x] = gun[x]
    PROVE  SumFunctionOnSet(fun, S) = SumFunctionOnSet(gun, S)
<1> DEFINE Good == {T \in SUBSET S : SumFunctionOnSet(fun, T) = SumFunctionOnSet(gun, T)}
<1>1. ASSUME NEW T \in SUBSET S, \A U \in SUBSET T : U # T => U \in Good
      PROVE  T \in Good
  <2>1. SumSteps(fun, T) /\ SumSteps(gun, T)
    BY FS_Subset, SumUnfolds
  <2>2. CASE T = {}
    BY <2>1, <2>2 DEF SumSteps
  <2>3. CASE T # {}
    <3>1. Picked(T) \in T
      BY <2>3, PickedIn
    <3>2. SumFunctionOnSet(fun, T \ {Picked(T)}) = SumFunctionOnSet(gun, T \ {Picked(T)})
      BY <1>1, <3>1
    <3>3. fun[Picked(T)] = gun[Picked(T)]
      BY <3>1
    <3> QED BY <2>1, <2>3, <3>2, <3>3 DEF SumSteps
  <2> QED BY <2>2, <2>3
<1>2. \A T \in SUBSET S : T \in Good
  <2> HIDE DEF Good
  <2> QED BY <1>1, FiniteInduction
<1> QED BY <1>2

\* More rows that give nothing away sum to no less.
LEMMA SumGrows ==
    ASSUME NEW fun, NEW S, NEW R, IsFiniteSet(S), IntOn(fun, S), R \subseteq S,
           \A x \in S \ R : fun[x] >= 0
    PROVE  SumFunctionOnSet(fun, R) <= SumFunctionOnSet(fun, S)
<1> DEFINE Good == {T \in SUBSET S :
              R \subseteq T => SumFunctionOnSet(fun, R) <= SumFunctionOnSet(fun, T)}
<1>1. ASSUME NEW T \in SUBSET S, \A U \in SUBSET T : U # T => U \in Good
      PROVE  T \in Good
  <2> SUFFICES ASSUME R \subseteq T
               PROVE  SumFunctionOnSet(fun, R) <= SumFunctionOnSet(fun, T)
    OBVIOUS
  <2>1. IsFiniteSet(T) /\ IntOn(fun, T)
    BY FS_Subset DEF IntOn
  <2>2. SumFunctionOnSet(fun, R) \in Int
    BY FS_Subset, SumInt DEF IntOn
  <2>3. CASE T = R
    BY <2>2, <2>3
  <2>4. CASE T # R
    <3>1. PICK x \in T : x \notin R
      BY <2>4
    <3>2. T \ {x} \in Good /\ R \subseteq T \ {x}
      BY <1>1, <3>1
    <3>3. SumFunctionOnSet(fun, R) <= SumFunctionOnSet(fun, T \ {x})
      BY <3>2
    <3>4. SumFunctionOnSet(fun, T) = fun[x] + SumFunctionOnSet(fun, T \ {x})
      BY <2>1, SumTake
    <3>5. SumFunctionOnSet(fun, T \ {x}) \in Int
      BY <2>1, FS_Subset, SumInt DEF IntOn
    <3>6. fun[x] \in Int /\ fun[x] >= 0
      BY <3>1 DEF IntOn
    <3> QED BY <2>2, <3>3, <3>4, <3>5, <3>6
  <2> QED BY <2>3, <2>4
<1>2. \A T \in SUBSET S : T \in Good
  <2> HIDE DEF Good
  <2> QED BY <1>1, FiniteInduction
<1>3. S \in Good
  BY <1>2
<1> QED BY <1>3

\* The sum over no rows.
LEMMA SumOfNone ==
    ASSUME NEW fun
    PROVE  SumFunctionOnSet(fun, {}) = 0
<1>1. SumSteps(fun, {})
  BY FS_EmptySet, SumUnfolds
<1> QED BY <1>1 DEF SumSteps

\* Less rows that take points away sum to no less.
LEMMA SumFalls ==
    ASSUME NEW fun, NEW S, NEW R, IsFiniteSet(S), IntOn(fun, S), R \subseteq S,
           \A x \in S \ R : fun[x] <= 0
    PROVE  SumFunctionOnSet(fun, S) <= SumFunctionOnSet(fun, R)
<1> DEFINE Good == {T \in SUBSET S :
              R \subseteq T => SumFunctionOnSet(fun, T) <= SumFunctionOnSet(fun, R)}
<1>1. ASSUME NEW T \in SUBSET S, \A U \in SUBSET T : U # T => U \in Good
      PROVE  T \in Good
  <2> SUFFICES ASSUME R \subseteq T
               PROVE  SumFunctionOnSet(fun, T) <= SumFunctionOnSet(fun, R)
    OBVIOUS
  <2>1. IsFiniteSet(T) /\ IntOn(fun, T)
    BY FS_Subset DEF IntOn
  <2>2. SumFunctionOnSet(fun, R) \in Int
    BY FS_Subset, SumInt DEF IntOn
  <2>3. CASE T = R
    BY <2>2, <2>3
  <2>4. CASE T # R
    <3>1. PICK x \in T : x \notin R
      BY <2>4
    <3>2. T \ {x} \in Good /\ R \subseteq T \ {x}
      BY <1>1, <3>1
    <3>3. SumFunctionOnSet(fun, T \ {x}) <= SumFunctionOnSet(fun, R)
      BY <3>2
    <3>4. SumFunctionOnSet(fun, T) = fun[x] + SumFunctionOnSet(fun, T \ {x})
      BY <2>1, SumTake
    <3>5. SumFunctionOnSet(fun, T \ {x}) \in Int
      BY <2>1, FS_Subset, SumInt DEF IntOn
    <3>6. fun[x] \in Int /\ fun[x] <= 0
      BY <3>1 DEF IntOn
    <3> QED BY <2>2, <3>3, <3>4, <3>5, <3>6
  <2> QED BY <2>3, <2>4
<1>2. \A T \in SUBSET S : T \in Good
  <2> HIDE DEF Good
  <2> QED BY <1>1, FiniteInduction
<1>3. S \in Good
  BY <1>2
<1> QED BY <1>3

LEMMA SumWith ==
    ASSUME NEW fun, NEW R, NEW n, IsFiniteSet(R), n \notin R,
           \A k \in R : fun[k] \in Int, fun[n] \in Int
    PROVE  SumFunctionOnSet(fun, R \cup {n}) = SumFunctionOnSet(fun, R) + fun[n]
<1> DEFINE S == R \cup {n}
<1>1. IsFiniteSet(S) /\ n \in S /\ S \ {n} = R /\ IntOn(fun, S) /\ IntOn(fun, R)
  BY FS_AddElement DEF IntOn
<1>2. SumFunctionOnSet(fun, R) \in Int
  BY <1>1, SumInt
<1> HIDE DEF S
<1>3. SumFunctionOnSet(fun, S) = fun[n] + SumFunctionOnSet(fun, S \ {n})
  BY <1>1, SumTake
<1>4. SumFunctionOnSet(fun, S) = SumFunctionOnSet(fun, R) + fun[n]
  <2>1. S \ {n} = R
    BY <1>1
  <2>2. SumFunctionOnSet(fun, S) = fun[n] + SumFunctionOnSet(fun, R)
    BY <1>3, <2>1, Zenon
  <2> QED BY <1>2, <2>2
<1> QED BY <1>4 DEF S

LEMMA SumChanges ==
    ASSUME NEW fun, NEW gun, NEW S, NEW y, IsFiniteSet(S), IntOn(fun, S), IntOn(gun, S), y \in S,
           \A x \in S : x # y => fun[x] = gun[x]
    PROVE  SumFunctionOnSet(gun, S) = SumFunctionOnSet(fun, S) - fun[y] + gun[y]
<1> DEFINE R == S \ {y}
<1>1. IsFiniteSet(R) /\ IntOn(fun, R)
  BY FS_RemoveElement DEF IntOn
<1>2. SumFunctionOnSet(fun, R) \in Int
  BY <1>1, SumInt
<1>3. SumFunctionOnSet(fun, R) = SumFunctionOnSet(gun, R)
  <2>1. \A x \in R : fun[x] = gun[x]
    OBVIOUS
  <2> HIDE DEF R
  <2> QED BY <1>1, <2>1, SumSame
<1>4. SumFunctionOnSet(fun, S) = fun[y] + SumFunctionOnSet(fun, R)
  BY SumTake
<1>5. SumFunctionOnSet(gun, S) = gun[y] + SumFunctionOnSet(gun, R)
  BY SumTake
<1>6. fun[y] \in Int /\ gun[y] \in Int
  BY DEF IntOn
<1> HIDE DEF R
<1> QED BY <1>2, <1>3, <1>4, <1>5, <1>6

\* A sum of votes is no less than all of them down.
LEMMA SumAtLeast ==
    ASSUME NEW fun, NEW S, IsFiniteSet(S), IntOn(fun, S), \A x \in S : fun[x] >= -1
    PROVE  SumFunctionOnSet(fun, S) >= -Cardinality(S)
<1> DEFINE Good == {T \in SUBSET S : SumFunctionOnSet(fun, T) >= -Cardinality(T)}
<1>1. ASSUME NEW T \in SUBSET S, \A U \in SUBSET T : U # T => U \in Good
      PROVE  T \in Good
  <2>1. IsFiniteSet(T) /\ IntOn(fun, T)
    BY FS_Subset DEF IntOn
  <2>2. CASE T = {}
    BY <2>2, SumOfNone, FS_EmptySet
  <2>3. CASE T # {}
    <3>1. PICK y \in T : TRUE
      BY <2>3
    <3> DEFINE R == T \ {y}
    <3>2. IsFiniteSet(R) /\ IntOn(fun, R)
      BY <2>1, FS_RemoveElement DEF IntOn
    <3>3. Cardinality(R) = Cardinality(T) - 1
      BY <2>1, <3>1, FS_RemoveElement
    <3>4. Cardinality(T) \in Nat
      BY <2>1, FS_CardinalityType
    <3>5. SumFunctionOnSet(fun, R) >= -Cardinality(R)
      BY <1>1, <3>1
    <3>6. SumFunctionOnSet(fun, T) = fun[y] + SumFunctionOnSet(fun, R)
      BY <2>1, <3>1, SumTake
    <3>7. SumFunctionOnSet(fun, R) \in Int
      BY <3>2, SumInt
    <3>8. fun[y] \in Int /\ fun[y] >= -1
      BY <3>1 DEF IntOn
    <3> HIDE DEF R
    <3>9. SumFunctionOnSet(fun, T) >= -Cardinality(T)
      BY <3>3, <3>4, <3>5, <3>6, <3>7, <3>8
    <3> QED BY <3>9
  <2> QED BY <2>2, <2>3
<1>2. \A T \in SUBSET S : T \in Good
  <2> HIDE DEF Good
  <2> QED BY <1>1, FiniteInduction
<1>3. S \in Good
  BY <1>2
<1> QED BY <1>3

-----------------------------------------------------------------------------
(* The cache.                                                              *)

\* The cached columns of a book agree with its rows.
Cached(b) == \A p \in Pillars : b.rep[p] = Balance(b.events, p)

\* recompute makes the cache agree, whatever it was.
LEMMA RecomputeCached ==
    ASSUME NEW events, NEW b
    PROVE  Cached(Recompute(events, b))
  BY DEF Cached, Recompute, Book

\* award keeps the cache in agreement, whether it books a row or not.
LEMMA AwardCached ==
    ASSUME NEW b, Cached(b), NEW reason, NEW weight, NEW source, NEW actor,
           NEW immediate, NEW spike
    PROVE  Cached(Award(b, reason, weight, source, actor, immediate, spike))
<1> DEFINE raw    == (Points[reason] * weight) \div 100
           p      == PillarOf[reason]
           points == IF raw > 0 THEN UnderCap(b, p, raw) ELSE AboveFloor(b, p, raw)
           state  == IF immediate \/ points <= 0 THEN "settled"
                     ELSE IF spike THEN "held" ELSE "provisional"
           event  == [reason |-> reason, pillar |-> p, points |-> points, source |-> source,
                      actor |-> actor, state |-> state]
<1>1. Award(b, reason, weight, source, actor, immediate, spike)
        = IF Barred(b, raw) THEN b ELSE Recompute(Append(b.events, event), b)
  BY Zenon DEF Award
<1>2. Cached(Recompute(Append(b.events, event), b))
  BY RecomputeCached, Zenon
<1> HIDE DEF raw, event
<1> QED BY <1>1, <1>2, Zenon

\* void_events and nullify_votes_between keep it.
LEMMA VoidCached ==
    ASSUME NEW b, Cached(b), NEW rows
    PROVE  Cached(VoidRows(b, rows))
<1>1. Cached(Recompute(Moved(b.events, rows, "void"), b))
  BY RecomputeCached
<1> QED BY <1>1 DEF VoidRows

\* A decay recomputes.
LEMMA DecayCached ==
    ASSUME NEW b
    PROVE  Cached(Decay(b))
  BY RecomputeCached, Zenon DEF Decay

\* settle_due keeps it although it does not recompute: a provisional row counts
\* before and after.
LEMMA SettleCached ==
    ASSUME NEW b, Cached(b), NEW due, due \subseteq Provisional(b)
    PROVE  Cached(Settle(b, due))
<1> DEFINE old == b.events
           new == Moved(b.events, due, "settled")
<1>1. DOMAIN new = DOMAIN old
  BY DEF Moved
<1>2. ASSUME NEW i \in DOMAIN old
      PROVE  /\ new[i].points = old[i].points
             /\ new[i].pillar = old[i].pillar
             /\ Counts(new[i]) <=> Counts(old[i])
  <2>1. new[i] = IF i \in due THEN InState(old[i], "settled") ELSE old[i]
    BY <1>2 DEF Moved
  <2>2. CASE i \in due
    <3>1. old[i].state = "provisional"
      BY <2>2 DEF Provisional
    <3>2. /\ new[i].points = old[i].points
          /\ new[i].pillar = old[i].pillar
          /\ new[i].state = "settled"
      BY <2>1, <2>2 DEF InState
    <3> QED BY <3>1, <3>2 DEF Counts
  <2>3. CASE i \notin due
    BY <2>1, <2>3
  <2> QED BY <2>2, <2>3
<1> HIDE DEF new, old
<1>3. ASSUME NEW p \in Pillars
      PROVE  Balance(new, p) = Balance(old, p)
  <2>1. {i \in DOMAIN new : new[i].pillar = p /\ Counts(new[i])}
          = {i \in DOMAIN old : old[i].pillar = p /\ Counts(old[i])}
    BY <1>1, <1>2
  <2>2. [i \in DOMAIN new |-> new[i].points] = [i \in DOMAIN old |-> old[i].points]
    BY <1>1, <1>2
  <2> QED BY <2>1, <2>2 DEF Balance, PointsOf
<1>4. Settle(b, due).events = new /\ Settle(b, due).rep = b.rep
  BY DEF Settle, Book, new
<1> QED BY <1>3, <1>4 DEF Cached, old

\* Freezing, lifting the freeze and a new month leave rows and cache alone.
LEMMA FlagsCached ==
    ASSUME NEW b, Cached(b)
    PROVE  Cached(FreezeIfNeeded(b)) /\ Cached(Unfrozen(b)) /\ Cached(NewMonth(b))
  BY DEF Cached, FreezeIfNeeded, Unfrozen, NewMonth, Book

-----------------------------------------------------------------------------
\* The penalties of an upheld report, with or without the removal.
LEMMA ReportCached ==
    ASSUME NEW b, Cached(b), NEW i, NEW reason
    PROVE  /\ Cached(ReportPenalty(b, i, reason))
           /\ Cached(RemovalPenalty(b, i))
<1>1. Cached(ReportPenalty(b, i, reason))
  BY AwardCached, FlagsCached, Zenon DEF ReportPenalty
<1>2. Cached(VoidSource(b, Content(i)))
  BY VoidCached, Zenon DEF VoidSource
<1>3. Cached(RemovalPenalty(b, i))
  BY <1>2, AwardCached, Zenon DEF RemovalPenalty
<1> QED BY <1>1, <1>3

\* "User.rep_* is a cache recomputed from the ledger" (reputation.py:6-8): with
\* sessions one after another, for every value of the constants.
THEOREM CacheCorrect == Spec => []CacheMatchesLedger
<1> USE DEF CacheMatchesLedger
<1>1. Init => CacheMatchesLedger
  <2> SUFFICES ASSUME Init, NEW p \in Pillars
               PROVE  book.rep[p] = Balance(book.events, p)
    OBVIOUS
  <2>1. book.events = <<>> /\ book.rep[p] = 0
    BY DEF Init, EmptyBook, Book
  <2>2. {i \in DOMAIN <<>> : <<>>[i].pillar = p /\ Counts(<<>>[i])} = {}
    OBVIOUS
  <2>3. Balance(<<>>, p) = 0
    BY <2>2, SumOfNone DEF Balance, PointsOf
  <2> QED BY <2>1, <2>3
<1>2. CacheMatchesLedger /\ [Next]_vars => CacheMatchesLedger'
  <2> SUFFICES ASSUME Cached(book), [Next]_vars PROVE Cached(book')
    BY DEF Cached
  <2>1. ASSUME NEW p \in Posts, PublishText(p) PROVE Cached(book')
    BY <2>1, Zenon DEF PublishText
  <2>2. ASSUME NEW p \in Posts, PublishPoll(p) PROVE Cached(book')
    BY <2>2, AwardCached, Zenon DEF PublishPoll
  <2>3. ASSUME NEW a \in Answers, PostAnswer(a) PROVE Cached(book')
    BY <2>3, AwardCached, Zenon DEF PostAnswer
  <2>4. ASSUME NEW i \in Items, SubmitAppeal(i) PROVE Cached(book')
    BY <2>4, Zenon DEF SubmitAppeal
  <2>5. ASSUME NEW v \in Voters, NEW i \in Items, Upvote(v, i) PROVE Cached(book')
    <3>1. PICK shared \in SameDevice, spike \in VelocityHold : \E weight \in Weighed(shared) :
              IF weight > 0 THEN Fits(1) /\ book' = AwardUpvote(v, i, weight, spike)
              ELSE UNCHANGED book
      BY <2>5, Zenon DEF Upvote
    <3>2. PICK weight \in Weighed(shared) :
              IF weight > 0 THEN Fits(1) /\ book' = AwardUpvote(v, i, weight, spike)
              ELSE UNCHANGED book
      BY <3>1, Zenon
    <3>3. Cached(AwardUpvote(v, i, weight, spike))
      BY AwardCached, Zenon DEF AwardUpvote
    <3>4. book' = AwardUpvote(v, i, weight, spike) \/ book' = book
      BY <3>2, Zenon
    <3> QED BY <3>3, <3>4, Zenon
  <2>6. ASSUME NEW v \in Voters, NEW i \in Items, Downvote(v, i) PROVE Cached(book')
    BY <2>6, Zenon DEF Downvote
  <2>7. ASSUME NEW v \in Voters, NEW i \in Items, WithdrawVote(v, i) PROVE Cached(book')
    BY <2>7, VoidCached, Zenon DEF WithdrawVote, VoidSource
  <2>8. ASSUME NEW v \in Voters, NEW i \in Items, FlipVote(v, i) PROVE Cached(book')
    BY <2>8, Zenon DEF FlipVote
  <2>9. ASSUME NEW p \in Posts, DeletePost(p) PROVE Cached(book')
    BY <2>9, VoidCached, Zenon DEF DeletePost, VoidSource
  <2>10. ASSUME NEW i \in Items, UpholdReport(i) PROVE Cached(book')
    <3>1. PICK reason \in {"report_upheld", "harassment_upheld"} :
              \/ book' = ReportPenalty(book, i, reason)
              \/ book' = ReportPenalty(RemovalPenalty(book, i), i, reason)
      BY <2>10, Zenon DEF UpholdReport
    <3>2. Cached(RemovalPenalty(book, i))
      BY ReportCached, Zenon
    <3> QED BY <3>1, <3>2, ReportCached, Zenon
  <2>11. ASSUME NEW i \in Items, UpholdAppeal(i) PROVE Cached(book')
    <3>1. book' = Reversed(i)
      BY <2>11, Zenon DEF UpholdAppeal
    <3>2. Cached(Reversed(i))
      BY RecomputeCached, Zenon DEF Reversed
    <3> QED BY <3>1, <3>2, Zenon
  <2>12. ASSUME NEW i \in Items, DenyAppeal(i) PROVE Cached(book')
    BY <2>12, Zenon DEF DenyAppeal
  <2>13. CASE Verify
    BY <2>13, AwardCached, Zenon DEF Verify
  <2>14. CASE Unfreeze
    BY <2>14, FlagsCached, Zenon DEF Unfreeze
  <2>15. CASE SettleDue
    <3>1. PICK due \in SUBSET Provisional(book) : book' = Settle(book, due)
      BY <2>15, Zenon DEF SettleDue
    <3> QED BY <3>1, SettleCached
  <2>16. CASE ApplyDecay
    BY <2>16, DecayCached, Zenon DEF ApplyDecay
  <2>17. ASSUME NEW v \in Voters, NullifyRing(v) PROVE Cached(book')
    BY <2>17, VoidCached, Zenon DEF NullifyRing, Nullify
  <2>18. CASE MonthEnds
    BY <2>18, FlagsCached, Zenon DEF MonthEnds
  <2>19. CASE ThirtyDaysAway
    BY <2>19, Zenon DEF ThirtyDaysAway
  <2>20. CASE Visit
    BY <2>20, Zenon DEF Visit
  <2>21. CASE UNCHANGED vars
    BY <2>21, Zenon DEF vars
  <2>22. CASE Author
    BY <2>22, <2>1, <2>2, <2>3, <2>4, <2>20, Zenon DEF Author
  <2>23. CASE Members
    BY <2>23, <2>5, <2>6, <2>7, <2>8, Zenon DEF Members, CastVote
  <2>24. CASE Staff
    BY <2>24, <2>9, <2>10, <2>11, <2>12, <2>13, <2>14, Zenon DEF Staff
  <2>25. CASE Jobs
    BY <2>25, <2>15, <2>16, <2>17, Zenon DEF Jobs
  <2> QED BY <2>18, <2>19, <2>21, <2>22, <2>23, <2>24, <2>25, Zenon DEF Next
<1> QED BY <1>1, <1>2, PTL DEF Spec

-----------------------------------------------------------------------------
(* Which rows may be there.                                                *)

\* The rows of new are those of old, a void one still void, and rows of added,
\* a set of pairs of a reason and a source.
Descends(old, new, added) ==
    /\ new \in Seq(Range(new))
    /\ \A k \in DOMAIN new :
          \/ /\ k \in DOMAIN old
             /\ new[k].reason = old[k].reason /\ new[k].source = old[k].source
             /\ old[k].state = "void" => new[k].state = "void"
          \/ <<new[k].reason, new[k].source>> \in added

\* All rows of this source are void.
AllVoid(events, source) ==
    \A k \in DOMAIN events : events[k].source = source => events[k].state = "void"

\* All penalties for the removal of this item are void.
Forgiven(events, i) ==
    \A k \in DOMAIN events :
        events[k].source = Content(i) /\ events[k].reason = "content_removed"
            => events[k].state = "void"

\* Content that is not down, published or not yet, carries no removal penalty.
PenaltyIsOnRemoved == \A i \in Items : status[i] # "removed" => Forgiven(book.events, i)

IInv ==
    /\ book.events \in Seq(Range(book.events))
    /\ status \in [Items -> {"absent", "active", "removed"}]
    /\ vote \in [Voters -> [Items -> {-1, 0, 1}]]
    /\ WithdrawnVoteEarnsNothing
    /\ PenaltyIsOnRemoved

-----------------------------------------------------------------------------
(* Sources.                                                                *)

\* The row of a vote is no content, no report and not "none".
LEMMA VoteRowIsNoOther ==
    ASSUME NEW v, NEW i, NEW j
    PROVE  /\ VoteRow(v, i) # Content(j)
           /\ VoteRow(v, i) # <<"report", j>>
           /\ VoteRow(v, i) # <<"none">>
<1>1. Len(VoteRow(v, i)) = 3
  BY DEF VoteRow
<1>2. Len(Content(j)) = 2 /\ Len(<<"report", j>>) = 2 /\ Len(<<"none">>) = 1
  BY DEF Content
<1> QED BY <1>1, <1>2

LEMMA VoteRowsDiffer ==
    ASSUME NEW v, NEW i, NEW w, NEW j, VoteRow(v, i) = VoteRow(w, j)
    PROVE  v = w /\ i = j
  BY DEF VoteRow

LEMMA ContentsDiffer ==
    ASSUME NEW i, NEW j, Content(i) = Content(j)
    PROVE  i = j
  BY DEF Content

-----------------------------------------------------------------------------
(* What the functions of Ledger do to the rows.                            *)

LEMMA DescendsTransitive ==
    ASSUME NEW old, NEW mid, NEW new, NEW some, NEW more,
           Descends(old, mid, some), Descends(mid, new, more)
    PROVE  Descends(old, new, some \cup more)
  BY DEF Descends

LEMMA DescendsSelf ==
    ASSUME NEW rows, rows \in Seq(Range(rows)), NEW added
    PROVE  Descends(rows, rows, added)
  BY DEF Descends

LEMMA AppendDescends ==
    ASSUME NEW rows, rows \in Seq(Range(rows)), NEW e
    PROVE  Descends(rows, Append(rows, e), {<<e.reason, e.source>>})
<1> DEFINE all == Range(rows) \cup {e}
           new == Append(rows, e)
<1>1. rows \in Seq(all)
  OBVIOUS
<1>2. /\ new \in Seq(all)
      /\ Len(new) = Len(rows) + 1
      /\ \A k \in 1..Len(rows) : new[k] = rows[k]
      /\ new[Len(rows) + 1] = e
  BY <1>1, AppendProperties
<1>3. DOMAIN new = 1..(Len(rows) + 1) /\ DOMAIN rows = 1..Len(rows) /\ Len(rows) \in Nat
  BY <1>1, <1>2
<1> HIDE DEF new
<1>4. new \in Seq(Range(new))
  BY <1>2, <1>3 DEF Range
<1>5. ASSUME NEW k \in DOMAIN new
      PROVE  (k \in DOMAIN rows /\ new[k] = rows[k]) \/ new[k] = e
  BY <1>2, <1>3, <1>5
<1> QED BY <1>4, <1>5 DEF Descends, new

LEMMA MovedDescends ==
    ASSUME NEW rows, rows \in Seq(Range(rows)), NEW which, NEW state,
           state = "void" \/ \A k \in DOMAIN rows : k \in which => rows[k].state # "void"
    PROVE  Descends(rows, Moved(rows, which, state), {})
<1> DEFINE new == Moved(rows, which, state)
<1>1. DOMAIN new = DOMAIN rows
  BY DEF Moved
<1>2. ASSUME NEW k \in DOMAIN rows
      PROVE  /\ new[k].reason = rows[k].reason
             /\ new[k].source = rows[k].source
             /\ rows[k].state = "void" => new[k].state = "void"
  <2>1. new[k] = IF k \in which THEN InState(rows[k], state) ELSE rows[k]
    BY <1>2 DEF Moved
  <2> HIDE DEF new
  <2>2. CASE k \in which
    <3>1. /\ new[k].reason = rows[k].reason
          /\ new[k].source = rows[k].source
          /\ new[k].state = state
      BY <2>1, <2>2 DEF InState
    <3> QED BY <3>1, <2>2
  <2>3. CASE k \notin which
    BY <2>1, <2>3
  <2> QED BY <2>2, <2>3
<1> HIDE DEF new
<1>3. Len(rows) \in Nat /\ DOMAIN rows = 1..Len(rows)
  OBVIOUS
<1>4. new \in Seq(Range(new))
  <2>1. new = [k \in 1..Len(rows) |-> new[k]]
    BY <1>1, <1>3 DEF new, Moved
  <2>2. \A k \in 1..Len(rows) : new[k] \in Range(new)
    BY <1>1, <1>3 DEF Range
  <2> QED BY <2>1, <2>2, <1>3
<1> QED BY <1>1, <1>2, <1>4 DEF Descends, new

-----------------------------------------------------------------------------
(* The same of books.                                                      *)

BookDescends(b, c, added) == Descends(b.events, c.events, added)

LEMMA RecomputeRows ==
    ASSUME NEW events, NEW b
    PROVE  Recompute(events, b).events = events
  BY DEF Recompute, Book

LEMMA AwardDescends ==
    ASSUME NEW b, b.events \in Seq(Range(b.events)), NEW reason, NEW weight, NEW source,
           NEW actor, NEW immediate, NEW spike
    PROVE  BookDescends(b, Award(b, reason, weight, source, actor, immediate, spike),
                        {<<reason, source>>})
<1> DEFINE raw    == (Points[reason] * weight) \div 100
           p      == PillarOf[reason]
           points == IF raw > 0 THEN UnderCap(b, p, raw) ELSE AboveFloor(b, p, raw)
           state  == IF immediate \/ points <= 0 THEN "settled"
                     ELSE IF spike THEN "held" ELSE "provisional"
           event  == [reason |-> reason, pillar |-> p, points |-> points, source |-> source,
                      actor |-> actor, state |-> state]
<1>1. Award(b, reason, weight, source, actor, immediate, spike)
        = IF Barred(b, raw) THEN b ELSE Recompute(Append(b.events, event), b)
  BY Zenon DEF Award
<1> HIDE DEF raw, p, points, state
<1>2. event.reason = reason /\ event.source = source
  OBVIOUS
<1> HIDE DEF event
<1>3. Descends(b.events, Append(b.events, event), {<<reason, source>>})
  BY <1>2, AppendDescends
<1>4. Descends(b.events, b.events, {<<reason, source>>})
  BY DescendsSelf
<1>5. Recompute(Append(b.events, event), b).events = Append(b.events, event)
  BY RecomputeRows
<1> QED BY <1>1, <1>3, <1>4, <1>5, Zenon DEF BookDescends

LEMMA VoidDescends ==
    ASSUME NEW b, b.events \in Seq(Range(b.events)), NEW rows
    PROVE  BookDescends(b, VoidRows(b, rows), {})
<1>1. Descends(b.events, Moved(b.events, rows, "void"), {})
  BY MovedDescends
<1>2. Descends(b.events, b.events, {})
  BY DescendsSelf
<1> QED BY <1>1, <1>2, RecomputeRows DEF VoidRows, BookDescends

\* void_events voids every row of the source.
LEMMA VoidSourceVoids ==
    ASSUME NEW b, b.events \in Seq(Range(b.events)), NEW source
    PROVE  /\ BookDescends(b, VoidSource(b, source), {})
           /\ AllVoid(VoidSource(b, source).events, source)
<1> DEFINE rows == {k \in DOMAIN b.events : b.events[k].source = source /\ b.events[k].state # "void"}
           new == Moved(b.events, rows, "void")
<1>1. VoidSource(b, source).events = IF rows = {} THEN b.events ELSE new
  BY RecomputeRows DEF VoidSource, VoidRows
<1>2. AllVoid(b.events, source) \/ rows # {}
  BY DEF AllVoid
<1>3. DOMAIN new = DOMAIN b.events
  BY DEF Moved
<1>4. ASSUME NEW k \in DOMAIN b.events, new[k].source = source
      PROVE  new[k].state = "void"
  <2>1. new[k] = IF k \in rows THEN InState(b.events[k], "void") ELSE b.events[k]
    BY DEF Moved
  <2>2. CASE k \in rows
    BY <2>1, <2>2 DEF InState
  <2>3. CASE k \notin rows
    BY <1>4, <2>1, <2>3
  <2> QED BY <2>2, <2>3
<1>5. AllVoid(new, source)
  <2> HIDE DEF new, rows
  <2> QED BY <1>3, <1>4 DEF AllVoid
<1>6. AllVoid(VoidSource(b, source).events, source)
  <2> HIDE DEF new
  <2> QED BY <1>1, <1>2, <1>5
<1>7. BookDescends(b, VoidSource(b, source), {})
  BY VoidDescends, Zenon DEF VoidSource
<1> QED BY <1>6, <1>7

LEMMA SettleDescends ==
    ASSUME NEW b, b.events \in Seq(Range(b.events)), NEW due \in SUBSET Provisional(b)
    PROVE  BookDescends(b, Settle(b, due), {})
<1>1. \A k \in DOMAIN b.events : k \in due => b.events[k].state # "void"
  BY DEF Provisional
<1>2. Descends(b.events, Moved(b.events, due, "settled"), {})
  BY <1>1, MovedDescends
<1> QED BY <1>2 DEF Settle, Book, BookDescends

LEMMA DecayDescends ==
    ASSUME NEW b, b.events \in Seq(Range(b.events))
    PROVE  BookDescends(b, Decay(b), {<<"inactivity_decay", <<"none">>>>})
<1> DEFINE event == [reason |-> "inactivity_decay", pillar |-> LargestPillar(b),
                     points |-> -DecayOf(Total(b)), source |-> <<"none">>, actor |-> "none",
                     state |-> "settled"]
<1>1. Decay(b) = Recompute(Append(b.events, event), b)
  BY Zenon DEF Decay
<1>2. event.reason = "inactivity_decay" /\ event.source = <<"none">>
  OBVIOUS
<1> HIDE DEF event
<1>3. Descends(b.events, Append(b.events, event), {<<"inactivity_decay", <<"none">>>>})
  BY <1>2, AppendDescends
<1> QED BY <1>1, <1>3, RecomputeRows, Zenon DEF BookDescends

LEMMA FlagsKeepRows ==
    ASSUME NEW b
    PROVE  /\ FreezeIfNeeded(b).events = b.events
           /\ Unfrozen(b).events = b.events
           /\ NewMonth(b).events = b.events
  BY DEF FreezeIfNeeded, Unfrozen, NewMonth, Book

\* The two penalties of an upheld report have the report and the content as source.
LEMMA PenaltiesDescend ==
    ASSUME NEW b, b.events \in Seq(Range(b.events)), NEW i, NEW reason
    PROVE  /\ BookDescends(b, ReportPenalty(b, i, reason), {<<reason, <<"report", i>>>>})
           /\ BookDescends(b, RemovalPenalty(b, i), {<<"content_removed", Content(i)>>})
<1> DEFINE hit == Award(b, reason, 100, <<"report", i>>, "staff", TRUE, FALSE)
<1>1. BookDescends(b, ReportPenalty(b, i, reason), {<<reason, <<"report", i>>>>})
  <2>1. BookDescends(b, hit, {<<reason, <<"report", i>>>>})
    BY AwardDescends
  <2>2. ReportPenalty(b, i, reason) = FreezeIfNeeded(hit)
    BY DEF ReportPenalty
  <2> HIDE DEF hit
  <2>3. ReportPenalty(b, i, reason).events = hit.events
    BY <2>2, FlagsKeepRows
  <2> QED BY <2>1, <2>3 DEF BookDescends
<1> DEFINE mid == VoidSource(b, Content(i))
           new == RemovalPenalty(b, i)
           added == {<<"content_removed", Content(i)>>}
<1>2. BookDescends(b, mid, {})
  BY VoidSourceVoids
<1>3. mid.events \in Seq(Range(mid.events))
  BY <1>2 DEF BookDescends, Descends
<1>4. BookDescends(mid, new, added)
  <2>1. new = Award(mid, "content_removed", 100, Content(i), "staff", TRUE, FALSE)
    BY DEF RemovalPenalty
  <2> HIDE DEF mid, new
  <2> QED BY <2>1, <1>3, AwardDescends
<1>5. Descends(b.events, new.events, {} \cup added)
  <2> HIDE DEF mid, new, added
  <2> QED BY <1>2, <1>4, DescendsTransitive DEF BookDescends
<1>6. {} \cup added = added
  OBVIOUS
<1> QED BY <1>1, <1>5, <1>6 DEF BookDescends

-----------------------------------------------------------------------------
(* A step of the system.                                                   *)

StatusTyped == status \in [Items -> {"absent", "active", "removed"}]

VoteTyped == vote \in [Voters -> [Items -> {-1, 0, 1}]]

\* A step that appends no row of a vote that does not stand, and withdraws a
\* vote only with its rows; that appends no penalty of content that is not
\* down, and puts content up only with its penalties.
LEMMA StepKeeps ==
    ASSUME IInv, NEW added, BookDescends(book, book', added), StatusTyped', VoteTyped',
           \A v \in Voters, i \in Items : vote'[v][i] = 0 =>
              /\ vote[v][i] = 0 \/ AllVoid(book'.events, VoteRow(v, i))
              /\ \A a \in added : a[2] # VoteRow(v, i),
           \A i \in Items : status'[i] # "removed" =>
              /\ status[i] # "removed" \/ Forgiven(book'.events, i)
              /\ <<"content_removed", Content(i)>> \notin added
    PROVE  IInv'
<1>1. book'.events \in Seq(Range(book'.events))
  BY DEF BookDescends, Descends
<1>2. ASSUME NEW v \in Voters, NEW i \in Items, vote'[v][i] = 0,
             NEW k \in DOMAIN book'.events, book'.events[k].source = VoteRow(v, i)
      PROVE  book'.events[k].state = "void"
  <2>1. <<book'.events[k].reason, book'.events[k].source>> \notin added
    BY <1>2
  <2>2. CASE vote[v][i] = 0
    <3>1. \A j \in DOMAIN book.events :
              book.events[j].source = VoteRow(v, i) => book.events[j].state = "void"
      BY <2>2 DEF IInv, WithdrawnVoteEarnsNothing
    <3> QED BY <1>2, <2>1, <3>1 DEF BookDescends, Descends
  <2>3. CASE AllVoid(book'.events, VoteRow(v, i))
    BY <1>2, <2>3 DEF AllVoid
  <2> QED BY <1>2, <2>2, <2>3
<1>3. ASSUME NEW i \in Items, status'[i] # "removed", NEW k \in DOMAIN book'.events,
             book'.events[k].source = Content(i), book'.events[k].reason = "content_removed"
      PROVE  book'.events[k].state = "void"
  <2>1. <<book'.events[k].reason, book'.events[k].source>> \notin added
    BY <1>3
  <2>2. CASE status[i] # "removed"
    <3>1. Forgiven(book.events, i)
      BY <2>2 DEF IInv, PenaltyIsOnRemoved
    <3> QED BY <1>3, <2>1, <3>1 DEF BookDescends, Descends, Forgiven
  <2>3. CASE Forgiven(book'.events, i)
    BY <1>3, <2>3 DEF Forgiven
  <2> QED BY <1>3, <2>2, <2>3
<1>4. WithdrawnVoteEarnsNothing'
  BY <1>2 DEF WithdrawnVoteEarnsNothing
<1>5. PenaltyIsOnRemoved'
  BY <1>3 DEF PenaltyIsOnRemoved, Forgiven
<1> QED BY <1>1, <1>4, <1>5 DEF IInv, StatusTyped, VoteTyped

\* A step that leaves votes and statuses alone need only append harmless rows.
LEMMA QuietStepKeeps ==
    ASSUME IInv, NEW added, BookDescends(book, book', added), UNCHANGED <<status, vote>>,
           \A v \in Voters, i \in Items : \A a \in added : a[2] # VoteRow(v, i),
           \A i \in Items : <<"content_removed", Content(i)>> \notin added
    PROVE  IInv'
<1>1. StatusTyped' /\ VoteTyped'
  BY DEF IInv, StatusTyped, VoteTyped
<1>2. \A v \in Voters, i \in Items : vote'[v][i] = vote[v][i] /\ status'[i] = status[i]
  OBVIOUS
<1> QED BY <1>1, <1>2, StepKeeps

\* A step that leaves the ledger alone.
LEMMA SameRows ==
    ASSUME IInv, book'.events = book.events
    PROVE  BookDescends(book, book', {})
  BY DescendsSelf DEF IInv, BookDescends

-----------------------------------------------------------------------------
(* Publishing and voting.                                                  *)

LEMMA PublishedMoves ==
    ASSUME IInv, NEW i \in Items, Published(i)
    PROVE  /\ StatusTyped' /\ VoteTyped' /\ UNCHANGED vote
           /\ \A j \in Items : status'[j] # "removed" => status[j] # "removed"
  BY DEF IInv, Published, StatusTyped, VoteTyped

LEMMA PublishStep ==
    ASSUME IInv, NEW i \in Items, Published(i), NEW reason, reason # "content_removed",
           BookDescends(book, book', {<<reason, Content(i)>>})
    PROVE  IInv'
<1>1. /\ StatusTyped' /\ VoteTyped' /\ UNCHANGED vote
      /\ \A j \in Items : status'[j] # "removed" => status[j] # "removed"
  BY PublishedMoves
<1>2. \A v \in Voters, j \in Items : VoteRow(v, j) # Content(i)
  BY VoteRowIsNoOther
<1>3. \A j \in Items : <<"content_removed", Content(j)>> # <<reason, Content(i)>>
  OBVIOUS
<1> QED BY <1>1, <1>2, <1>3, StepKeeps

LEMMA PublishTextStep ==
    ASSUME IInv, NEW p \in Posts, PublishText(p)
    PROVE  IInv'
<1>1. BookDescends(book, book', {<<"published", Content(p)>>})
  BY DescendsSelf DEF IInv, PublishText, BookDescends
<1> QED BY <1>1, PublishStep DEF PublishText, Items

LEMMA PublishPollStep ==
    ASSUME IInv, NEW p \in Posts, PublishPoll(p)
    PROVE  IInv'
<1>1. BookDescends(book, book', {<<"poll_created", Content(p)>>})
  <2>1. PICK spike \in VelocityHold :
            book' = Award(book, "poll_created", 100, Content(p), "none", FALSE, spike)
    BY Zenon DEF PublishPoll
  <2>2. book.events \in Seq(Range(book.events))
    BY DEF IInv
  <2> QED BY <2>1, <2>2, AwardDescends
<1> QED BY <1>1, PublishStep DEF PublishPoll, Items

LEMMA PostAnswerStep ==
    ASSUME IInv, NEW a \in Answers, PostAnswer(a)
    PROVE  IInv'
<1>1. BookDescends(book, book', {<<"answer_posted", Content(a)>>})
  <2>1. PICK spike \in VelocityHold :
            book' = Award(book, "answer_posted", 100, Content(a), "none", FALSE, spike)
    BY Zenon DEF PostAnswer
  <2>2. book.events \in Seq(Range(book.events))
    BY DEF IInv
  <2> QED BY <2>1, <2>2, AwardDescends
<1> QED BY <1>1, PublishStep DEF PostAnswer, Items

LEMMA SetVoteMoves ==
    ASSUME IInv, NEW v \in Voters, NEW i \in Items, NEW value \in {-1, 0, 1}, SetVote(v, i, value)
    PROVE  /\ VoteTyped'
           /\ vote'[v][i] = value
           /\ \A w \in Voters, j \in Items : w # v \/ j # i => vote'[w][j] = vote[w][j]
  BY DEF IInv, SetVote, VoteTyped

\* A vote that stands may have a row, which is its own and no one else's.
LEMMA StandingVoteStep ==
    ASSUME IInv, NEW v \in Voters, NEW i \in Items, NEW value \in {-1, 1}, SetVote(v, i, value),
           UNCHANGED status, BookDescends(book, book', {<<Reason(i), VoteRow(v, i)>>})
    PROVE  IInv'
<1>1. /\ VoteTyped'
      /\ vote'[v][i] # 0
      /\ \A w \in Voters, j \in Items : w # v \/ j # i => vote'[w][j] = vote[w][j]
  BY SetVoteMoves
<1>2. StatusTyped'
  BY DEF IInv, StatusTyped
<1>3. \A w \in Voters, j \in Items : vote'[w][j] = 0 =>
          vote[w][j] = 0 /\ VoteRow(v, i) # VoteRow(w, j)
  BY <1>1, VoteRowsDiffer
<1>4. \A j \in Items : <<"content_removed", Content(j)>> # <<Reason(i), VoteRow(v, i)>>
  BY DEF Reason
<1> QED BY <1>1, <1>2, <1>3, <1>4, StepKeeps

LEMMA UpvoteStep ==
    ASSUME IInv, NEW v \in Voters, NEW i \in Items, Upvote(v, i)
    PROVE  IInv'
<1>1. PICK shared \in SameDevice, spike \in VelocityHold : \E weight \in Weighed(shared) :
          IF weight > 0 THEN Fits(1) /\ book' = AwardUpvote(v, i, weight, spike)
          ELSE UNCHANGED book
  BY Zenon DEF Upvote
<1>2. PICK weight \in Weighed(shared) :
          IF weight > 0 THEN Fits(1) /\ book' = AwardUpvote(v, i, weight, spike)
          ELSE UNCHANGED book
  BY <1>1, Zenon
<1>3. BookDescends(book, AwardUpvote(v, i, weight, spike), {<<Reason(i), VoteRow(v, i)>>})
  BY AwardDescends DEF IInv, AwardUpvote
<1>4. BookDescends(book, book, {<<Reason(i), VoteRow(v, i)>>})
  BY DescendsSelf DEF IInv, BookDescends
<1>5. BookDescends(book, book', {<<Reason(i), VoteRow(v, i)>>})
  BY <1>2, <1>3, <1>4, Zenon
<1>6. SetVote(v, i, 1) /\ UNCHANGED status
  BY Zenon DEF Upvote
<1> QED BY <1>5, <1>6, StandingVoteStep

LEMMA DownvoteStep ==
    ASSUME IInv, NEW v \in Voters, NEW i \in Items, Downvote(v, i)
    PROVE  IInv'
<1>1. BookDescends(book, book', {<<Reason(i), VoteRow(v, i)>>})
  BY DescendsSelf DEF IInv, Downvote, BookDescends
<1> QED BY <1>1, StandingVoteStep DEF Downvote

\* A flip keeps the row of the vote, which still stands.
LEMMA FlipVoteStep ==
    ASSUME IInv, NEW v \in Voters, NEW i \in Items, FlipVote(v, i)
    PROVE  IInv'
<1>1. BookDescends(book, book', {<<Reason(i), VoteRow(v, i)>>})
  BY DescendsSelf DEF IInv, FlipVote, BookDescends
<1>2. -vote[v][i] \in {-1, 1}
  BY DEF IInv, FlipVote
<1>3. SetVote(v, i, -vote[v][i]) /\ UNCHANGED status
  BY DEF FlipVote
<1>4. PICK value \in {-1, 1} : value = -vote[v][i]
  BY <1>2
<1>5. SetVote(v, i, value)
  BY <1>3, <1>4
<1> QED BY <1>1, <1>3, <1>5, StandingVoteStep

\* A withdrawal voids what the vote earned.
LEMMA WithdrawVoteStep ==
    ASSUME IInv, NEW v \in Voters, NEW i \in Items, WithdrawVote(v, i)
    PROVE  IInv'
<1>1. /\ VoteTyped'
      /\ \A w \in Voters, j \in Items : w # v \/ j # i => vote'[w][j] = vote[w][j]
  BY SetVoteMoves DEF WithdrawVote
<1>2. StatusTyped' /\ UNCHANGED status
  BY DEF IInv, StatusTyped, WithdrawVote
<1>3. /\ BookDescends(book, book', {})
      /\ AllVoid(book'.events, VoteRow(v, i))
  BY VoidSourceVoids DEF IInv, WithdrawVote
<1>4. \A w \in Voters, j \in Items : vote'[w][j] = 0 =>
          vote[w][j] = 0 \/ AllVoid(book'.events, VoteRow(w, j))
  BY <1>1, <1>3
<1> QED BY <1>1, <1>2, <1>3, <1>4, StepKeeps

-----------------------------------------------------------------------------
(* Removal and restoration.                                                *)

\* Items that go down, or stay down, may get their penalty.
LEMMA RemovalStep ==
    ASSUME IInv, NEW i \in Items, UNCHANGED vote,
           status' = [status EXCEPT ![i] = "removed"], NEW reason, reason # "content_removed",
           BookDescends(book, book',
               {<<"content_removed", Content(i)>>, <<reason, <<"report", i>>>>})
    PROVE  IInv'
<1>1. /\ StatusTyped' /\ VoteTyped'
      /\ \A j \in Items : status'[j] # "removed" => status[j] # "removed" /\ j # i
  BY DEF IInv, StatusTyped, VoteTyped
<1>2. \A j \in Items : j # i =>
          /\ <<"content_removed", Content(j)>> # <<"content_removed", Content(i)>>
          /\ <<"content_removed", Content(j)>> # <<reason, <<"report", i>>>>
  BY ContentsDiffer
<1>3. \A v \in Voters, j \in Items :
          VoteRow(v, j) # Content(i) /\ VoteRow(v, j) # <<"report", i>>
  BY VoteRowIsNoOther
<1> QED BY <1>1, <1>2, <1>3, StepKeeps

LEMMA DeletePostStep ==
    ASSUME IInv, NEW p \in Posts, DeletePost(p)
    PROVE  IInv'
<1>1. BookDescends(book, book', {})
  BY VoidSourceVoids DEF IInv, DeletePost
<1>2. BookDescends(book, book',
          {<<"content_removed", Content(p)>>, <<"deleted", <<"report", p>>>>})
  BY <1>1 DEF BookDescends, Descends
<1> QED BY <1>2, RemovalStep DEF DeletePost, Items

LEMMA UpholdReportStep ==
    ASSUME IInv, NEW i \in Items, UpholdReport(i)
    PROVE  IInv'
<1>1. PICK reason \in {"report_upheld", "harassment_upheld"} :
          \/ /\ status[i] = "removed" /\ UNCHANGED status
             /\ book' = ReportPenalty(book, i, reason)
          \/ /\ status' = [status EXCEPT ![i] = "removed"]
             /\ book' = ReportPenalty(RemovalPenalty(book, i), i, reason)
  BY DEF UpholdReport
<1> DEFINE hit == {<<reason, <<"report", i>>>>}
           taken == {<<"content_removed", Content(i)>>}
<1>2. reason # "content_removed" /\ UNCHANGED vote
  BY DEF UpholdReport
<1>3. CASE status[i] = "removed" /\ UNCHANGED status /\ book' = ReportPenalty(book, i, reason)
  <2>1. BookDescends(book, book', hit)
    BY <1>3, PenaltiesDescend DEF IInv
  <2>2. \A v \in Voters, j \in Items : VoteRow(v, j) # <<"report", i>>
    BY VoteRowIsNoOther
  <2> QED BY <1>2, <1>3, <2>1, <2>2, QuietStepKeeps
<1>4. CASE /\ status' = [status EXCEPT ![i] = "removed"]
           /\ book' = ReportPenalty(RemovalPenalty(book, i), i, reason)
  <2> DEFINE mid == RemovalPenalty(book, i)
  <2>1. BookDescends(book, mid, taken)
    BY PenaltiesDescend DEF IInv
  <2>2. mid.events \in Seq(Range(mid.events))
    BY <2>1 DEF BookDescends, Descends
  <2>3. BookDescends(mid, book', hit)
    <3>1. book' = ReportPenalty(mid, i, reason)
      BY <1>4
    <3> HIDE DEF mid, hit
    <3>2. BookDescends(mid, ReportPenalty(mid, i, reason), {<<reason, <<"report", i>>>>})
      BY <2>2, PenaltiesDescend
    <3> QED BY <3>1, <3>2 DEF hit
  <2>4. BookDescends(book, book', taken \cup hit)
    <3> HIDE DEF mid, hit, taken
    <3> QED BY <2>1, <2>3, DescendsTransitive DEF BookDescends
  <2>5. taken \cup hit = {<<"content_removed", Content(i)>>, <<reason, <<"report", i>>>>}
    OBVIOUS
  <2> QED BY <1>2, <1>4, <2>4, <2>5, RemovalStep
<1> QED BY <1>1, <1>3, <1>4

\* An upheld appeal puts content up and voids the penalty with it.
LEMMA UpholdAppealStep ==
    ASSUME IInv, NEW i \in Items, UpholdAppeal(i)
    PROVE  IInv'
<1>1. /\ BookDescends(book, book', {})
      /\ AllVoid(book'.events, Content(i))
  <2>1. book'.events = VoidSource(book, Content(i)).events
    BY RecomputeRows DEF UpholdAppeal, Reversed
  <2> QED BY <2>1, VoidSourceVoids DEF IInv, BookDescends
<1>2. Forgiven(book'.events, i)
  BY <1>1 DEF AllVoid, Forgiven
<1>3. StatusTyped' /\ VoteTyped' /\ UNCHANGED vote
  BY DEF IInv, StatusTyped, VoteTyped, UpholdAppeal
<1>4. \A j \in Items : status'[j] # "removed" => status[j] # "removed" \/ Forgiven(book'.events, j)
  BY <1>2 DEF IInv, UpholdAppeal
<1> QED BY <1>1, <1>3, <1>4, StepKeeps

-----------------------------------------------------------------------------
(* Staff and the jobs.                                                     *)

LEMMA StaffStep ==
    ASSUME IInv, Verify \/ Unfreeze
    PROVE  IInv'
<1>1. CASE Verify
  <2>1. BookDescends(book, book', {<<"verified_tier2", <<"none">>>>})
    BY <1>1, AwardDescends DEF IInv, Verify
  <2>2. \A v \in Voters, i \in Items : VoteRow(v, i) # <<"none">>
    BY VoteRowIsNoOther
  <2>3. UNCHANGED <<status, vote>>
    BY <1>1 DEF Verify
  <2>4. \A i \in Items : <<"content_removed", Content(i)>> # <<"verified_tier2", <<"none">>>>
    OBVIOUS
  <2> QED BY <2>1, <2>2, <2>3, <2>4, QuietStepKeeps
<1>2. CASE Unfreeze
  BY <1>2, FlagsKeepRows, SameRows, QuietStepKeeps DEF Unfreeze
<1> QED BY <1>1, <1>2

LEMMA JobsStep ==
    ASSUME IInv, Jobs
    PROVE  IInv'
<1>1. CASE SettleDue
  <2>1. BookDescends(book, book', {})
    BY <1>1, SettleDescends DEF IInv, SettleDue
  <2> QED BY <1>1, <2>1, QuietStepKeeps DEF SettleDue
<1>2. CASE ApplyDecay
  <2>1. BookDescends(book, book', {<<"inactivity_decay", <<"none">>>>})
    BY <1>2, DecayDescends DEF IInv, ApplyDecay
  <2>2. \A v \in Voters, i \in Items : VoteRow(v, i) # <<"none">>
    BY VoteRowIsNoOther
  <2> QED BY <1>2, <2>1, <2>2, QuietStepKeeps DEF ApplyDecay
<1>3. ASSUME NEW v \in Voters, NullifyRing(v)
      PROVE  IInv'
  <2>1. BookDescends(book, book', {})
    BY <1>3, VoidDescends DEF IInv, NullifyRing, Nullify
  <2> QED BY <1>3, <2>1, QuietStepKeeps DEF NullifyRing
<1> QED BY <1>1, <1>2, <1>3 DEF Jobs

-----------------------------------------------------------------------------
LEMMA RowsInit == Init => IInv
  BY DEF Init, IInv, WithdrawnVoteEarnsNothing, PenaltyIsOnRemoved, Forgiven, EmptyBook, Book

LEMMA RowsNext == IInv /\ [Next]_vars => IInv'
<1> SUFFICES ASSUME IInv, [Next]_vars PROVE IInv'
  OBVIOUS
<1>1. CASE UNCHANGED <<status, vote>> /\ book'.events = book.events
  BY <1>1, SameRows, QuietStepKeeps
<1>2. CASE Author
  <2>1. CASE Visit \/ \E i \in Items : SubmitAppeal(i)
    BY <1>1, <2>1 DEF Visit, SubmitAppeal
  <2> QED BY <1>2, <2>1, PublishTextStep, PublishPollStep, PostAnswerStep DEF Author
<1>3. CASE Members
  BY <1>3, UpvoteStep, DownvoteStep, WithdrawVoteStep, FlipVoteStep DEF Members, CastVote
<1>4. CASE Staff
  <2>1. ASSUME NEW i \in Items, DenyAppeal(i) PROVE IInv'
    BY <1>1, <2>1 DEF DenyAppeal
  <2> QED BY <1>4, <2>1, DeletePostStep, UpholdReportStep, UpholdAppealStep, StaffStep DEF Staff
<1>5. CASE Jobs
  BY <1>5, JobsStep
<1>6. CASE MonthEnds \/ ThirtyDaysAway
  BY <1>1, <1>6, FlagsKeepRows DEF MonthEnds, ThirtyDaysAway
<1>7. CASE UNCHANGED vars
  BY <1>1, <1>7 DEF vars
<1> QED BY <1>2, <1>3, <1>4, <1>5, <1>6, <1>7 DEF Next

LEMMA RowsInvariant == Spec => []IInv
  BY RowsInit, RowsNext, PTL DEF Spec

\* Points for a vote stand on a vote that exists: "vote withdrawn" voids them
\* (voting.py:78), for any number of voters, items and rows, through flips, new
\* votes, holds, settlements and rings.
THEOREM WithdrawnEarnsNothing == Spec => []WithdrawnVoteEarnsNothing
<1>1. IInv => WithdrawnVoteEarnsNothing
  BY DEF IInv
<1> QED BY <1>1, RowsInvariant, PTL

\* "Reverse the conduct penalty that the original action applied"
\* (moderation.py:465), for any history of removals, deletions and appeals.
THEOREM RestoredIsForgiven == Spec => []RestoredCarriesNoPenalty
<1>1. IInv => RestoredCarriesNoPenalty
  BY DEF IInv, PenaltyIsOnRemoved, Forgiven, RestoredCarriesNoPenalty, Counts
<1> QED BY <1>1, RowsInvariant, PTL

-----------------------------------------------------------------------------
(* Largest elements, for the tier and the pillar that pays.                *)

LEMMA LargestExists ==
    ASSUME NEW S, IsFiniteSet(S), S # {}, S \subseteq Int
    PROVE  \E t \in S : \A u \in S : u <= t
<1> DEFINE Good == {T \in SUBSET S : T # {} => \E t \in T : \A u \in T : u <= t}
<1>1. ASSUME NEW T \in SUBSET S, \A U \in SUBSET T : U # T => U \in Good
      PROVE  T \in Good
  <2> SUFFICES ASSUME NEW x \in T
               PROVE  \E t \in T : \A u \in T : u <= t
    OBVIOUS
  <2>1. T \ {x} \in Good
    BY <1>1
  <2>2. CASE T = {x}
    BY <2>2
  <2>3. CASE T # {x}
    <3>1. PICK t \in T \ {x} : \A u \in T \ {x} : u <= t
      BY <2>1, <2>3
    <3>2. x \in Int /\ \A u \in T : u \in Int
      OBVIOUS
    <3>3. CASE x <= t
      BY <3>1, <3>3
    <3>4. CASE ~ (x <= t)
      <4>1. \A u \in T : u <= x
        BY <3>1, <3>2, <3>4
      <4> QED BY <4>1
    <3> QED BY <3>3, <3>4
  <2> QED BY <2>2, <2>3
<1>2. \A T \in SUBSET S : T \in Good
  <2> HIDE DEF Good
  <2> QED BY <1>1, FiniteInduction
<1> QED BY <1>2

LEMMA TierFloorInt ==
    ASSUME NEW total \in Int
    PROVE  TierFloor(total) \in Int
<1> DEFINE reached == {t \in Thresholds : t <= total}
<1>1. CASE reached = {}
  BY <1>1 DEF TierFloor
<1>2. CASE reached # {}
  <2>1. reached \subseteq Nat
    BY LedgerAssumption
  <2>2. total \in Nat
    <3>1. PICK t \in Thresholds : t <= total
      BY <1>2
    <3>2. t \in Nat
      BY LedgerAssumption
    <3> QED BY <3>1, <3>2
  <2>3. \A t \in reached : t <= total
    OBVIOUS
  <2>4. TierFloor(total) = CHOOSE t \in reached : \A u \in reached : u <= t
    BY <1>2 DEF TierFloor
  <2> HIDE DEF reached
  <2>5. IsFiniteSet(reached)
    BY <2>1, <2>2, <2>3, FS_BoundedSetOfNaturals
  <2>6. \E t \in reached : \A u \in reached : u <= t
    <3>1. reached \subseteq Int
      BY <2>1
    <3> QED BY <1>2, <2>5, <3>1, LargestExists
  <2>7. TierFloor(total) \in reached
    BY <2>4, <2>6
  <2>8. \A t \in reached : t \in Int
    BY <2>1
  <2> QED BY <2>7, <2>8, Zenon
<1> QED BY <1>1, <1>2

\* The pillar a decay is charged to is never conduct.
LEMMA FirstLargest ==
    ASSUME NEW a \in Int, NEW b \in Int, NEW c \in Int, NEW d \in Int,
           NEW v, v = <<a, b, c, d>>
    PROVE  \E i \in 1..4 : \A j \in 1..4 : v[i] > v[j] \/ (v[i] = v[j] /\ i <= j)
<1>1. v[1] = a /\ v[2] = b /\ v[3] = c /\ v[4] = d
  OBVIOUS
<1>2. 1..4 = {1, 2, 3, 4}
  OBVIOUS
<1>3. CASE a >= b /\ a >= c /\ a >= d
  <2>1. \A j \in {1, 2, 3, 4} : v[1] > v[j] \/ (v[1] = v[j] /\ 1 <= j)
    BY <1>1, <1>3
  <2> QED BY <2>1, <1>2
<1>4. CASE b > a /\ b >= c /\ b >= d
  <2>1. \A j \in {1, 2, 3, 4} : v[2] > v[j] \/ (v[2] = v[j] /\ 2 <= j)
    BY <1>1, <1>4
  <2> QED BY <2>1, <1>2
<1>5. CASE c > a /\ c > b /\ c >= d
  <2>1. \A j \in {1, 2, 3, 4} : v[3] > v[j] \/ (v[3] = v[j] /\ 3 <= j)
    BY <1>1, <1>5
  <2> QED BY <2>1, <1>2
<1>6. CASE d > a /\ d > b /\ d > c
  <2>1. \A j \in {1, 2, 3, 4} : v[4] > v[j] \/ (v[4] = v[j] /\ 4 <= j)
    BY <1>1, <1>6
  <2> QED BY <2>1, <1>2
<1> QED BY <1>3, <1>4, <1>5, <1>6

LEMMA LargestPillarDecays ==
    ASSUME NEW b, b.rep \in [Pillars -> Int]
    PROVE  LargestPillar(b) \in Pillars \ {"conduct"}
<1> DEFINE v == <<b.rep["academic"], b.rep["build"], b.rep["service"], b.rep["participation"]>>
           First(i) == \A j \in DOMAIN Decaying :
               LET here == b.rep[Decaying[i]]
                   there == b.rep[Decaying[j]]
               IN  here > there \/ (here = there /\ i <= j)
<1>1. DOMAIN Decaying = 1..4
  BY DEF Decaying
<1>2. \A i \in 1..4 : b.rep[Decaying[i]] = v[i]
  BY DEF Decaying
<1>3. \E i \in 1..4 : \A j \in 1..4 : v[i] > v[j] \/ (v[i] = v[j] /\ i <= j)
  BY FirstLargest DEF Pillars
<1>4. \E i \in DOMAIN Decaying : First(i)
  <2> HIDE DEF v
  <2> QED BY <1>1, <1>2, <1>3
<1>5. LargestPillar(b) = Decaying[CHOOSE i \in DOMAIN Decaying : First(i)]
  BY Zenon DEF LargestPillar
<1>6. (CHOOSE i \in DOMAIN Decaying : First(i)) \in DOMAIN Decaying
  <2> HIDE DEF First
  <2> QED BY <1>4
<1>7. \A i \in 1..4 : Decaying[i] \in Pillars \ {"conduct"}
  BY DEF Decaying, Pillars
<1> QED BY <1>1, <1>5, <1>6, <1>7

-----------------------------------------------------------------------------
(* The types of a book.                                                    *)

Actors == Voters \cup {"staff", "none"}

BookType == [events : Seq(Event), rep : [Pillars -> Int], frozen : BOOLEAN, month : Nat]

LEMMA RowsFinite ==
    ASSUME NEW events \in Seq(Event)
    PROVE  /\ IsFiniteSet(DOMAIN events)
           /\ \A k \in DOMAIN events : events[k] \in Event /\ events[k].points \in Int
<1>1. DOMAIN events = 1..Len(events) /\ Len(events) \in Nat
  OBVIOUS
<1>2. IsFiniteSet(1..Len(events))
  BY <1>1, FS_Interval
<1>3. \A k \in DOMAIN events : events[k] \in Event
  OBVIOUS
<1> QED BY <1>1, <1>2, <1>3 DEF Event

LEMMA PointsInt ==
    ASSUME NEW events \in Seq(Event), NEW rows \in SUBSET DOMAIN events
    PROVE  PointsOf(events, rows) \in Int
<1> DEFINE fun == [i \in DOMAIN events |-> events[i].points]
<1>1. IsFiniteSet(rows)
  BY RowsFinite, FS_Subset
<1>2. IntOn(fun, rows)
  BY RowsFinite DEF IntOn
<1> HIDE DEF fun
<1>3. SumFunctionOnSet(fun, rows) \in Int
  BY <1>1, <1>2, SumInt
<1> QED BY <1>3 DEF PointsOf, fun

LEMMA RecomputeTyped ==
    ASSUME NEW events, NEW b, events \in Seq(Event), b.frozen \in BOOLEAN, b.month \in Nat
    PROVE  Recompute(events, b) \in BookType
<1> DEFINE rep == [p \in Pillars |-> Balance(events, p)]
<1>1. ASSUME NEW p \in Pillars
      PROVE  Balance(events, p) \in Int
  <2> DEFINE rows == {i \in DOMAIN events : events[i].pillar = p /\ Counts(events[i])}
  <2>1. rows \in SUBSET DOMAIN events
    OBVIOUS
  <2>2. Balance(events, p) = PointsOf(events, rows)
    BY DEF Balance
  <2> HIDE DEF rows
  <2> QED BY <2>1, <2>2, PointsInt
<1>2. rep \in [Pillars -> Int]
  BY <1>1
<1>3. Recompute(events, b) = [events |-> events, rep |-> rep, frozen |-> b.frozen, month |-> b.month]
  BY DEF Recompute, Book
<1> HIDE DEF rep
<1> QED BY <1>2, <1>3 DEF BookType

LEMMA MovedTyped ==
    ASSUME NEW events, NEW rows, NEW state, events \in Seq(Event), state \in States
    PROVE  /\ Moved(events, rows, state) \in Seq(Event)
           /\ DOMAIN Moved(events, rows, state) = DOMAIN events
           /\ Len(Moved(events, rows, state)) = Len(events)
<1> DEFINE new == Moved(events, rows, state)
<1>1. DOMAIN events = 1..Len(events) /\ Len(events) \in Nat
  OBVIOUS
<1>2. new = [k \in 1..Len(events) |-> IF k \in rows THEN InState(events[k], state) ELSE events[k]]
  BY <1>1 DEF Moved
<1>3. ASSUME NEW k \in 1..Len(events)
      PROVE  InState(events[k], state) \in Event /\ events[k] \in Event
  <2>1. events[k] \in Event
    BY <1>1
  <2> QED BY <2>1 DEF Event, InState
<1>4. \A k \in 1..Len(events) : new[k] \in Event
  <2>1. \A k \in 1..Len(events) :
            new[k] = IF k \in rows THEN InState(events[k], state) ELSE events[k]
    BY <1>2
  <2> HIDE DEF new
  <2> QED BY <1>3, <2>1
<1>5. DOMAIN new = 1..Len(events) /\ new = [k \in 1..Len(events) |-> new[k]]
  BY <1>2
<1> HIDE DEF new
<1>6. new \in Seq(Event)
  BY <1>1, <1>4, <1>5
<1>7. Len(new) = Len(events)
  BY <1>1, <1>5, <1>6
<1> QED BY <1>1, <1>5, <1>6, <1>7 DEF new

LEMMA VoidTyped ==
    ASSUME NEW b \in BookType, NEW rows
    PROVE  /\ VoidRows(b, rows) \in BookType
           /\ Len(VoidRows(b, rows).events) = Len(b.events)
<1> DEFINE new == Moved(b.events, rows, "void")
<1>1. b.events \in Seq(Event) /\ b.frozen \in BOOLEAN /\ b.month \in Nat
  BY DEF BookType
<1>2. new \in Seq(Event) /\ Len(new) = Len(b.events)
  BY <1>1, MovedTyped DEF States
<1>3. VoidRows(b, rows) = IF rows = {} THEN b ELSE Recompute(new, b)
  BY DEF VoidRows
<1> HIDE DEF new
<1>4. Recompute(new, b) \in BookType /\ Recompute(new, b).events = new
  BY <1>1, <1>2, RecomputeTyped, RecomputeRows
<1> QED BY <1>2, <1>3, <1>4

LEMMA SettleTyped ==
    ASSUME NEW b \in BookType, NEW due
    PROVE  /\ Settle(b, due) \in BookType
           /\ Len(Settle(b, due).events) = Len(b.events)
<1> DEFINE new == Moved(b.events, due, "settled")
<1>1. /\ b.events \in Seq(Event) /\ b.frozen \in BOOLEAN /\ b.month \in Nat
      /\ b.rep \in [Pillars -> Int]
  BY DEF BookType
<1>2. new \in Seq(Event) /\ Len(new) = Len(b.events)
  BY <1>1, MovedTyped DEF States
<1>3. Settle(b, due) = [events |-> new, rep |-> b.rep, frozen |-> b.frozen, month |-> b.month]
  BY DEF Settle, Book
<1> HIDE DEF new
<1> QED BY <1>1, <1>2, <1>3 DEF BookType

LEMMA FlagsTyped ==
    ASSUME NEW b \in BookType
    PROVE  FreezeIfNeeded(b) \in BookType /\ Unfrozen(b) \in BookType /\ NewMonth(b) \in BookType
<1>1. /\ b.events \in Seq(Event) /\ b.frozen \in BOOLEAN /\ b.month \in Nat
      /\ b.rep \in [Pillars -> Int] /\ Len(b.events) \in Nat
  BY DEF BookType
<1> DEFINE frozen == b.frozen \/ Cardinality(UpheldHarassment(b)) >= 2
<1>2. frozen \in BOOLEAN
  OBVIOUS
<1>3. FreezeIfNeeded(b) = [events |-> b.events, rep |-> b.rep, frozen |-> frozen, month |-> b.month]
  BY DEF FreezeIfNeeded, Book
<1> HIDE DEF frozen
<1>4. FreezeIfNeeded(b) \in BookType
  BY <1>1, <1>2, <1>3 DEF BookType
<1>5. Unfrozen(b) \in BookType
  BY <1>1 DEF BookType, Unfrozen, Book
<1>6. NewMonth(b) \in BookType
  BY <1>1 DEF BookType, NewMonth, Book
<1> QED BY <1>4, <1>5, <1>6

\* A row that is appended to a book.
LEMMA AppendTyped ==
    ASSUME NEW b \in BookType, NEW e \in Event
    PROVE  /\ Recompute(Append(b.events, e), b) \in BookType
           /\ Len(Recompute(Append(b.events, e), b).events) = Len(b.events) + 1
<1>1. b.events \in Seq(Event) /\ b.frozen \in BOOLEAN /\ b.month \in Nat
  BY DEF BookType
<1>2. Append(b.events, e) \in Seq(Event) /\ Len(Append(b.events, e)) = Len(b.events) + 1
  BY <1>1
<1> QED BY <1>1, <1>2, RecomputeTyped, RecomputeRows

-----------------------------------------------------------------------------
(* The monthly cap and the floor of conduct.                               *)

LEMMA PointsSame ==
    ASSUME NEW old, NEW new, NEW rows, old \in Seq(Event), rows \subseteq DOMAIN old,
           \A k \in rows : k \in DOMAIN new /\ new[k].points = old[k].points
    PROVE  PointsOf(new, rows) = PointsOf(old, rows)
<1> DEFINE fun == [i \in DOMAIN old |-> old[i].points]
           gun == [i \in DOMAIN new |-> new[i].points]
<1>1. IsFiniteSet(rows)
  BY RowsFinite, FS_Subset
<1>2. \A k \in rows : fun[k] = gun[k]
  OBVIOUS
<1> HIDE DEF fun, gun
<1>3. SumFunctionOnSet(fun, rows) = SumFunctionOnSet(gun, rows)
  BY <1>1, <1>2, SumSame
<1> QED BY <1>3 DEF PointsOf, fun, gun

\* The last row adds its points to those of others.
LEMMA PointsAppended ==
    ASSUME NEW old \in Seq(Event), NEW e \in Event, NEW rows \in SUBSET DOMAIN old
    PROVE  PointsOf(Append(old, e), rows \cup {Len(old) + 1}) = PointsOf(old, rows) + e.points
<1> DEFINE new == Append(old, e)
           n == Len(old) + 1
           fun == [i \in DOMAIN new |-> new[i].points]
<1>1. /\ new \in Seq(Event) /\ Len(old) \in Nat /\ DOMAIN old = 1..Len(old)
      /\ DOMAIN new = 1..n /\ new[n] = e /\ \A k \in DOMAIN old : new[k] = old[k]
  OBVIOUS
<1>2. n \notin rows /\ IsFiniteSet(rows)
  BY <1>1, RowsFinite, FS_Subset
<1>3. fun[n] = e.points /\ e.points \in Int
  BY <1>1 DEF Event
<1>4. \A k \in rows : fun[k] \in Int
  <2>1. \A k \in rows : fun[k] = old[k].points
    BY <1>1
  <2> HIDE DEF fun
  <2> QED BY <2>1, RowsFinite
<1>5. PointsOf(new, rows) = PointsOf(old, rows)
  <2>1. \A k \in rows : k \in DOMAIN new /\ new[k].points = old[k].points
    BY <1>1
  <2> HIDE DEF new
  <2> QED BY <2>1, PointsSame
<1>6. SumFunctionOnSet(fun, rows \cup {n}) = SumFunctionOnSet(fun, rows) + fun[n]
  <2> HIDE DEF fun, n
  <2> QED BY <1>2, <1>3, <1>4, SumWith
<1>7. /\ PointsOf(new, rows \cup {n}) = SumFunctionOnSet(fun, rows \cup {n})
      /\ PointsOf(new, rows) = SumFunctionOnSet(fun, rows)
  BY DEF PointsOf
<1>8. PointsOf(new, rows \cup {n}) = PointsOf(old, rows) + e.points
  <2> HIDE DEF fun, n, new
  <2> QED BY <1>3, <1>5, <1>6, <1>7
<1> QED BY <1>8

-----------------------------------------------------------------------------
MonthRows(b, p) ==
    {i \in DOMAIN b.events :
        i > b.month /\ b.events[i].pillar = p /\ Counts(b.events[i]) /\ b.events[i].points > 0}

BalanceRows(events, p) == {i \in DOMAIN events : events[i].pillar = p /\ Counts(events[i])}

\* No pillar has earned more than its cap this month.
Capped(b) == \A p \in Pillars : MonthEarned(b, p) <= Cap[p]

\* Conduct is above its floor; a row of conduct is never held or provisional,
\* and what it gives was not given for something that can be taken back.
Floored(b) == b.rep["conduct"] >= -Cap["conduct"]

ConductRows(events) ==
    \A k \in DOMAIN events : events[k].pillar = "conduct" =>
        /\ events[k].state \in {"settled", "void"}
        /\ events[k].points <= 0 \/ events[k].source = <<"none">>

GoodBook(b) ==
    b \in BookType /\ Cached(b) /\ Capped(b) /\ Floored(b) /\ ConductRows(b.events)

LEMMA MonthEarnedInt ==
    ASSUME NEW b \in BookType, NEW p
    PROVE  MonthEarned(b, p) = PointsOf(b.events, MonthRows(b, p)) /\ MonthEarned(b, p) \in Int
<1>1. MonthEarned(b, p) = PointsOf(b.events, MonthRows(b, p))
  BY DEF MonthEarned, MonthRows
<1>2. MonthRows(b, p) \in SUBSET DOMAIN b.events /\ b.events \in Seq(Event)
  BY DEF MonthRows, BookType
<1> QED BY <1>1, <1>2, PointsInt

LEMMA BalanceInt ==
    ASSUME NEW events \in Seq(Event), NEW p
    PROVE  Balance(events, p) = PointsOf(events, BalanceRows(events, p)) /\ Balance(events, p) \in Int
<1>1. Balance(events, p) = PointsOf(events, BalanceRows(events, p))
  BY DEF Balance, BalanceRows
<1>2. BalanceRows(events, p) \in SUBSET DOMAIN events
  BY DEF BalanceRows
<1> QED BY <1>1, <1>2, PointsInt

\* When rows only drop out of the month, no pillar earned more.
LEMMA CappedShrinks ==
    ASSUME NEW b \in BookType, NEW c \in BookType, Capped(b),
           \A k \in DOMAIN c.events : k \in DOMAIN b.events /\ c.events[k].points = b.events[k].points,
           \A p \in Pillars : MonthRows(c, p) \subseteq MonthRows(b, p)
    PROVE  Capped(c)
<1> SUFFICES ASSUME NEW p \in Pillars PROVE MonthEarned(c, p) <= Cap[p]
  BY DEF Capped
<1> DEFINE fun == [i \in DOMAIN b.events |-> b.events[i].points]
           R == MonthRows(c, p)
           S == MonthRows(b, p)
<1>1. /\ b.events \in Seq(Event) /\ c.events \in Seq(Event)
      /\ R \subseteq DOMAIN c.events /\ R \subseteq S /\ S \subseteq DOMAIN b.events
  BY DEF BookType, MonthRows
<1>2. PointsOf(c.events, R) = PointsOf(b.events, R)
  <2> HIDE DEF R
  <2>1. \A k \in R : k \in DOMAIN c.events /\ c.events[k].points = b.events[k].points
    BY <1>1
  <2>2. R \subseteq DOMAIN b.events
    BY <1>1
  <2> QED BY <1>1, <2>1, <2>2, PointsSame
<1>3. PointsOf(b.events, R) <= PointsOf(b.events, S)
  <2>1. IsFiniteSet(S)
    BY <1>1, RowsFinite, FS_Subset
  <2>2. IntOn(fun, S)
    BY <1>1, RowsFinite DEF IntOn
  <2>3. \A k \in S \ R : fun[k] >= 0
    <3>1. \A k \in S : fun[k] = b.events[k].points /\ b.events[k].points > 0 /\ b.events[k].points \in Int
      <4>1. \A k \in S : b.events[k].points > 0 /\ k \in DOMAIN b.events
        BY DEF MonthRows
      <4>2. \A k \in DOMAIN b.events : b.events[k].points \in Int
        BY <1>1, RowsFinite
      <4> QED BY <4>1, <4>2
    <3> HIDE DEF fun, S, R
    <3> QED BY <3>1
  <2> HIDE DEF fun, R, S
  <2>4. SumFunctionOnSet(fun, R) <= SumFunctionOnSet(fun, S)
    BY <1>1, <2>1, <2>2, <2>3, SumGrows
  <2> QED BY <2>4 DEF PointsOf, fun
<1>4. MonthEarned(c, p) = PointsOf(c.events, R) /\ MonthEarned(b, p) = PointsOf(b.events, S)
  BY MonthEarnedInt
<1>5. MonthEarned(c, p) \in Int /\ MonthEarned(b, p) \in Int /\ Cap[p] \in Int
  BY MonthEarnedInt, LedgerAssumption
<1>6. MonthEarned(b, p) <= Cap[p]
  BY DEF Capped
<1> HIDE DEF R, S
<1> QED BY <1>2, <1>3, <1>4, <1>5, <1>6

\* A new row that pays stays under the cap of its pillar.
LEMMA CappedAppends ==
    ASSUME NEW b \in BookType, NEW c \in BookType, NEW e \in Event, Capped(b),
           c.events = Append(b.events, e), c.month = b.month,
           e.points > 0 /\ Counts(e) => MonthEarned(b, e.pillar) + e.points <= Cap[e.pillar]
    PROVE  Capped(c)
<1> SUFFICES ASSUME NEW p \in Pillars PROVE MonthEarned(c, p) <= Cap[p]
  BY DEF Capped
<1> DEFINE n == Len(b.events) + 1
           R == MonthRows(b, p)
           S == MonthRows(c, p)
<1>1. /\ b.events \in Seq(Event) /\ c.events \in Seq(Event)
      /\ R \subseteq DOMAIN b.events
  BY DEF BookType, MonthRows
<1>2. /\ DOMAIN b.events = 1..Len(b.events) /\ Len(b.events) \in Nat /\ DOMAIN c.events = 1..n
      /\ c.events[n] = e /\ \A k \in DOMAIN b.events : c.events[k] = b.events[k]
  BY <1>1
<1>3. \A k \in DOMAIN b.events : k \in S <=> k \in R
  BY <1>2 DEF MonthRows
<1>4. S = R \/ (S = R \cup {n} /\ n \in S)
  <2>1. \A k \in S : k \in DOMAIN b.events \/ k = n
    <3>1. S \subseteq DOMAIN c.events
      BY DEF MonthRows
    <3> QED BY <1>2, <3>1
  <2> HIDE DEF S, R, n
  <2>2. CASE n \in S
    BY <1>1, <1>3, <2>1, <2>2
  <2>3. CASE n \notin S
    BY <1>1, <1>3, <2>1, <2>3
  <2> QED BY <2>2, <2>3
<1>5. /\ MonthEarned(b, p) = PointsOf(b.events, R) /\ MonthEarned(c, p) = PointsOf(c.events, S)
      /\ MonthEarned(b, p) <= Cap[p]
  BY MonthEarnedInt DEF Capped
<1>6. CASE S = R
  <2>1. PointsOf(c.events, R) = PointsOf(b.events, R)
    <3>1. \A k \in R : k \in DOMAIN c.events /\ c.events[k].points = b.events[k].points
      BY <1>1, <1>2
    <3> HIDE DEF R
    <3> QED BY <1>1, <3>1, PointsSame
  <2> QED BY <1>5, <1>6, <2>1
<1>7. CASE S = R \cup {n} /\ n \in S
  <2>1. e.pillar = p /\ Counts(e) /\ e.points > 0
    BY <1>2, <1>7 DEF MonthRows
  <2>2. PointsOf(Append(b.events, e), S) = PointsOf(b.events, R) + e.points
    <3> HIDE DEF R, S
    <3>1. R \in SUBSET DOMAIN b.events /\ b.events \in Seq(Event)
      BY <1>1
    <3>2. PointsOf(Append(b.events, e), R \cup {Len(b.events) + 1}) = PointsOf(b.events, R) + e.points
      BY <3>1, PointsAppended
    <3> QED BY <1>7, <3>2, Zenon DEF n
  <2> QED BY <1>5, <2>1, <2>2
<1> QED BY <1>4, <1>6, <1>7

\* Rows of conduct that stop counting were penalties.
LEMMA BalanceOfMoved ==
    ASSUME NEW old \in Seq(Event), NEW new \in Seq(Event), NEW p, DOMAIN new = DOMAIN old,
           \A k \in DOMAIN old :
              /\ new[k].points = old[k].points
              /\ new[k].pillar = old[k].pillar
              /\ Counts(new[k]) => Counts(old[k])
              /\ old[k].pillar = p /\ Counts(old[k]) /\ ~Counts(new[k]) => old[k].points <= 0
    PROVE  Balance(old, p) <= Balance(new, p)
<1> DEFINE fun == [i \in DOMAIN old |-> old[i].points]
           R == BalanceRows(new, p)
           S == BalanceRows(old, p)
<1>1. R \subseteq S /\ S \subseteq DOMAIN old
  BY DEF BalanceRows
<1>2. PointsOf(new, R) = PointsOf(old, R)
  <2> HIDE DEF R
  <2>1. R \subseteq DOMAIN old
    BY <1>1
  <2> QED BY <2>1, PointsSame
<1>3. PointsOf(old, S) <= PointsOf(old, R)
  <2>1. IsFiniteSet(S)
    BY <1>1, RowsFinite, FS_Subset
  <2>2. IntOn(fun, S)
    BY <1>1, RowsFinite DEF IntOn
  <2>3. \A k \in S \ R : fun[k] <= 0
    BY DEF BalanceRows
  <2> HIDE DEF fun, R, S
  <2>4. SumFunctionOnSet(fun, S) <= SumFunctionOnSet(fun, R)
    BY <1>1, <2>1, <2>2, <2>3, SumFalls
  <2> QED BY <2>4 DEF PointsOf, fun
<1>4. Balance(old, p) = PointsOf(old, S) /\ Balance(new, p) = PointsOf(new, R)
  BY BalanceInt
<1> QED BY <1>2, <1>3, <1>4

LEMMA BalanceOfAppended ==
    ASSUME NEW old \in Seq(Event), NEW e \in Event, NEW p
    PROVE  Balance(Append(old, e), p) =
               Balance(old, p) + (IF e.pillar = p /\ Counts(e) THEN e.points ELSE 0)
<1> DEFINE new == Append(old, e)
           n == Len(old) + 1
           R == BalanceRows(old, p)
           S == BalanceRows(new, p)
<1>1. /\ new \in Seq(Event) /\ DOMAIN old = 1..Len(old) /\ Len(old) \in Nat /\ DOMAIN new = 1..n
      /\ new[n] = e /\ \A k \in DOMAIN old : new[k] = old[k]
  OBVIOUS
<1> HIDE DEF new
<1>2. \A k \in DOMAIN old : k \in S <=> k \in R
  BY <1>1 DEF BalanceRows
<1>3. n \in S <=> e.pillar = p /\ Counts(e)
  BY <1>1 DEF BalanceRows
<1>4. R \subseteq DOMAIN old /\ S \subseteq DOMAIN new
  BY DEF BalanceRows
<1>5. Balance(old, p) = PointsOf(old, R) /\ Balance(new, p) = PointsOf(new, S) /\ Balance(old, p) \in Int
  BY <1>1, BalanceInt
<1>6. \A k \in DOMAIN new : k \in DOMAIN old \/ k = n
  BY <1>1
<1> HIDE DEF R, S
<1>7. CASE n \in S
  <2>1. S = R \cup {n}
    BY <1>2, <1>4, <1>6, <1>7
  <2>2. PointsOf(Append(old, e), S) = PointsOf(old, R) + e.points
    <3>1. R \in SUBSET DOMAIN old
      BY <1>4
    <3>2. PointsOf(Append(old, e), R \cup {Len(old) + 1}) = PointsOf(old, R) + e.points
      BY <3>1, PointsAppended
    <3> QED BY <2>1, <3>2, Zenon DEF n
  <2> QED BY <1>3, <1>5, <1>7, <2>1, <2>2 DEF new
<1>8. CASE n \notin S
  <2>1. S = R
    BY <1>2, <1>4, <1>6, <1>8
  <2>2. PointsOf(new, R) = PointsOf(old, R)
    BY <1>1, <1>4, PointsSame
  <2> QED BY <1>3, <1>5, <1>8, <2>1, <2>2 DEF new
<1> QED BY <1>7, <1>8

-----------------------------------------------------------------------------
(* What award books.                                                       *)

Raw(reason, weight) == (Points[reason] * weight) \div 100

Cut(b, reason, weight) ==
    LET raw == Raw(reason, weight)
        p   == PillarOf[reason]
    IN  IF raw > 0 THEN UnderCap(b, p, raw) ELSE AboveFloor(b, p, raw)

AwardRow(b, reason, weight, source, actor, immediate, spike) ==
    [reason |-> reason, pillar |-> PillarOf[reason], points |-> Cut(b, reason, weight),
     source |-> source, actor |-> actor,
     state |-> IF immediate \/ Cut(b, reason, weight) <= 0 THEN "settled"
               ELSE IF spike THEN "held" ELSE "provisional"]

LEMMA AwardIs ==
    ASSUME NEW b, NEW reason, NEW weight, NEW source, NEW actor, NEW immediate, NEW spike
    PROVE  Award(b, reason, weight, source, actor, immediate, spike) =
             IF Barred(b, Raw(reason, weight)) THEN b
             ELSE Recompute(
                 Append(b.events, AwardRow(b, reason, weight, source, actor, immediate, spike)), b)
  BY Zenon DEF Award, AwardRow, Cut, Raw

LEMMA ReasonsTyped ==
    ASSUME NEW reason \in DOMAIN Points
    PROVE  Points[reason] \in Int /\ PillarOf[reason] \in Pillars /\ reason \in Reasons
<1>1. reason \in Reasons
  BY DEF Reasons
<1>2. Points[reason] \in Int /\ PillarOf[reason] \in Pillars
  BY DEF Points, PillarOf, Pillars
<1> QED BY <1>1, <1>2

\* The two bounds on the points of an award.
LEMMA CutBounds ==
    ASSUME NEW b \in BookType, NEW reason \in DOMAIN Points, NEW weight \in Int
    PROVE  LET p   == PillarOf[reason]
               cut == Cut(b, reason, weight)
           IN  /\ cut \in Int
               /\ Raw(reason, weight) <= 0 => cut <= 0
               /\ MonthEarned(b, p) <= Cap[p] /\ cut > 0 => MonthEarned(b, p) + cut <= Cap[p]
               /\ b.rep[p] >= -Cap[p] => b.rep[p] + cut >= -Cap[p]
<1> DEFINE p == PillarOf[reason]
           raw == Raw(reason, weight)
           cut == Cut(b, reason, weight)
<1>1. p \in Pillars /\ Points[reason] \in Int
  BY ReasonsTyped
<1>2. Points[reason] * weight \in Int
  BY <1>1
<1>3. raw \in Int
  BY <1>2 DEF Raw
<1>4. Cap[p] \in Nat /\ b.rep[p] \in Int /\ MonthEarned(b, p) \in Int
  BY <1>1, MonthEarnedInt, LedgerAssumption DEF BookType
<1>5. cut = IF raw > 0 THEN UnderCap(b, p, raw) ELSE AboveFloor(b, p, raw)
  BY DEF Cut
<1> HIDE DEF p, raw, cut
<1>6. CASE raw > 0
  <2>1. cut = Lesser(raw, Greater(0, Cap[p] - MonthEarned(b, p)))
    BY <1>5, <1>6 DEF UnderCap
  <2>2. cut \in Int /\ cut >= 0 /\ (cut > 0 => MonthEarned(b, p) + cut <= Cap[p])
    BY <1>3, <1>4, <1>6, <2>1 DEF Lesser, Greater
  <2> QED BY <1>3, <1>4, <1>6, <2>2 DEF p, raw, cut
<1>7. CASE ~ (raw > 0)
  <2>1. cut = IF b.rep[p] + raw < -Cap[p] THEN Lesser(0, -Cap[p] - b.rep[p]) ELSE raw
    BY <1>5, <1>7 DEF AboveFloor
  <2>2. cut \in Int /\ cut <= 0 /\ (b.rep[p] >= -Cap[p] => b.rep[p] + cut >= -Cap[p])
    BY <1>3, <1>4, <1>7, <2>1 DEF Lesser
  <2> QED BY <1>3, <1>4, <1>7, <2>2 DEF p, raw, cut
<1> QED BY <1>6, <1>7

-----------------------------------------------------------------------------
(* The functions of Ledger keep books good.                                *)

\* A row that is appended.
LEMMA AppendGood ==
    ASSUME NEW b, NEW e \in Event, GoodBook(b),
           e.points > 0 /\ Counts(e) => MonthEarned(b, e.pillar) + e.points <= Cap[e.pillar],
           e.pillar = "conduct" =>
              /\ e.state \in {"settled", "void"}
              /\ e.points <= 0 \/ e.source = <<"none">>
              /\ b.rep["conduct"] + e.points >= -Cap["conduct"]
    PROVE  GoodBook(Recompute(Append(b.events, e), b))
<1> DEFINE new == Append(b.events, e)
           c == Recompute(new, b)
<1>1. b \in BookType /\ Cached(b) /\ Capped(b) /\ Floored(b) /\ ConductRows(b.events)
  BY DEF GoodBook
<1>2. b.events \in Seq(Event) /\ b.rep["conduct"] \in Int /\ b.month \in Nat
  BY <1>1 DEF BookType, Pillars
<1>3. c \in BookType /\ c.events = new /\ c.month = b.month
  <2>1. c \in BookType
    BY <1>1, AppendTyped
  <2>2. c.events = new /\ c.month = b.month
    BY DEF Recompute, Book
  <2> QED BY <2>1, <2>2
<1>4. Cached(c)
  BY RecomputeCached
<1>5. Capped(c)
  <2> HIDE DEF c
  <2> QED BY <1>1, <1>3, CappedAppends DEF new
<1>6. Floored(c)
  <2>1. Balance(new, "conduct") =
            Balance(b.events, "conduct") + (IF e.pillar = "conduct" /\ Counts(e) THEN e.points ELSE 0)
    BY <1>2, BalanceOfAppended
  <2>2. c.rep["conduct"] = Balance(new, "conduct") /\ b.rep["conduct"] = Balance(b.events, "conduct")
    <3> HIDE DEF c, new
    <3> QED BY <1>1, <1>3, <1>4 DEF Cached, Pillars
  <2>3. b.rep["conduct"] >= -Cap["conduct"] /\ Cap["conduct"] \in Int
    BY <1>1, LedgerAssumption DEF Floored, Pillars
  <2> HIDE DEF c, new
  <2>4. CASE e.pillar = "conduct" /\ Counts(e)
    BY <2>1, <2>2, <2>4 DEF Floored
  <2>5. CASE ~ (e.pillar = "conduct" /\ Counts(e))
    <3>1. c.rep["conduct"] = b.rep["conduct"]
      BY <1>2, <2>1, <2>2, <2>5
    <3> QED BY <2>3, <3>1 DEF Floored
  <2> QED BY <2>4, <2>5
<1>7. ConductRows(new)
  <2>1. \A k \in DOMAIN new : (k \in DOMAIN b.events /\ new[k] = b.events[k]) \/ new[k] = e
    BY <1>2
  <2> HIDE DEF new
  <2>2. ASSUME NEW k \in DOMAIN new, new[k].pillar = "conduct"
        PROVE  /\ new[k].state \in {"settled", "void"}
               /\ new[k].points <= 0 \/ new[k].source = <<"none">>
    <3>1. CASE k \in DOMAIN b.events /\ new[k] = b.events[k]
      BY <1>1, <2>2, <3>1 DEF ConductRows
    <3>2. CASE new[k] = e
      BY <2>2, <3>2
    <3> QED BY <2>1, <3>1, <3>2
  <2> QED BY <2>2 DEF ConductRows
<1> HIDE DEF c, new
<1>8. GoodBook(c)
  BY <1>3, <1>4, <1>5, <1>6, <1>7 DEF GoodBook
<1> QED BY <1>8 DEF c, new

LEMMA AwardGood ==
    ASSUME NEW b, NEW reason \in DOMAIN Points, NEW weight \in Int, NEW source \in Sources,
           NEW actor \in Actors, NEW immediate, NEW spike, GoodBook(b),
           PillarOf[reason] = "conduct" =>
              immediate /\ (Raw(reason, weight) <= 0 \/ source = <<"none">>)
    PROVE  /\ GoodBook(Award(b, reason, weight, source, actor, immediate, spike))
           /\ Len(Award(b, reason, weight, source, actor, immediate, spike).events)
                <= Len(b.events) + 1
<1> DEFINE e == AwardRow(b, reason, weight, source, actor, immediate, spike)
           cut == Cut(b, reason, weight)
           p == PillarOf[reason]
           c == Recompute(Append(b.events, e), b)
<1>1. b \in BookType /\ Capped(b) /\ Floored(b)
  BY DEF GoodBook
<1>2. /\ e.reason = reason /\ e.pillar = p /\ e.points = cut /\ e.source = source
      /\ immediate => e.state = "settled"
  BY DEF AwardRow
<1>3. /\ cut \in Int
      /\ Raw(reason, weight) <= 0 => cut <= 0
      /\ MonthEarned(b, p) <= Cap[p] /\ cut > 0 => MonthEarned(b, p) + cut <= Cap[p]
      /\ b.rep[p] >= -Cap[p] => b.rep[p] + cut >= -Cap[p]
  BY <1>1, CutBounds
<1>4. e \in Event
  <2>1. reason \in Reasons /\ p \in Pillars
    BY ReasonsTyped
  <2>2. (IF immediate \/ cut <= 0 THEN "settled" ELSE IF spike THEN "held" ELSE "provisional") \in States
    BY DEF States
  <2> HIDE DEF cut, p
  <2> QED BY <1>3, <2>1, <2>2 DEF Event, AwardRow, Actors, cut, p
<1>5. p \in Pillars /\ MonthEarned(b, p) <= Cap[p]
  BY <1>1, ReasonsTyped DEF Capped
<1>6. e.points > 0 /\ Counts(e) => MonthEarned(b, e.pillar) + e.points <= Cap[e.pillar]
  <2> HIDE DEF e, cut, p
  <2> QED BY <1>2, <1>3, <1>5
<1>7. e.pillar = "conduct" =>
          /\ e.state \in {"settled", "void"}
          /\ e.points <= 0 \/ e.source = <<"none">>
          /\ b.rep["conduct"] + e.points >= -Cap["conduct"]
  <2> HIDE DEF e, cut
  <2> QED BY <1>1, <1>2, <1>3 DEF Floored
<1> HIDE DEF e
<1>8. GoodBook(c)
  BY <1>4, <1>6, <1>7, AppendGood
<1>9. Len(c.events) = Len(b.events) + 1 /\ Len(b.events) \in Nat
  <2>1. b.events \in Seq(Event)
    BY <1>1 DEF BookType
  <2> HIDE DEF c
  <2> QED BY <1>1, <1>4, <2>1, AppendTyped DEF c
<1>10. Award(b, reason, weight, source, actor, immediate, spike)
         = IF Barred(b, Raw(reason, weight)) THEN b ELSE c
  BY AwardIs, Zenon DEF e
<1> HIDE DEF c
<1>11. CASE Barred(b, Raw(reason, weight))
  BY <1>9, <1>10, <1>11
<1>12. CASE ~Barred(b, Raw(reason, weight))
  BY <1>8, <1>9, <1>10, <1>12
<1> QED BY <1>11, <1>12

\* Rows that change their state only.
Alike(old, new) ==
    /\ DOMAIN new = DOMAIN old
    /\ \A k \in DOMAIN old :
          /\ new[k].points = old[k].points
          /\ new[k].pillar = old[k].pillar
          /\ new[k].source = old[k].source
          /\ Counts(new[k]) => Counts(old[k])
          /\ new[k].state \in {"settled", "void"} \/ new[k].state = old[k].state

LEMMA AlikeGood ==
    ASSUME NEW b, NEW c, GoodBook(b), c \in BookType, Cached(c), Alike(b.events, c.events),
           \A k \in DOMAIN b.events : k > c.month => k > b.month,
           \A k \in DOMAIN b.events :
              b.events[k].pillar = "conduct" /\ Counts(b.events[k]) /\ ~Counts(c.events[k])
                => b.events[k].points <= 0
    PROVE  GoodBook(c)
<1> DEFINE old == b.events
           new == c.events
<1>1. b \in BookType /\ Cached(b) /\ Capped(b) /\ Floored(b) /\ ConductRows(old)
  BY DEF GoodBook
<1>2. old \in Seq(Event) /\ new \in Seq(Event)
  BY <1>1 DEF BookType
<1>3. /\ DOMAIN new = DOMAIN old
      /\ \A k \in DOMAIN old :
            /\ new[k].points = old[k].points
            /\ new[k].pillar = old[k].pillar
            /\ new[k].source = old[k].source
            /\ Counts(new[k]) => Counts(old[k])
            /\ new[k].state \in {"settled", "void"} \/ new[k].state = old[k].state
  BY DEF Alike
<1>4. Capped(c)
  <2>1. \A p \in Pillars : MonthRows(c, p) \subseteq MonthRows(b, p)
    BY <1>3 DEF MonthRows
  <2>2. \A k \in DOMAIN new : k \in DOMAIN old /\ new[k].points = old[k].points
    BY <1>3
  <2> QED BY <1>1, <2>1, <2>2, CappedShrinks
<1>5. Floored(c)
  <2>1. Balance(old, "conduct") <= Balance(new, "conduct")
    <3> HIDE DEF old, new
    <3>1. \A k \in DOMAIN old :
              old[k].pillar = "conduct" /\ Counts(old[k]) /\ ~Counts(new[k]) => old[k].points <= 0
      BY DEF old, new
    <3> QED BY <1>2, <1>3, <3>1, BalanceOfMoved
  <2>2. b.rep["conduct"] = Balance(old, "conduct") /\ c.rep["conduct"] = Balance(new, "conduct")
    BY <1>1 DEF Cached, Pillars
  <2>3. Balance(old, "conduct") \in Int /\ Balance(new, "conduct") \in Int
    BY <1>2, BalanceInt
  <2>4. b.rep["conduct"] >= -Cap["conduct"] /\ Cap["conduct"] \in Int
    BY <1>1, LedgerAssumption DEF Floored, Pillars
  <2> HIDE DEF old, new
  <2> QED BY <2>1, <2>2, <2>3, <2>4 DEF Floored
<1>6. ConductRows(new)
  <2>1. ConductRows(old)
    BY <1>1
  <2> HIDE DEF old, new
  <2> QED BY <1>3, <2>1 DEF ConductRows
<1> QED BY <1>4, <1>5, <1>6 DEF GoodBook

LEMMA MovedAlike ==
    ASSUME NEW old, NEW rows, NEW state,
           state = "void" \/ (state = "settled" /\ \A k \in rows : Counts(old[k]))
    PROVE  /\ Alike(old, Moved(old, rows, state))
           /\ \A k \in DOMAIN old :
                 Counts(old[k]) /\ ~Counts(Moved(old, rows, state)[k]) => k \in rows /\ state = "void"
<1> DEFINE new == Moved(old, rows, state)
<1>1. DOMAIN new = DOMAIN old
  BY DEF Moved
<1>2. ASSUME NEW k \in DOMAIN old
      PROVE  /\ new[k].points = old[k].points
             /\ new[k].pillar = old[k].pillar
             /\ new[k].source = old[k].source
             /\ Counts(new[k]) => Counts(old[k])
             /\ new[k].state \in {"settled", "void"} \/ new[k].state = old[k].state
             /\ Counts(old[k]) /\ ~Counts(new[k]) => k \in rows /\ state = "void"
  <2>1. new[k] = IF k \in rows THEN InState(old[k], state) ELSE old[k]
    BY DEF Moved
  <2> HIDE DEF new
  <2>2. CASE k \in rows
    <3>1. /\ new[k].points = old[k].points
          /\ new[k].pillar = old[k].pillar
          /\ new[k].source = old[k].source
          /\ new[k].state = state
      BY <2>1, <2>2 DEF InState
    <3>2. Counts(new[k]) <=> state \in {"provisional", "settled"}
      BY <3>1 DEF Counts
    <3> QED BY <2>2, <3>1, <3>2
  <2>3. CASE k \notin rows
    BY <2>1, <2>3
  <2> QED BY <2>2, <2>3
<1> HIDE DEF new
<1>3. Alike(old, new)
  BY <1>1, <1>2 DEF Alike
<1>4. \A k \in DOMAIN old : Counts(old[k]) /\ ~Counts(new[k]) => k \in rows /\ state = "void"
  BY <1>2
<1> QED BY <1>3, <1>4 DEF new

\* Of conduct, only penalties are void.
LEMMA VoidGood ==
    ASSUME NEW b, NEW rows, GoodBook(b),
           \A k \in DOMAIN b.events :
              k \in rows /\ b.events[k].pillar = "conduct" => b.events[k].points <= 0
    PROVE  /\ GoodBook(VoidRows(b, rows))
           /\ Len(VoidRows(b, rows).events) = Len(b.events)
<1> DEFINE c == VoidRows(b, rows)
           new == Moved(b.events, rows, "void")
<1>1. b \in BookType /\ Cached(b)
  BY DEF GoodBook
<1>2. c \in BookType /\ Len(c.events) = Len(b.events)
  BY <1>1, VoidTyped
<1>3. Cached(c)
  BY <1>1, VoidCached
<1>4. CASE rows = {}
  <2>1. c = b
    BY <1>4 DEF VoidRows
  <2> QED BY <2>1
<1>5. CASE rows # {}
  <2>1. c.events = new /\ c.month = b.month
    BY <1>5 DEF VoidRows, Recompute, Book
  <2>2. /\ Alike(b.events, new)
        /\ \A k \in DOMAIN b.events : Counts(b.events[k]) /\ ~Counts(new[k]) => k \in rows
    BY MovedAlike
  <2> HIDE DEF c, new
  <2>3. GoodBook(c)
    BY <1>2, <1>3, <2>1, <2>2, AlikeGood
  <2> QED BY <1>2, <2>3 DEF c
<1> QED BY <1>4, <1>5

\* void_events, of a vote, of content or of a report.
LEMMA VoidSourceGood ==
    ASSUME NEW b, NEW source, GoodBook(b), source # <<"none">>
    PROVE  /\ GoodBook(VoidSource(b, source))
           /\ Len(VoidSource(b, source).events) = Len(b.events)
<1> DEFINE rows == {i \in DOMAIN b.events : b.events[i].source = source /\ b.events[i].state # "void"}
<1>1. \A k \in DOMAIN b.events :
          k \in rows /\ b.events[k].pillar = "conduct" => b.events[k].points <= 0
  BY DEF GoodBook, ConductRows
<1>2. VoidSource(b, source) = VoidRows(b, rows)
  BY DEF VoidSource
<1> HIDE DEF rows
<1> QED BY <1>1, <1>2, VoidGood

LEMMA NullifyGood ==
    ASSUME NEW b, NEW actor, GoodBook(b)
    PROVE  /\ GoodBook(Nullify(b, actor))
           /\ Len(Nullify(b, actor).events) = Len(b.events)
<1> DEFINE rows == {i \in DOMAIN b.events :
              b.events[i].actor = actor /\ b.events[i].state \in {"provisional", "held"}}
<1>1. \A k \in DOMAIN b.events :
          k \in rows /\ b.events[k].pillar = "conduct" => b.events[k].points <= 0
  BY DEF GoodBook, ConductRows
<1>2. Nullify(b, actor) = VoidRows(b, rows)
  BY DEF Nullify
<1> HIDE DEF rows
<1> QED BY <1>1, <1>2, VoidGood

LEMMA SettleGood ==
    ASSUME NEW b, NEW due \in SUBSET Provisional(b), GoodBook(b)
    PROVE  /\ GoodBook(Settle(b, due))
           /\ Len(Settle(b, due).events) = Len(b.events)
<1> DEFINE c == Settle(b, due)
           new == Moved(b.events, due, "settled")
<1>1. b \in BookType /\ Cached(b)
  BY DEF GoodBook
<1>2. c \in BookType /\ Len(c.events) = Len(b.events)
  BY <1>1, SettleTyped
<1>3. Cached(c)
  BY <1>1, SettleCached
<1>4. c.events = new /\ c.month = b.month
  BY DEF Settle, Book
<1>5. \A k \in due : Counts(b.events[k])
  BY DEF Provisional, Counts
<1>6. /\ Alike(b.events, new)
      /\ \A k \in DOMAIN b.events : Counts(b.events[k]) => Counts(new[k])
  BY <1>5, MovedAlike
<1> HIDE DEF c, new
<1>7. GoodBook(c)
  BY <1>2, <1>3, <1>4, <1>6, AlikeGood
<1> QED BY <1>2, <1>7 DEF c

\* Freezing, lifting the freeze and a new month leave the rows alone; counting
\* them again changes nothing.
LEMMA SameRowsGood ==
    ASSUME NEW b, NEW c, GoodBook(b), c \in BookType, Cached(c), c.events = b.events,
           \A k \in DOMAIN b.events : k > c.month => k > b.month
    PROVE  GoodBook(c)
<1>1. Alike(b.events, c.events)
  BY DEF Alike
<1> QED BY <1>1, AlikeGood

LEMMA FlagsGood ==
    ASSUME NEW b, GoodBook(b)
    PROVE  GoodBook(FreezeIfNeeded(b)) /\ GoodBook(Unfrozen(b)) /\ GoodBook(NewMonth(b))
<1>1. b \in BookType /\ Cached(b)
  BY DEF GoodBook
<1>2. /\ FreezeIfNeeded(b) \in BookType /\ Unfrozen(b) \in BookType /\ NewMonth(b) \in BookType
      /\ Cached(FreezeIfNeeded(b)) /\ Cached(Unfrozen(b)) /\ Cached(NewMonth(b))
  BY <1>1, FlagsTyped, FlagsCached
<1>3. /\ FreezeIfNeeded(b).events = b.events /\ FreezeIfNeeded(b).month = b.month
      /\ Unfrozen(b).events = b.events /\ Unfrozen(b).month = b.month
      /\ NewMonth(b).events = b.events /\ NewMonth(b).month = Len(b.events)
  BY DEF FreezeIfNeeded, Unfrozen, NewMonth, Book
<1>4. GoodBook(FreezeIfNeeded(b))
  BY <1>2, <1>3, SameRowsGood
<1>5. GoodBook(Unfrozen(b))
  BY <1>2, <1>3, SameRowsGood
<1>6. GoodBook(NewMonth(b))
  <2>1. \A k \in DOMAIN b.events : ~ (k > Len(b.events))
    <3>1. b.events \in Seq(Event)
      BY <1>1 DEF BookType
    <3> QED BY <3>1
  <2> QED BY <1>2, <1>3, <2>1, SameRowsGood
<1> QED BY <1>4, <1>5, <1>6

LEMMA RecomputeGood ==
    ASSUME NEW b, GoodBook(b)
    PROVE  GoodBook(Recompute(b.events, b))
<1> DEFINE c == Recompute(b.events, b)
<1>1. b.events \in Seq(Event) /\ b.frozen \in BOOLEAN /\ b.month \in Nat
  BY DEF GoodBook, BookType
<1>2. c \in BookType /\ Cached(c)
  BY <1>1, RecomputeTyped, RecomputeCached
<1>3. c.events = b.events /\ c.month = b.month
  BY DEF Recompute, Book
<1> HIDE DEF c
<1>4. GoodBook(c)
  BY <1>2, <1>3, SameRowsGood
<1> QED BY <1>4 DEF c

\* A decay is charged to another pillar than conduct, and takes points.
LEMMA DecayGood ==
    ASSUME NEW b, GoodBook(b), Decays(b)
    PROVE  GoodBook(Decay(b)) /\ Len(Decay(b).events) = Len(b.events) + 1
<1> DEFINE points == -DecayOf(Total(b))
           e == [reason |-> "inactivity_decay", pillar |-> LargestPillar(b), points |-> points,
                 source |-> <<"none">>, actor |-> "none", state |-> "settled"]
<1>1. b \in BookType /\ b.rep \in [Pillars -> Int]
  BY DEF GoodBook, BookType
<1>2. LargestPillar(b) \in Pillars \ {"conduct"}
  BY <1>1, LargestPillarDecays
<1>3. Total(b) \in Int
  <2>1. IsFiniteSet(Pillars)
    <3>1. IsFiniteSet({"academic"} \cup {"build"})
      BY FS_EmptySet, FS_AddElement, FS_Singleton
    <3>2. IsFiniteSet(({"academic"} \cup {"build"}) \cup {"service"})
      BY <3>1, FS_AddElement
    <3>3. IsFiniteSet((({"academic"} \cup {"build"}) \cup {"service"}) \cup {"participation"})
      BY <3>2, FS_AddElement
    <3>4. IsFiniteSet(((({"academic"} \cup {"build"}) \cup {"service"}) \cup {"participation"}) \cup {"conduct"})
      BY <3>3, FS_AddElement
    <3>5. Pillars = ((({"academic"} \cup {"build"}) \cup {"service"}) \cup {"participation"}) \cup {"conduct"}
      BY DEF Pillars
    <3> QED BY <3>4, <3>5
  <2>2. IntOn(b.rep, Pillars) /\ DOMAIN b.rep = Pillars
    BY <1>1 DEF IntOn
  <2>3. Total(b) = SumFunctionOnSet(b.rep, Pillars)
    BY <2>2, Zenon DEF Total, SumFunction
  <2> QED BY <2>1, <2>2, <2>3, SumInt
<1>4. DecayOf(Total(b)) \in Int
  <2>1. TierFloor(Total(b)) \in Int
    BY <1>3, TierFloorInt
  <2>2. DecayPercent \in Int
    BY LedgerAssumption
  <2>3. Total(b) * DecayPercent \in Int
    BY <1>3, <2>2
  <2>4. (Total(b) * DecayPercent + 50) \div 100 \in Int
    BY <2>3
  <2> QED BY <1>3, <2>1, <2>4 DEF DecayOf, Lesser
<1>5. points \in Int /\ points < 0
  BY <1>4 DEF Decays
<1>6. e \in Event
  <2> HIDE DEF points
  <2>1. "inactivity_decay" \in Reasons /\ <<"none">> \in Sources /\ "settled" \in States
    BY DEF Reasons, Sources, States
  <2> QED BY <1>2, <1>5, <2>1 DEF Event
<1>7. e.points = points /\ e.pillar = LargestPillar(b)
  OBVIOUS
<1>8. Decay(b) = Recompute(Append(b.events, e), b)
  BY Zenon DEF Decay
<1> HIDE DEF points, e
<1>9. GoodBook(Recompute(Append(b.events, e), b))
  BY <1>2, <1>5, <1>6, <1>7, AppendGood
<1>10. Len(Recompute(Append(b.events, e), b).events) = Len(b.events) + 1
  BY <1>1, <1>6, AppendTyped
<1> QED BY <1>8, <1>9, <1>10

-----------------------------------------------------------------------------
(* The book along a step.                                                  *)

BookInv == GoodBook(book) /\ Len(book.events) <= MaxEvents

\* At most one row more than before.
Longer(b, c, n) == GoodBook(c) /\ Len(c.events) <= Len(b.events) + n

LEMMA SourcesTyped ==
    ASSUME NEW i \in Items
    PROVE  /\ Content(i) \in Sources /\ <<"report", i>> \in Sources /\ <<"none">> \in Sources
           /\ \A v \in Voters : VoteRow(v, i) \in Sources
           /\ Content(i) # <<"none">>
  BY DEF Sources, Content

LEMMA LenNat ==
    ASSUME NEW b, GoodBook(b)
    PROVE  Len(b.events) \in Nat
<1>1. b.events \in Seq(Event)
  BY DEF GoodBook, BookType
<1> QED BY <1>1

\* Gains outside conduct.
LEMMA GainGood ==
    ASSUME NEW b, NEW reason \in {"answer_upvote", "post_upvote", "poll_created", "answer_posted"},
           NEW weight \in Int, NEW source \in Sources, NEW actor \in Actors, NEW spike, GoodBook(b)
    PROVE  Longer(b, Award(b, reason, weight, source, actor, FALSE, spike), 1)
<1>1. reason \in DOMAIN Points /\ PillarOf[reason] # "conduct"
  BY DEF Points, PillarOf
<1> QED BY <1>1, AwardGood DEF Longer

\* Penalties.
LEMMA PenaltyGood ==
    ASSUME NEW b, NEW reason \in {"content_removed", "report_upheld", "harassment_upheld"},
           NEW source \in Sources, GoodBook(b)
    PROVE  Longer(b, Award(b, reason, 100, source, "staff", TRUE, FALSE), 1)
<1>1. reason \in DOMAIN Points /\ Raw(reason, 100) <= 0
  BY DEF Points, Raw
<1>2. "staff" \in Actors /\ 100 \in Int
  BY DEF Actors
<1> QED BY <1>1, <1>2, AwardGood DEF Longer

LEMMA ReportPenaltyGood ==
    ASSUME NEW b, NEW i \in Items, NEW reason \in {"report_upheld", "harassment_upheld"}, GoodBook(b)
    PROVE  Longer(b, ReportPenalty(b, i, reason), 1)
<1> DEFINE c == Award(b, reason, 100, <<"report", i>>, "staff", TRUE, FALSE)
<1>1. Longer(b, c, 1)
  BY SourcesTyped, PenaltyGood
<1>2. ReportPenalty(b, i, reason) = FreezeIfNeeded(c)
  BY DEF ReportPenalty
<1> HIDE DEF c
<1>3. GoodBook(FreezeIfNeeded(c)) /\ FreezeIfNeeded(c).events = c.events
  BY <1>1, FlagsGood, FlagsKeepRows DEF Longer
<1> QED BY <1>1, <1>2, <1>3 DEF Longer

LEMMA RemovalPenaltyGood ==
    ASSUME NEW b, NEW i \in Items, GoodBook(b)
    PROVE  Longer(b, RemovalPenalty(b, i), 1)
<1> DEFINE c == VoidSource(b, Content(i))
           d == Award(c, "content_removed", 100, Content(i), "staff", TRUE, FALSE)
<1>1. GoodBook(c) /\ Len(c.events) = Len(b.events)
  BY SourcesTyped, VoidSourceGood
<1>2. RemovalPenalty(b, i) = d
  BY DEF RemovalPenalty
<1> HIDE DEF c
<1>3. Longer(c, d, 1)
  BY <1>1, SourcesTyped, PenaltyGood
<1> QED BY <1>1, <1>2, <1>3 DEF Longer

LEMMA LongerFits ==
    ASSUME BookInv, NEW n \in Nat, Fits(n), Longer(book, book', n)
    PROVE  BookInv'
<1>1. Len(book.events) \in Nat /\ Len(book'.events) \in Nat /\ MaxEvents \in Nat
  BY LenNat, CommunityAssumption DEF BookInv, Longer
<1> QED BY <1>1 DEF BookInv, Longer, Fits

LEMMA SameLength ==
    ASSUME BookInv, GoodBook(book'), Len(book'.events) = Len(book.events)
    PROVE  BookInv'
  BY DEF BookInv

LEMMA BookStays ==
    ASSUME BookInv, UNCHANGED book
    PROVE  BookInv'
  BY DEF BookInv

LEMMA BookOfPublishing ==
    ASSUME BookInv, NEW i \in Items, Fits(1), NEW reason \in {"poll_created", "answer_posted"},
           NEW spike, book' = Award(book, reason, 100, Content(i), "none", FALSE, spike)
    PROVE  BookInv'
<1>1. Content(i) \in Sources /\ "none" \in Actors /\ 100 \in Int
  <2>1. Content(i) \in Sources
    BY SourcesTyped
  <2> QED BY <2>1 DEF Actors
<1>2. Longer(book, Award(book, reason, 100, Content(i), "none", FALSE, spike), 1)
  BY <1>1, GainGood DEF BookInv
<1> QED BY <1>2, LongerFits

LEMMA BookOfUpvote ==
    ASSUME BookInv, NEW v \in Voters, NEW i \in Items, Upvote(v, i)
    PROVE  BookInv'
<1>1. PICK shared \in SameDevice, spike \in VelocityHold : \E weight \in Weighed(shared) :
          IF weight > 0 THEN Fits(1) /\ book' = AwardUpvote(v, i, weight, spike)
          ELSE UNCHANGED book
  BY Zenon DEF Upvote
<1>2. PICK weight \in Weighed(shared) :
          IF weight > 0 THEN Fits(1) /\ book' = AwardUpvote(v, i, weight, spike)
          ELSE UNCHANGED book
  BY <1>1, Zenon
<1>3. weight \in Int
  <2>1. Weighed(shared) \subseteq Int
    BY CommunityAssumption DEF Weighed, VoteWeight
  <2> QED BY <2>1
<1>4. CASE Fits(1) /\ book' = AwardUpvote(v, i, weight, spike)
  <2>1. /\ Reason(i) \in {"answer_upvote", "post_upvote", "poll_created", "answer_posted"}
        /\ VoteRow(v, i) \in Sources /\ v \in Actors
    BY SourcesTyped DEF Reason, Actors
  <2>2. Longer(book, Award(book, Reason(i), weight, VoteRow(v, i), v, FALSE, spike), 1)
    BY <1>3, <2>1, GainGood DEF BookInv
  <2>3. Longer(book, book', 1)
    BY <1>4, <2>2, Zenon DEF AwardUpvote
  <2> QED BY <1>4, <2>3, LongerFits
<1>5. CASE UNCHANGED book
  BY <1>5, BookStays
<1> QED BY <1>2, <1>4, <1>5, Zenon

LEMMA BookOfVoiding ==
    ASSUME BookInv, NEW source, source # <<"none">>, book' = VoidSource(book, source)
    PROVE  BookInv'
<1>1. GoodBook(VoidSource(book, source)) /\ Len(VoidSource(book, source).events) = Len(book.events)
  BY VoidSourceGood DEF BookInv
<1> QED BY <1>1, SameLength

LEMMA BookOfReport ==
    ASSUME BookInv, NEW i \in Items, UpholdReport(i)
    PROVE  BookInv'
<1>1. PICK reason \in {"report_upheld", "harassment_upheld"} :
          \/ Fits(1) /\ book' = ReportPenalty(book, i, reason)
          \/ Fits(2) /\ book' = ReportPenalty(RemovalPenalty(book, i), i, reason)
  BY Zenon DEF UpholdReport
<1>2. GoodBook(book)
  BY DEF BookInv
<1>3. CASE Fits(1) /\ book' = ReportPenalty(book, i, reason)
  <2>1. Longer(book, book', 1)
    BY <1>2, <1>3, ReportPenaltyGood
  <2> QED BY <1>3, <2>1, LongerFits
<1>4. CASE Fits(2) /\ book' = ReportPenalty(RemovalPenalty(book, i), i, reason)
  <2> DEFINE c == RemovalPenalty(book, i)
  <2>1. Longer(book, c, 1)
    BY <1>2, RemovalPenaltyGood
  <2>2. book' = ReportPenalty(c, i, reason)
    BY <1>4
  <2> HIDE DEF c
  <2>3. Longer(c, ReportPenalty(c, i, reason), 1)
    BY <2>1, ReportPenaltyGood DEF Longer
  <2>4. Len(book.events) \in Nat /\ Len(c.events) \in Nat /\ Len(book'.events) \in Nat
    BY <1>2, <2>1, <2>2, <2>3, LenNat DEF Longer
  <2>5. Longer(book, book', 2)
    BY <2>1, <2>2, <2>3, <2>4 DEF Longer
  <2> QED BY <1>4, <2>5, LongerFits
<1> QED BY <1>1, <1>3, <1>4, Zenon

LEMMA BookOfAppeal ==
    ASSUME BookInv, NEW i \in Items, UpholdAppeal(i)
    PROVE  BookInv'
<1> DEFINE c == VoidSource(book, Content(i))
<1>1. GoodBook(c) /\ Len(c.events) = Len(book.events)
  BY SourcesTyped, VoidSourceGood DEF BookInv
<1>2. book' = Recompute(c.events, c)
  BY Zenon DEF UpholdAppeal, Reversed
<1> HIDE DEF c
<1>3. GoodBook(Recompute(c.events, c)) /\ Recompute(c.events, c).events = c.events
  BY <1>1, RecomputeGood, RecomputeRows
<1>4. GoodBook(book') /\ book'.events = c.events
  BY <1>2, <1>3, Zenon
<1> QED BY <1>1, <1>4, SameLength

LEMMA BookOfStaff ==
    ASSUME BookInv, Verify \/ Unfreeze
    PROVE  BookInv'
<1>1. GoodBook(book)
  BY DEF BookInv
<1>2. CASE Verify
  <2>1. "verified_tier2" \in DOMAIN Points /\ "none" \in Actors /\ 100 \in Int /\ <<"none">> \in Sources
    BY DEF Points, Actors, Sources
  <2>2. Longer(book, Award(book, "verified_tier2", 100, <<"none">>, "none", TRUE, FALSE), 1)
    BY <1>1, <2>1, AwardGood DEF Longer
  <2>3. Fits(1) /\ Longer(book, book', 1)
    BY <1>2, <2>2, Zenon DEF Verify
  <2> QED BY <2>3, LongerFits
<1>3. CASE Unfreeze
  <2>1. GoodBook(Unfrozen(book)) /\ Unfrozen(book).events = book.events
    BY <1>1, FlagsGood, FlagsKeepRows
  <2>2. GoodBook(book') /\ book'.events = book.events
    BY <1>3, <2>1, Zenon DEF Unfreeze
  <2> QED BY <2>2, SameLength
<1> QED BY <1>2, <1>3

LEMMA BookOfJobs ==
    ASSUME BookInv, Jobs \/ MonthEnds
    PROVE  BookInv'
<1>1. GoodBook(book)
  BY DEF BookInv
<1>2. CASE SettleDue
  <2>1. PICK due \in SUBSET Provisional(book) : book' = Settle(book, due)
    BY <1>2, Zenon DEF SettleDue
  <2> QED BY <1>1, <2>1, SettleGood, SameLength
<1>3. CASE ApplyDecay
  <2>1. Fits(1) /\ Decays(book) /\ book' = Decay(book)
    BY <1>3, Zenon DEF ApplyDecay
  <2>2. GoodBook(book') /\ Len(book'.events) = Len(book.events) + 1
    BY <1>1, <2>1, DecayGood
  <2>3. Longer(book, book', 1)
    <3>1. Len(book.events) \in Nat
      BY <1>1, LenNat
    <3> QED BY <2>2, <3>1 DEF Longer
  <2> QED BY <2>1, <2>3, LongerFits
<1>4. ASSUME NEW v \in Voters, NullifyRing(v)
      PROVE  BookInv'
  <2>1. book' = Nullify(book, v)
    BY <1>4, Zenon DEF NullifyRing
  <2> QED BY <1>1, <2>1, NullifyGood, SameLength
<1>5. CASE MonthEnds
  <2>1. GoodBook(NewMonth(book)) /\ NewMonth(book).events = book.events
    BY <1>1, FlagsGood, FlagsKeepRows
  <2>2. GoodBook(book') /\ book'.events = book.events
    BY <1>5, <2>1, Zenon DEF MonthEnds
  <2> QED BY <2>2, SameLength
<1> QED BY <1>2, <1>3, <1>4, <1>5, Zenon DEF Jobs

LEMMA BookInit == Init => BookInv
<1> SUFFICES ASSUME Init PROVE BookInv
  OBVIOUS
<1>1. book = [events |-> <<>>, rep |-> [p \in Pillars |-> 0], frozen |-> FALSE, month |-> 0]
  BY DEF Init, EmptyBook, Book
<1>2. book.events = <<>> /\ (\A p \in Pillars : book.rep[p] = 0) /\ book.month = 0
  BY <1>1
<1>3. book \in BookType
  BY <1>1 DEF BookType
<1>4. \A p \in Pillars : BalanceRows(<<>>, p) = {} /\ MonthRows(book, p) = {}
  BY <1>2 DEF BalanceRows, MonthRows
<1>5. PointsOf(<<>>, {}) = 0
  BY SumOfNone DEF PointsOf
<1>6. Cached(book)
  <2> SUFFICES ASSUME NEW p \in Pillars PROVE book.rep[p] = Balance(book.events, p)
    BY DEF Cached
  <2>1. Balance(<<>>, p) = PointsOf(<<>>, BalanceRows(<<>>, p))
    BY DEF Balance, BalanceRows
  <2> QED BY <1>2, <1>4, <1>5, <2>1
<1>7. Capped(book)
  <2> SUFFICES ASSUME NEW p \in Pillars PROVE MonthEarned(book, p) <= Cap[p]
    BY DEF Capped
  <2>1. MonthEarned(book, p) = PointsOf(book.events, MonthRows(book, p))
    BY <1>3, MonthEarnedInt
  <2>2. MonthEarned(book, p) = 0
    BY <1>2, <1>4, <1>5, <2>1
  <2>3. Cap[p] \in Nat
    BY LedgerAssumption
  <2> QED BY <2>2, <2>3
<1>8. Floored(book)
  <2>1. Cap["conduct"] \in Nat /\ book.rep["conduct"] = 0
    BY <1>2, LedgerAssumption DEF Pillars
  <2> QED BY <2>1 DEF Floored
<1>9. ConductRows(book.events) /\ Len(book.events) = 0
  BY <1>2 DEF ConductRows
<1> QED BY <1>3, <1>6, <1>7, <1>8, <1>9, CommunityAssumption DEF BookInv, GoodBook

LEMMA BookNext == BookInv /\ [Next]_vars => BookInv'
<1> SUFFICES ASSUME BookInv, [Next]_vars PROVE BookInv'
  OBVIOUS
<1>1. CASE UNCHANGED book
  BY <1>1, BookStays
<1>2. CASE Author
  <2>1. ASSUME NEW p \in Posts, PublishPoll(p) PROVE BookInv'
    <3>1. PICK spike \in VelocityHold :
              book' = Award(book, "poll_created", 100, Content(p), "none", FALSE, spike)
      BY <2>1, Zenon DEF PublishPoll
    <3>2. Fits(1) /\ p \in Items
      BY <2>1 DEF PublishPoll, Items
    <3> QED BY <3>1, <3>2, BookOfPublishing
  <2>2. ASSUME NEW a \in Answers, PostAnswer(a) PROVE BookInv'
    <3>1. PICK spike \in VelocityHold :
              book' = Award(book, "answer_posted", 100, Content(a), "none", FALSE, spike)
      BY <2>2, Zenon DEF PostAnswer
    <3>2. Fits(1) /\ a \in Items
      BY <2>2 DEF PostAnswer, Items
    <3> QED BY <3>1, <3>2, BookOfPublishing
  <2>3. CASE Visit \/ (\E p \in Posts : PublishText(p)) \/ (\E i \in Items : SubmitAppeal(i))
    BY <1>1, <2>3, Zenon DEF Visit, PublishText, SubmitAppeal
  <2> QED BY <1>2, <2>1, <2>2, <2>3, Zenon DEF Author
<1>3. ASSUME NEW v \in Voters, NEW i \in Items, CastVote(v, i)
      PROVE  BookInv'
  <2>1. CASE Upvote(v, i)
    BY <2>1, BookOfUpvote
  <2>2. CASE Downvote(v, i) \/ FlipVote(v, i)
    BY <1>1, <2>2, Zenon DEF Downvote, FlipVote
  <2>3. CASE WithdrawVote(v, i)
    <3>1. VoteRow(v, i) # <<"none">>
      BY VoteRowIsNoOther
    <3>2. book' = VoidSource(book, VoteRow(v, i))
      BY <2>3, Zenon DEF WithdrawVote
    <3> QED BY <3>1, <3>2, BookOfVoiding
  <2> QED BY <1>3, <2>1, <2>2, <2>3, Zenon DEF CastVote
<1>4. CASE Staff
  <2>1. ASSUME NEW p \in Posts, DeletePost(p) PROVE BookInv'
    <3>1. Content(p) # <<"none">>
      BY SourcesTyped DEF Items
    <3>2. book' = VoidSource(book, Content(p))
      BY <2>1, Zenon DEF DeletePost
    <3> QED BY <3>1, <3>2, BookOfVoiding
  <2>2. ASSUME NEW i \in Items, DenyAppeal(i) PROVE BookInv'
    BY <1>1, <2>2, Zenon DEF DenyAppeal
  <2> QED BY <1>4, <2>1, <2>2, BookOfReport, BookOfAppeal, BookOfStaff, Zenon DEF Staff
<1>5. CASE Jobs \/ MonthEnds
  BY <1>5, BookOfJobs
<1>6. CASE ThirtyDaysAway
  BY <1>1, <1>6, Zenon DEF ThirtyDaysAway
<1>7. CASE UNCHANGED vars
  BY <1>1, <1>7, Zenon DEF vars
<1> QED BY <1>2, <1>3, <1>4, <1>5, <1>6, <1>7, Zenon DEF Next, Members

-----------------------------------------------------------------------------
(* Scores and appeals.                                                     *)

\* The votes on an item, added up.
Tally(votes, i) == SumFunctionOnSet([v \in Voters |-> votes[v][i]], Voters)

ScoreInv ==
    /\ score \in [Items -> Int]
    /\ \A i \in Items : Tally(vote, i) <= score[i] /\ score[i] <= MaxScore

LEMMA TallyInt ==
    ASSUME NEW votes \in [Voters -> [Items -> {-1, 0, 1}]], NEW i \in Items
    PROVE  Tally(votes, i) \in Int /\ Tally(votes, i) >= -Cardinality(Voters)
<1> DEFINE fun == [v \in Voters |-> votes[v][i]]
<1>1. \A v \in Voters : fun[v] \in Int /\ fun[v] >= -1
  <2>1. \A v \in Voters : fun[v] \in {-1, 0, 1}
    OBVIOUS
  <2> HIDE DEF fun
  <2> QED BY <2>1
<1>2. IntOn(fun, Voters) /\ IsFiniteSet(Voters)
  BY <1>1, CommunityAssumption DEF IntOn
<1>3. Tally(votes, i) = SumFunctionOnSet(fun, Voters)
  BY DEF Tally
<1> HIDE DEF fun
<1> QED BY <1>1, <1>2, <1>3, SumInt, SumAtLeast

\* A vote moves the tally of its item by what it changes.
LEMMA TallyMoves ==
    ASSUME NEW old \in [Voters -> [Items -> {-1, 0, 1}]], NEW new \in [Voters -> [Items -> {-1, 0, 1}]],
           NEW v \in Voters, NEW i \in Items,
           \A w \in Voters, j \in Items : w # v \/ j # i => new[w][j] = old[w][j]
    PROVE  /\ Tally(new, i) = Tally(old, i) - old[v][i] + new[v][i]
           /\ \A j \in Items : j # i => Tally(new, j) = Tally(old, j)
<1>1. IsFiniteSet(Voters)
  BY CommunityAssumption
<1>2. ASSUME NEW j \in Items
      PROVE  IntOn([w \in Voters |-> old[w][j]], Voters) /\ IntOn([w \in Voters |-> new[w][j]], Voters)
  BY DEF IntOn
<1>3. Tally(new, i) = Tally(old, i) - old[v][i] + new[v][i]
  <2> DEFINE fun == [w \in Voters |-> old[w][i]]
             gun == [w \in Voters |-> new[w][i]]
  <2>1. \A w \in Voters : w # v => fun[w] = gun[w]
    OBVIOUS
  <2>2. fun[v] = old[v][i] /\ gun[v] = new[v][i]
    OBVIOUS
  <2>3. IntOn(fun, Voters) /\ IntOn(gun, Voters)
    BY <1>2
  <2>4. Tally(old, i) = SumFunctionOnSet(fun, Voters) /\ Tally(new, i) = SumFunctionOnSet(gun, Voters)
    BY DEF Tally
  <2> HIDE DEF fun, gun
  <2>5. SumFunctionOnSet(gun, Voters) = SumFunctionOnSet(fun, Voters) - fun[v] + gun[v]
    BY <1>1, <2>1, <2>3, SumChanges
  <2> QED BY <2>2, <2>4, <2>5, Zenon
<1>4. ASSUME NEW j \in Items, j # i
      PROVE  Tally(new, j) = Tally(old, j)
  <2> DEFINE fun == [w \in Voters |-> old[w][j]]
             gun == [w \in Voters |-> new[w][j]]
  <2>1. \A w \in Voters : fun[w] = gun[w]
    BY <1>4
  <2>2. Tally(old, j) = SumFunctionOnSet(fun, Voters) /\ Tally(new, j) = SumFunctionOnSet(gun, Voters)
    BY DEF Tally
  <2> HIDE DEF fun, gun
  <2>3. SumFunctionOnSet(fun, Voters) = SumFunctionOnSet(gun, Voters)
    BY <1>1, <2>1, SumSame
  <2> QED BY <2>2, <2>3, Zenon
<1> QED BY <1>3, <1>4

\* A vote whose item moves by no less than the tally.
LEMMA ScoreOfVote ==
    ASSUME VoteTyped, ScoreInv, NEW v \in Voters, NEW i \in Items, NEW value \in {-1, 0, 1},
           SetVote(v, i, value), NEW moved \in Int, moved <= MaxScore,
           score' = [score EXCEPT ![i] = moved],
           moved >= score[i] - vote[v][i] + value
    PROVE  ScoreInv'
<1>1. /\ VoteTyped'
      /\ vote'[v][i] = value
      /\ \A w \in Voters, j \in Items : w # v \/ j # i => vote'[w][j] = vote[w][j]
  BY DEF VoteTyped, SetVote
<1>2. /\ Tally(vote', i) = Tally(vote, i) - vote[v][i] + value
      /\ \A j \in Items : j # i => Tally(vote', j) = Tally(vote, j)
  BY <1>1, TallyMoves, ZenonT(30) DEF VoteTyped
<1>3. Tally(vote, i) \in Int /\ Tally(vote, i) <= score[i] /\ score[i] \in Int /\ vote[v][i] \in Int
  BY TallyInt DEF VoteTyped, ScoreInv
<1>4. score' \in [Items -> Int] /\ score'[i] = moved /\ \A j \in Items : j # i => score'[j] = score[j]
  BY DEF ScoreInv
<1>5. Tally(vote', i) <= score'[i]
  BY <1>2, <1>3, <1>4
<1>6. \A j \in Items : Tally(vote', j) <= score'[j] /\ score'[j] <= MaxScore
  BY <1>2, <1>4, <1>5 DEF ScoreInv
<1> QED BY <1>4, <1>6 DEF ScoreInv

LEMMA ScoreStays ==
    ASSUME ScoreInv, UNCHANGED <<vote, score>>
    PROVE  ScoreInv'
  BY DEF ScoreInv

LEMMA ScoreNext == VoteTyped /\ ScoreInv /\ [Next]_vars => ScoreInv'
<1> SUFFICES ASSUME VoteTyped, ScoreInv, [Next]_vars PROVE ScoreInv'
  OBVIOUS
<1>1. CASE UNCHANGED <<vote, score>>
  BY <1>1, ScoreStays
<1>2. ASSUME NEW v \in Voters, NEW i \in Items, CastVote(v, i)
      PROVE  ScoreInv'
  <2>1. vote[v][i] \in {-1, 0, 1} /\ score[i] \in Int /\ MaxScore \in Int /\ score[i] <= MaxScore
    BY CommunityAssumption DEF VoteTyped, ScoreInv
  <2>2. CASE Upvote(v, i)
    <3>1. /\ SetVote(v, i, 1) /\ vote[v][i] = 0 /\ score[i] < MaxScore
          /\ score' = [score EXCEPT ![i] = score[i] + 1]
      BY <2>2, Zenon DEF Upvote
    <3>2. score[i] + 1 \in Int /\ score[i] + 1 <= MaxScore /\ score[i] + 1 >= score[i] - vote[v][i] + 1
      BY <2>1, <3>1
    <3> QED BY <3>1, <3>2, ScoreOfVote
  <2>3. CASE Downvote(v, i)
    <3>1. /\ SetVote(v, i, -1) /\ vote[v][i] = 0
          /\ score' = [score EXCEPT ![i] = score[i] - 1]
      BY <2>3, Zenon DEF Downvote
    <3>2. score[i] - 1 \in Int /\ score[i] - 1 <= MaxScore /\ score[i] - 1 >= score[i] - vote[v][i] + (-1)
      BY <2>1, <3>1
    <3> QED BY <3>1, <3>2, ScoreOfVote
  <2>4. CASE WithdrawVote(v, i)
    <3>1. /\ SetVote(v, i, 0) /\ vote[v][i] # 0 /\ ScoreWithout(v, i) <= MaxScore
          /\ score' = [score EXCEPT ![i] = ScoreWithout(v, i)]
      BY <2>4, Zenon DEF WithdrawVote
    <3>2. ScoreWithout(v, i) \in Int /\ ScoreWithout(v, i) >= score[i] - vote[v][i] + 0
      BY <2>1, <3>1 DEF ScoreWithout, Greater
    <3> QED BY <3>1, <3>2, ScoreOfVote
  <2>5. CASE FlipVote(v, i)
    <3>1. /\ SetVote(v, i, -vote[v][i]) /\ vote[v][i] # 0 /\ score[i] - 2 * vote[v][i] <= MaxScore
          /\ score' = [score EXCEPT ![i] = score[i] - 2 * vote[v][i]]
      BY <2>5, Zenon DEF FlipVote
    <3>2. /\ score[i] - 2 * vote[v][i] \in Int /\ -vote[v][i] \in {-1, 0, 1}
          /\ score[i] - 2 * vote[v][i] >= score[i] - vote[v][i] + (-vote[v][i])
      BY <2>1
    <3> QED BY <3>1, <3>2, ScoreOfVote
  <2> QED BY <1>2, <2>2, <2>3, <2>4, <2>5, Zenon DEF CastVote
<1>3. CASE Author
  BY <1>1, <1>3, Zenon DEF Author, PublishText, PublishPoll, PostAnswer, Published, SubmitAppeal, Visit
<1>4. CASE Staff
  BY <1>1, <1>4, Zenon DEF Staff, DeletePost, UpholdReport, UpholdAppeal, DenyAppeal, Verify, Unfreeze
<1>5. CASE Jobs \/ MonthEnds \/ ThirtyDaysAway
  BY <1>1, <1>5, Zenon DEF Jobs, SettleDue, ApplyDecay, NullifyRing, MonthEnds, ThirtyDaysAway
<1>6. CASE UNCHANGED vars
  BY <1>1, <1>6, Zenon DEF vars
<1> QED BY <1>2, <1>3, <1>4, <1>5, <1>6, Zenon DEF Next, Members

\* The actions of an item that wait for an appeal, or for its decision.
ActionInv ==
    /\ removals \in [Items -> Nat]
    /\ appeals \in [Items -> Nat]
    /\ \A i \in Items : removals[i] + appeals[i] <= MaxActions
    /\ idle \in BOOLEAN

LEMMA ActionsStay ==
    ASSUME ActionInv, UNCHANGED <<removals, appeals>>, idle' \in BOOLEAN
    PROVE  ActionInv'
  BY DEF ActionInv

LEMMA RemovalCounted ==
    ASSUME ActionInv, NEW i \in Items, removals[i] + appeals[i] < MaxActions,
           removals' = [removals EXCEPT ![i] = removals[i] + 1], UNCHANGED <<appeals, idle>>
    PROVE  ActionInv'
  BY CommunityAssumption DEF ActionInv

LEMMA ActionNext == ActionInv /\ [Next]_vars => ActionInv'
<1> SUFFICES ASSUME ActionInv, [Next]_vars PROVE ActionInv'
  OBVIOUS
<1>1. CASE UNCHANGED <<removals, appeals, idle>>
  BY <1>1 DEF ActionInv
<1>2. CASE UNCHANGED <<removals, appeals>> /\ idle' \in BOOLEAN
  BY <1>2, ActionsStay
<1>3. CASE Author
  <2>1. CASE Visit \/ (\E p \in Posts : PublishText(p) \/ PublishPoll(p)) \/ (\E a \in Answers : PostAnswer(a))
    <3>1. UNCHANGED <<removals, appeals>> /\ idle' = FALSE
      BY <2>1, Zenon DEF Visit, PublishText, PublishPoll, PostAnswer, Published
    <3> QED BY <1>2, <3>1
  <2>2. ASSUME NEW i \in Items, SubmitAppeal(i) PROVE ActionInv'
    <3>1. /\ removals[i] > 0 /\ idle' = FALSE
          /\ removals' = [removals EXCEPT ![i] = removals[i] - 1]
          /\ appeals' = [appeals EXCEPT ![i] = appeals[i] + 1]
      BY <2>2, Zenon DEF SubmitAppeal
    <3>2. removals' \in [Items -> Nat] /\ appeals' \in [Items -> Nat]
      BY <3>1 DEF ActionInv
    <3>4. idle' \in BOOLEAN
      BY <3>1
    <3>3. \A j \in Items : removals'[j] + appeals'[j] = removals[j] + appeals[j]
      BY <3>1 DEF ActionInv
    <3> QED BY <3>2, <3>3, <3>4 DEF ActionInv
  <2> QED BY <1>3, <2>1, <2>2, Zenon DEF Author
<1>4. CASE Members
  BY <1>1, <1>4, Zenon DEF Members, CastVote, Upvote, Downvote, WithdrawVote, FlipVote
<1>5. CASE Staff
  <2>1. ASSUME NEW p \in Posts, DeletePost(p) PROVE ActionInv'
    <3>1. CASE idle' = FALSE /\ UNCHANGED removals
      BY <1>2, <2>1, <3>1 DEF DeletePost
    <3>2. CASE removals[p] + appeals[p] < MaxActions /\ removals' = [removals EXCEPT ![p] = @ + 1] /\ UNCHANGED idle
      BY <2>1, <3>2, RemovalCounted DEF DeletePost, Items
    <3> QED BY <2>1, <3>1, <3>2, Zenon DEF DeletePost
  <2>2. ASSUME NEW i \in Items, UpholdReport(i) PROVE ActionInv'
    <3>1. UNCHANGED <<appeals, idle>>
      BY <2>2, Zenon DEF UpholdReport
    <3>2. CASE UNCHANGED removals
      BY <1>1, <3>1, <3>2
    <3>3. CASE removals[i] + appeals[i] < MaxActions /\ removals' = [removals EXCEPT ![i] = removals[i] + 1]
      BY <3>1, <3>3, RemovalCounted
    <3> QED BY <2>2, <3>2, <3>3, Zenon DEF UpholdReport
  <2>3. ASSUME NEW i \in Items, UpholdAppeal(i) \/ DenyAppeal(i) PROVE ActionInv'
    <3>1. appeals[i] > 0 /\ appeals' = [appeals EXCEPT ![i] = appeals[i] - 1] /\ UNCHANGED <<removals, idle>>
      BY <2>3, Zenon DEF UpholdAppeal, DenyAppeal
    <3> QED BY <3>1, CommunityAssumption DEF ActionInv
  <2>4. CASE Verify \/ Unfreeze
    BY <1>1, <2>4, Zenon DEF Verify, Unfreeze
  <2> QED BY <1>5, <2>1, <2>2, <2>3, <2>4, Zenon DEF Staff
<1>6. CASE Jobs \/ MonthEnds
  BY <1>1, <1>6, Zenon DEF Jobs, SettleDue, ApplyDecay, NullifyRing, MonthEnds
<1>7. CASE ThirtyDaysAway
  BY <1>2, <1>7 DEF ThirtyDaysAway
<1>8. CASE UNCHANGED vars
  BY <1>1, <1>8, Zenon DEF vars
<1> QED BY <1>3, <1>4, <1>5, <1>6, <1>7, <1>8, Zenon DEF Next

LEMMA ScoreInit == Init => ScoreInv /\ ActionInv
<1> SUFFICES ASSUME Init PROVE ScoreInv /\ ActionInv
  OBVIOUS
<1>1. score \in [Items -> Int] /\ (\A i \in Items : score[i] = 0) /\ MaxScore \in Nat /\ MaxActions \in Nat
  BY CommunityAssumption DEF Init
<1>2. ASSUME NEW i \in Items
      PROVE  Tally(vote, i) <= 0
  <2> DEFINE fun == [v \in Voters |-> vote[v][i]]
  <2>1. \A x \in Voters \ {} : fun[x] <= 0 /\ fun[x] \in Int
    BY DEF Init
  <2>2. IntOn(fun, Voters) /\ IsFiniteSet(Voters) /\ {} \subseteq Voters
    BY <2>1, CommunityAssumption DEF IntOn
  <2>3. Tally(vote, i) = SumFunctionOnSet(fun, Voters)
    BY DEF Tally
  <2> HIDE DEF fun
  <2>4. SumFunctionOnSet(fun, Voters) <= SumFunctionOnSet(fun, {})
    BY <2>1, <2>2, SumFalls
  <2> QED BY <2>3, <2>4, SumOfNone
<1>3. ScoreInv
  BY <1>1, <1>2 DEF ScoreInv
<1>4. ActionInv
  <2>1. /\ removals = [i \in Items |-> 0]
        /\ appeals = [i \in Items |-> 0]
        /\ idle = FALSE
    BY Zenon DEF Init
  <2>2. removals \in [Items -> Nat] /\ appeals \in [Items -> Nat]
    BY <2>1
  <2>3. \A i \in Items : removals[i] = 0 /\ appeals[i] = 0
    BY <2>1
  <2>4. idle \in BOOLEAN
    BY <2>1
  <2> QED BY <1>1, <2>2, <2>3, <2>4 DEF ActionInv
<1> QED BY <1>3, <1>4

-----------------------------------------------------------------------------
LEMMA CommunityInvariant == Spec => [](IInv /\ BookInv /\ ScoreInv /\ ActionInv)
<1>1. Init => IInv /\ BookInv /\ ScoreInv /\ ActionInv
  BY RowsInit, BookInit, ScoreInit
<1>2. IInv => VoteTyped
  BY DEF IInv, VoteTyped
<1>3. IInv /\ BookInv /\ ScoreInv /\ ActionInv /\ [Next]_vars
        => (IInv /\ BookInv /\ ScoreInv /\ ActionInv)'
  BY <1>2, RowsNext, BookNext, ScoreNext, ActionNext
<1> QED BY <1>1, <1>3, PTL DEF Spec

\* Every column keeps its type: among others, no score falls below all members
\* voting down, although a withdrawn upvote does not take a score below zero.
THEOREM CommunityTyped == Spec => []TypeOK
<1>1. IInv /\ BookInv /\ ScoreInv /\ ActionInv => TypeOK
  <2> SUFFICES ASSUME IInv, BookInv, ScoreInv, ActionInv PROVE TypeOK
    OBVIOUS
  <2>1. /\ status \in [Items -> {"absent", "active", "removed"}]
        /\ vote \in [Voters -> [Items -> {-1, 0, 1}]]
    BY DEF IInv
  <2>2. score \in [Items -> -Cardinality(Voters) .. MaxScore]
    <3>1. Cardinality(Voters) \in Nat /\ MaxScore \in Nat
      BY FS_CardinalityType, CommunityAssumption
    <3>2. ASSUME NEW i \in Items PROVE score[i] \in -Cardinality(Voters) .. MaxScore
      <4>1. Tally(vote, i) \in Int /\ Tally(vote, i) >= -Cardinality(Voters)
        BY <2>1, TallyInt
      <4>2. Tally(vote, i) <= score[i] /\ score[i] <= MaxScore /\ score[i] \in Int
        BY DEF ScoreInv
      <4> QED BY <3>1, <4>1, <4>2
    <3>3. score = [i \in Items |-> score[i]]
      BY DEF ScoreInv
    <3> QED BY <3>2, <3>3
  <2>3. removals \in [Items -> 0..MaxActions] /\ appeals \in [Items -> 0..MaxActions]
    BY CommunityAssumption DEF ActionInv
  <2>4. idle \in BOOLEAN
    BY DEF ActionInv
  <2>5. book \in BookType /\ Len(book.events) <= MaxEvents
    BY DEF BookInv, GoodBook
  <2>6. Event = [reason : Reasons, pillar : Pillars, points : Int, source : Sources,
                 actor : Voters \cup {"staff", "none"}, state : States]
    BY DEF Event
  <2> QED BY <2>1, <2>2, <2>3, <2>4, <2>5, Zenon DEF TypeOK, BookType
<1> QED BY <1>1, CommunityInvariant, PTL

\* PILLAR_MONTHLY_CAPS (reputation.py, award): what a pillar was paid since the
\* month began stays under its cap, for any caps and any rows.
THEOREM CapHolds == Spec => []MonthlyCap
<1>1. BookInv => MonthlyCap
  BY DEF BookInv, GoodBook, Capped, MonthlyCap
<1> QED BY <1>1, CommunityInvariant, PTL

\* "it is bounded at -100" (reputation.py:236): the conduct pillar stays at or
\* above the floor, for any order of penalties, gains, appeals and decays.
THEOREM FloorHolds == Spec => []ConductFloor
<1>1. BookInv => ConductFloor
  BY DEF BookInv, GoodBook, Floored, ConductFloor
<1> QED BY <1>1, CommunityInvariant, PTL
=============================================================================

---------------------------- MODULE AggregateProofs ----------------------------
(***************************************************************************)
(* Proofs about Aggregate: metric rows are what MetricRow promises, for any*)
(* contributions and dimensions, and agree with the oracle.                *)
(***************************************************************************)
EXTENDS Aggregate, FiniteSetTheorems, WellFoundedInduction, TLAPS

-----------------------------------------------------------------------------
(* Sums. There is no induction over finite sets here, but among the sets   *)
(* that would break a claim there would be a least one.                    *)

(* A set of finite sets has one that contains no other.                    *)
LEMMA LeastSet ==
    ASSUME NEW S, IsFiniteSet(S), NEW T \in SUBSET (SUBSET S), T # {}
    PROVE  \E A \in T : \A B \in T : B \subseteq A => B = A
  <1>1. T \subseteq FiniteSubsetsOf(S)
    BY FS_Subset DEF FiniteSubsetsOf
  <1>2. PICK A \in T : \A B \in T : ~(<<B, A>> \in StrictSubsetOrdering(S))
    BY <1>1, WFMin, FS_StrictSubsetOrderingWellFounded
  <1>. QED
    BY <1>2 DEF StrictSubsetOrdering

Sum(S) == MapThenSumSet(LAMBDA c : c.value, S)

(* The element a sum takes first, and the equation that a sum solves.      *)
Any(S) == CHOOSE x \in S : TRUE
Partial(S, g) == [s \in SUBSET S |-> IF s = {} THEN 0 ELSE Any(s).value + g[s \ {Any(s)}]]
Solves(S, g)  == g = Partial(S, g)

LEMMA SumSolves ==
    ASSUME NEW S, NEW g, Solves(S, g)
    PROVE  \E h : Solves(S, h) /\ Sum(S) = h[S]
  BY DEF Sum, MapThenSumSet, MapThenFoldSet, Solves, Partial, Any

(* Solutions agree where both are defined.                                 *)
LEMMA SolutionsAgree ==
    ASSUME NEW S, IsFiniteSet(S), NEW A \in SUBSET S, NEW B \in SUBSET S,
           NEW g, Solves(A, g), NEW h, Solves(B, h)
    PROVE  \A s \in SUBSET (A \cap B) : g[s] = h[s]
  <1> DEFINE T == {s \in SUBSET (A \cap B) : g[s] # h[s]}
  <1> SUFFICES ASSUME T # {} PROVE FALSE
    OBVIOUS
  <1>1. T \in SUBSET (SUBSET S)
    OBVIOUS
  <1> HIDE DEF T
  <1>2. PICK s \in T : \A t \in T : t \subseteq s => t = s
    BY <1>1, LeastSet
  <1> USE DEF T
  <1>3. /\ g[s] = IF s = {} THEN 0 ELSE Any(s).value + g[s \ {Any(s)}]
        /\ h[s] = IF s = {} THEN 0 ELSE Any(s).value + h[s \ {Any(s)}]
    BY DEF Solves, Partial
  <1>4. s # {}
    BY <1>3
  <1>5. Any(s) \in s
    BY <1>4 DEF Any
  <1>6. g[s \ {Any(s)}] = h[s \ {Any(s)}]
    BY <1>2, <1>5
  <1>. QED
    BY <1>3, <1>6

(* Every finite set has a solution.                                        *)
LEMMA SolutionExists ==
    ASSUME NEW S, IsFiniteSet(S)
    PROVE  \E g : Solves(S, g)
  <1> DEFINE T == {A \in SUBSET S : ~\E g : Solves(A, g)}
  <1> SUFFICES ASSUME T # {} PROVE FALSE
    OBVIOUS
  <1>1. T \in SUBSET (SUBSET S)
    OBVIOUS
  <1> HIDE DEF T
  <1>2. PICK A \in T : \A B \in T : B \subseteq A => B = A
    BY <1>1, LeastSet
  <1> USE DEF T
  <1> DEFINE Of(B) == CHOOSE g : Solves(B, g)
             next(s) == s \ {Any(s)}
             whole == [s \in SUBSET A |->
                         IF s = {} THEN 0 ELSE Any(s).value + Of(next(s))[next(s)]]
  <1>3. ASSUME NEW s \in SUBSET A, s # {} PROVE next(s) \in SUBSET A /\ next(s) # A /\ next(s) # s
    BY <1>3 DEF Any
  <1>4. ASSUME NEW B \in SUBSET A, B # A PROVE Solves(B, Of(B))
    <2>1. \E g : Solves(B, g)
      BY <1>2, <1>4
    <2> QED
      BY <2>1
  <1> HIDE DEF Of
  <1>5. ASSUME NEW s \in SUBSET A, s # {} PROVE whole[next(s)] = Of(next(s))[next(s)]
    <2> DEFINE t == next(s)
    <2>1. t \in SUBSET A /\ t # A
      BY <1>3, <1>5
    <2>2. Solves(t, Of(t))
      BY <1>4, <2>1
    <2>3. Of(t)[t] = IF t = {} THEN 0 ELSE Any(t).value + Of(t)[next(t)]
      BY <2>2 DEF Solves, Partial
    <2>4. whole[t] = IF t = {} THEN 0 ELSE Any(t).value + Of(next(t))[next(t)]
      BY <2>1
    <2>5. CASE t = {}
      BY <2>3, <2>4, <2>5
    <2>6. CASE t # {}
      <3>1. next(t) \in SUBSET t /\ next(t) \in SUBSET A /\ next(t) # A
        BY <1>3, <2>1, <2>6
      <3>2. Solves(next(t), Of(next(t)))
        BY <1>4, <3>1
      <3>3. Of(t)[next(t)] = Of(next(t))[next(t)]
        BY <2>1, <2>2, <3>1, <3>2, SolutionsAgree
      <3> QED
        BY <2>3, <2>4, <2>6, <3>3
    <2> QED
      BY <2>5, <2>6
  <1>6. whole = Partial(A, whole)
    <2>1. \A s \in SUBSET A : whole[s] = IF s = {} THEN 0 ELSE Any(s).value + whole[next(s)]
      BY <1>5
    <2> QED
      BY <2>1 DEF Partial
  <1>. QED
    BY <1>6 DEF Solves

(* A sum takes one element first.                                          *)
LEMMA SumTakes ==
    ASSUME NEW S, IsFiniteSet(S)
    PROVE  Sum(S) = IF S = {} THEN 0 ELSE Any(S).value + Sum(S \ {Any(S)})
  <1>1. PICK g : Solves(S, g) /\ Sum(S) = g[S]
    BY SolutionExists, SumSolves
  <1>2. g[S] = IF S = {} THEN 0 ELSE Any(S).value + g[S \ {Any(S)}]
    BY <1>1 DEF Solves, Partial
  <1> DEFINE rest == S \ {Any(S)}
  <1>3. IsFiniteSet(rest)
    BY FS_RemoveElement
  <1>4. PICK h : Solves(rest, h) /\ Sum(rest) = h[rest]
    BY <1>3, SolutionExists, SumSolves
  <1>5. g[rest] = h[rest]
    BY <1>1, <1>4, SolutionsAgree
  <1>. QED
    BY <1>1, <1>2, <1>4, <1>5

(* It does not matter which.                                               *)
LEMMA SumOf ==
    ASSUME NEW S, IsFiniteSet(S), \A c \in S : c.value \in Nat
    PROVE  Sum(S) \in Nat /\ \A x \in S : Sum(S) = x.value + Sum(S \ {x})
  <1> DEFINE Good(A) == Sum(A) \in Nat /\ \A x \in A : Sum(A) = x.value + Sum(A \ {x})
             T == {A \in SUBSET S : ~Good(A)}
  <1> SUFFICES ASSUME T # {} PROVE FALSE
    OBVIOUS
  <1>1. T \in SUBSET (SUBSET S)
    OBVIOUS
  <1> HIDE DEF T
  <1>2. PICK A \in T : \A B \in T : B \subseteq A => B = A
    BY <1>1, LeastSet
  <1> USE DEF T
  <1>3. \A B \in SUBSET A : B # A => Good(B)
    BY <1>2
  <1>4. \A B \in SUBSET A : IsFiniteSet(B)
    BY FS_Subset
  <1>5. CASE A = {}
    <2>1. Sum({}) = 0
      BY FS_EmptySet, SumTakes, Zenon
    <2> QED
      BY <1>2, <1>5, <2>1
  <1>6. CASE A # {}
    <2> DEFINE y == Any(A)
    <2>1. y \in A
      BY <1>6 DEF Any
    <2>2. Sum(A) = y.value + Sum(A \ {y})
      BY <1>4, <1>6, SumTakes
    <2>3. Good(A \ {y})
      BY <1>3, <2>1
    <2>4. Sum(A) \in Nat
      BY <2>1, <2>2, <2>3
    <2>5. ASSUME NEW x \in A, x # y PROVE Sum(A) = x.value + Sum(A \ {x})
      <3> DEFINE rest == (A \ {y}) \ {x}
      <3>1. Sum(A \ {y}) = x.value + Sum(rest)
        BY <2>3, <2>5
      <3>2. Good(A \ {x})
        BY <1>3
      <3>3. Sum(A \ {x}) = y.value + Sum((A \ {x}) \ {y})
        BY <2>1, <2>5, <3>2
      <3>4. (A \ {x}) \ {y} = rest
        OBVIOUS
      <3>5. Sum(rest) \in Nat
        <4>1. rest \in SUBSET A /\ rest # A
          BY <2>1
        <4> QED
          BY <1>3, <4>1
      <3>6. x.value \in Nat /\ y.value \in Nat
        BY <2>1, <2>5
      <3> HIDE DEF y, Good, rest
      <3>7. Sum(A \ {x}) = y.value + Sum(rest)
        BY <3>3, <3>4, Zenon
      <3> QED
        BY <2>2, <3>1, <3>5, <3>6, <3>7
    <2> QED
      BY <1>2, <2>2, <2>4, <2>5
  <1>. QED
    <2> HIDE DEF Good
    <2> QED
      BY <1>5, <1>6

(* What a new element adds.                                                *)
LEMMA SumAdds ==
    ASSUME NEW S, IsFiniteSet(S), \A c \in S : c.value \in Nat,
           NEW x, x \notin S, x.value \in Nat
    PROVE  Sum(S \cup {x}) = Sum(S) + x.value
  <1> DEFINE U == S \cup {x}
  <1>1. IsFiniteSet(U)
    BY FS_AddElement
  <1>2. x \in U /\ \A c \in U : c.value \in Nat
    OBVIOUS
  <1>3. U \ {x} = S
    OBVIOUS
  <1> HIDE DEF U
  <1>4. Sum(U) = x.value + Sum(U \ {x})
    BY <1>1, <1>2, SumOf
  <1>5. Sum(S) \in Nat
    BY SumOf
  <1>6. Sum(U) = x.value + Sum(S)
    BY <1>3, <1>4, Zenon
  <1>7. Sum(U) = Sum(S) + x.value
    BY <1>5, <1>6
  <1>. QED
    BY <1>7 DEF U

-----------------------------------------------------------------------------
(* The inductive invariant.                                                *)

Remembered == UNION {[ids -> Nat] : ids \in SUBSET Id}

Typed ==
    /\ TypeOK
    /\ contributions \in [Row -> Remembered] /\ total \in [Row -> Nat \cup {None}]
    /\ nextEmit \in [Row -> BOOLEAN] /\ emissions \in [Row -> Nat]
    /\ output \in [Row -> Nat \cup {None}]

(* Contributions a row holds.                                              *)
CountedIn(r) == {c \in Contribution : c.id \in DOMAIN contributions[r]}

(* The total is the sum of what the row holds; a row that holds something  *)
(* is to be cleared, and is shown as it is or is to be emitted.            *)
RowSound(r) ==
    /\ \A c \in CountedIn(r) : contributions[r][c.id] = c.value
    /\ total[r] = IF CountedIn(r) = {} THEN None ELSE Sum(CountedIn(r))
    /\ r \in cleanups <=> total[r] # None
    /\ nextEmit[r] => total[r] # None
    /\ total[r] # None /\ ~nextEmit[r] => output[r] = total[r]

Sound == Typed /\ \A r \in Row : RowSound(r)

(* Rows are made of a channel and a window.                                *)
LEMMA RowType ==
    ASSUME known \subseteq Dimension, NEW c \in Contribution
    PROVE  RowOf(known, c) \in Row
  <1> DEFINE best == DimensionAt(known, c.time)
  <1>1. best \subseteq Dimension
    BY DEF DimensionAt
  <1> DEFINE channel == IF best = {} THEN "unknown" ELSE (CHOOSE d \in best : TRUE).channel
  <1>2. channel \in Channel
    <2>1. best # {} => (CHOOSE d \in best : TRUE) \in best
      OBVIOUS
    <2> HIDE DEF best
    <2> QED
      BY <1>1, <2>1 DEF Channel
  <1>3. RowOf(known, c) = <<channel, Start(c.time)>>
    BY DEF RowOf
  <1> HIDE DEF channel
  <1> QED
    BY <1>2, <1>3 DEF Row

(* Sums of contributions.                                                  *)
LEMMA SumType ==
    ASSUME NEW S \in SUBSET Contribution
    PROVE  IsFiniteSet(S) /\ Sum(S) \in Nat
  <1>1. IsFiniteSet(S) /\ \A c \in S : c.value \in Nat
    BY AggregateAssumption, FS_Subset
  <1> QED
    BY <1>1, SumOf

(* What is held is what was held and the contribution that came.           *)
LEMMA CountsHolds ==
    ASSUME Sound, NEW c \in Contribution, NEW r \in Row, r = RowOf(known, c), Counts(c)
    PROVE  /\ contributions' \in [Row -> Remembered]
           /\ CountedIn(r)' = CountedIn(r) \cup {c}
           /\ \A d \in CountedIn(r)' : contributions'[r][d.id] = d.value
           /\ \A s \in Row \ {r} : CountedIn(s)' = CountedIn(s) /\ contributions'[s] = contributions[s]
           /\ total'[r] = Sum(CountedIn(r)')
           /\ total' \in [Row -> Nat \cup {None}]
           /\ \A s \in Row \ {r} : total'[s] = total[s]
  <1> DEFINE held == contributions[r]
             now  == [i \in DOMAIN held \cup {c.id} |-> IF i = c.id THEN c.value ELSE held[i]]
             previous == IF c.id \in DOMAIN held THEN held[c.id] ELSE 0
  <1>1. r \in Row
    OBVIOUS
  <1>2. CountsAs(c, r, previous)
    BY DEF Counts
  <1>3. held \in Remembered
    BY <1>1 DEF Sound, Typed
  <1>4. PICK ids \in SUBSET Id : held \in [ids -> Nat]
    BY <1>3 DEF Remembered
  <1>5. c.id \in Id /\ c.value \in Nat
    BY AggregateAssumption DEF Id
  <1>6. now \in [ids \cup {c.id} -> Nat] /\ ids \cup {c.id} \in SUBSET Id
    BY <1>4, <1>5
  <1>7. now \in Remembered
    BY <1>6 DEF Remembered
  <1>8. contributions' = [contributions EXCEPT ![r] = now]
    BY <1>2 DEF CountsAs
  <1>9. contributions' \in [Row -> Remembered] /\ contributions'[r] = now
        /\ \A s \in Row \ {r} : contributions'[s] = contributions[s]
    BY <1>1, <1>7, <1>8 DEF Sound, Typed
  <1>10. CountedIn(r)' = CountedIn(r) \cup {c}
    BY <1>9, AggregateAssumption DEF CountedIn
  <1>11. \A d \in CountedIn(r)' : now[d.id] = d.value
    BY <1>1, <1>10, AggregateAssumption DEF CountedIn, Sound, RowSound
  <1>12. \A s \in Row \ {r} : CountedIn(s)' = CountedIn(s)
    BY <1>9 DEF CountedIn
  <1>13. total' = [total EXCEPT ![r] = (IF @ = None THEN 0 ELSE @) - previous + c.value]
    BY <1>2 DEF CountsAs
  <1>14. total'[r] = (IF total[r] = None THEN 0 ELSE total[r]) - previous + c.value
    BY <1>1, <1>13 DEF Sound, Typed
  <1> DEFINE was == CountedIn(r)
  <1>15. IsFiniteSet(was) /\ Sum(was) \in Nat /\ \A d \in was : d.value \in Nat
    BY SumType, AggregateAssumption DEF CountedIn
  <1>16. (IF total[r] = None THEN 0 ELSE total[r]) = Sum(was)
    <2>1. CASE was = {}
      BY <1>1, <1>15, <2>1, SumTakes DEF Sound, RowSound
    <2>2. CASE was # {}
      <3>1. total[r] = Sum(was)
        BY <1>1, <2>2 DEF Sound, RowSound
      <3> QED
        BY <1>15, <3>1, AggregateAssumption
    <2> QED
      BY <2>1, <2>2
  <1>17. Sum(was \cup {c}) = Sum(was) - previous + c.value
    <2>1. CASE c \in was
      <3>1. previous = c.value /\ was \cup {c} = was
        BY <1>1, <2>1 DEF CountedIn, Sound, RowSound
      <3> HIDE DEF was, previous
      <3>2. Sum(was \cup {c}) = Sum(was)
        BY <3>1, Zenon
      <3> QED
        BY <1>5, <1>15, <3>1, <3>2
    <2>2. CASE c \notin was
      <3>1. previous = 0
        BY <2>2 DEF CountedIn
      <3> HIDE DEF was, previous
      <3>2. Sum(was \cup {c}) = Sum(was) + c.value
        BY <1>5, <1>15, <2>2, SumAdds
      <3> QED
        BY <1>5, <1>15, <3>1, <3>2
    <2> QED
      BY <2>1, <2>2
  <1>18. total'[r] = Sum(was \cup {c})
    <2> HIDE DEF was, previous
    <2> QED
      BY <1>14, <1>16, <1>17
  <1>19. total'[r] = Sum(CountedIn(r)')
    BY <1>10, <1>18, Zenon
  <1>20. Sum(was \cup {c}) \in Nat
    BY SumType DEF CountedIn
  <1>21. total' \in [Row -> Nat \cup {None}] /\ \A s \in Row \ {r} : total'[s] = total[s]
    BY <1>1, <1>13, <1>18, <1>20 DEF Sound, Typed
  <1>. QED
    BY <1>1, <1>9, <1>10, <1>11, <1>12, <1>19, <1>21

(* The initial state.                                                      *)
LEMMA SoundInit == Init => Sound
  <1> SUFFICES ASSUME Init PROVE Sound
    OBVIOUS
  <1> USE AggregateAssumption DEF Init
  <1>1. [i \in {} |-> 0] \in Remembered
    <2>1. [i \in {} |-> 0] \in [{} -> Nat] /\ {} \in SUBSET Id
      OBVIOUS
    <2> QED
      BY <2>1 DEF Remembered
  <1>2. \A r \in Row : /\ DOMAIN contributions[r] \subseteq Id
                       /\ total[r] # None => total[r] \in Nat
                       /\ emissions[r] = IF nextEmit[r] THEN 1 ELSE 0
    OBVIOUS
  <1>3. TypeOK
    <2>1. /\ arrivals \in [Contribution -> 0..(MaxRepeats + 1)]
          /\ known \subseteq Dimension /\ moved \in BOOLEAN
          /\ watermark \in 0..MaxWatermark /\ restarts \in 0..MaxRestarts
      <3>1. 0 \in 0..(MaxRepeats + 1) /\ 0 \in 0..MaxWatermark /\ 0 \in 0..MaxRestarts
        OBVIOUS
      <3>2. arrivals \in [Contribution -> 0..(MaxRepeats + 1)]
        BY <3>1
      <3> QED
        BY <3>1, <3>2
    <2>2. receipts \in [Row -> SUBSET Id] /\ cleanups \subseteq Row /\ visible \subseteq Id
      OBVIOUS
    <2> HIDE DEF Init
    <2> QED
      BY <1>2, <2>1, <2>2 DEF TypeOK
  <1>4. Typed
    BY <1>1, <1>3 DEF Typed
  <1>5. ASSUME NEW r \in Row PROVE RowSound(r)
    <2>1. CountedIn(r) = {}
      BY DEF CountedIn
    <2> QED
      BY <2>1 DEF RowSound
  <1> QED
    BY <1>4, <1>5 DEF Sound

(* A row that a step leaves alone stays sound.                             *)
LEMMA RowStays ==
    ASSUME Sound, NEW s \in Row, RowSound(s),
           CountedIn(s)' = CountedIn(s), contributions'[s] = contributions[s], total'[s] = total[s],
           s \in cleanups' <=> s \in cleanups,
           nextEmit'[s] = nextEmit[s], output'[s] = output[s]
    PROVE  RowSound(s)'
  BY Zenon DEF RowSound

(* Contributions.                                                          *)
LEMMA CountsSound ==
    ASSUME Sound, NEW c \in Contribution, Counts(c)
    PROVE  Sound'
  <1> DEFINE q == RowOf(known, c)
  <1>1. PICK r \in Row : r = q
    BY RowType DEF Sound, Typed, TypeOK
  <1>2. PICK previous : CountsAs(c, r, previous)
    BY <1>1 DEF Counts
  <1> HIDE DEF q
  <1>3. /\ contributions' \in [Row -> Remembered]
        /\ CountedIn(r)' = CountedIn(r) \cup {c}
        /\ \A d \in CountedIn(r)' : contributions'[r][d.id] = d.value
        /\ \A s \in Row \ {r} : CountedIn(s)' = CountedIn(s) /\ contributions'[s] = contributions[s]
        /\ total'[r] = Sum(CountedIn(r)')
        /\ total' \in [Row -> Nat \cup {None}]
        /\ \A s \in Row \ {r} : total'[s] = total[s]
    BY <1>1, CountsHolds DEF q
  <1>4. total'[r] \in Nat /\ total'[r] # None
    <2>1. Sum(CountedIn(r)') \in Nat
      BY SumType DEF CountedIn
    <2> QED
      BY <1>3, <2>1, AggregateAssumption
  <1>5. /\ nextEmit' = [nextEmit EXCEPT ![r] = TRUE]
        /\ emissions' = [emissions EXCEPT ![r] = IF nextEmit[r] THEN @ ELSE @ + 1]
        /\ cleanups' = cleanups \cup {r} /\ output' = output
        /\ receipts' = [receipts EXCEPT ![r] = @ \cup {c.id}]
        /\ UNCHANGED <<known, moved, watermark, restarts, visible>>
    BY <1>2 DEF CountsAs, progress
  <1>6. TypeOK'
    <2> USE DEF Sound, Typed, TypeOK
    <2>1. arrivals' \in [Contribution -> 0..(MaxRepeats + 1)]
      BY <1>2, AggregateAssumption DEF CountsAs, Comes
    <2>2. receipts' \in [Row -> SUBSET Id]
      BY <1>5 DEF Id
    <2>3. ASSUME NEW s \in Row
          PROVE  /\ DOMAIN contributions'[s] \subseteq Id
                 /\ total'[s] # None => total'[s] \in Nat
                 /\ emissions'[s] = IF nextEmit'[s] THEN 1 ELSE 0
      <3>1. contributions'[s] \in Remembered
        BY <1>3
      <3>2. DOMAIN contributions'[s] \subseteq Id
        BY <3>1 DEF Remembered
      <3>3. emissions'[s] = IF nextEmit'[s] THEN 1 ELSE 0
        BY <1>5
      <3> QED
        BY <1>3, <3>2, <3>3
    <2> QED
      BY <1>5, <2>1, <2>2, <2>3
  <1>7. Typed'
    BY <1>3, <1>5, <1>6 DEF Sound, Typed
  <1>8. RowSound(r)'
    <2>1. nextEmit'[r] /\ r \in cleanups' /\ CountedIn(r)' # {}
      BY <1>3, <1>5 DEF Sound, Typed
    <2> QED
      BY <1>3, <1>4, <2>1 DEF RowSound
  <1>9. ASSUME NEW s \in Row, s # r PROVE RowSound(s)'
    <2>1. nextEmit'[s] = nextEmit[s] /\ output'[s] = output[s] /\ (s \in cleanups' <=> s \in cleanups)
      BY <1>5, <1>9 DEF Sound, Typed
    <2>2. RowSound(s)
      BY DEF Sound
    <2> QED
      BY <1>3, <1>9, <2>1, <2>2, RowStays
  <1> QED
    BY <1>7, <1>8, <1>9 DEF Sound

(* Emissions.                                                              *)
LEMMA EmissionSound ==
    ASSUME Sound, NEW r \in Row, EmissionTimer(r)
    PROVE  Sound'
  <1>1. /\ total[r] # None /\ emissions[r] > 0
        /\ output' = [output EXCEPT ![r] = total[r]]
        /\ receipts' = [receipts EXCEPT ![r] = {}] /\ visible' = visible \cup receipts[r]
        /\ emissions' = [emissions EXCEPT ![r] = @ - 1]
        /\ nextEmit' = [nextEmit EXCEPT ![r] = FALSE]
        /\ UNCHANGED <<arrivals, known, moved, watermark, restarts, contributions, total, cleanups>>
    BY DEF EmissionTimer, Emits, input, progress
  <1>2. Typed'
    BY <1>1 DEF Sound, Typed, TypeOK
  <1>3. \A s \in Row : CountedIn(s)' = CountedIn(s)
    BY <1>1 DEF CountedIn
  <1>4. RowSound(r)'
    <2>1. output'[r] = total[r] /\ ~nextEmit'[r]
      BY <1>1 DEF Sound, Typed
    <2> QED
      BY <1>1, <1>3, <2>1 DEF Sound, RowSound
  <1>5. ASSUME NEW s \in Row, s # r PROVE RowSound(s)'
    <2>1. nextEmit'[s] = nextEmit[s] /\ output'[s] = output[s]
      BY <1>1, <1>5 DEF Sound, Typed
    <2>2. RowSound(s)
      BY DEF Sound
    <2> QED
      BY <1>1, <1>3, <2>1, <2>2, RowStays
  <1> QED
    BY <1>2, <1>4, <1>5 DEF Sound

(* What a cleanup does.                                                    *)
LEMMA CleanupDoes ==
    ASSUME Sound, NEW r \in Row, CleanupTimer(r)
    PROVE  /\ r \in cleanups /\ watermark >= Cleanup(r) /\ total[r] # None
           /\ cleanups' = cleanups \ {r}
           /\ output' = [output EXCEPT ![r] = total[r]]
           /\ receipts' = [receipts EXCEPT ![r] = {}] /\ visible' = visible \cup receipts[r]
           /\ contributions' = [contributions EXCEPT ![r] = [i \in {} |-> 0]]
           /\ total' = [total EXCEPT ![r] = None]
           /\ emissions' = [emissions EXCEPT ![r] = IF nextEmit[r] THEN @ - 1 ELSE @]
           /\ nextEmit' = [nextEmit EXCEPT ![r] = FALSE]
           /\ UNCHANGED <<arrivals, known, moved, watermark, restarts, signals>>
           /\ CountedIn(r)' = {}
           /\ \A s \in Row \ {r} : CountedIn(s)' = CountedIn(s)
  <1>1. /\ r \in cleanups /\ watermark >= Cleanup(r) /\ total[r] # None
        /\ cleanups' = cleanups \ {r}
        /\ output' = [output EXCEPT ![r] = total[r]]
        /\ receipts' = [receipts EXCEPT ![r] = {}] /\ visible' = visible \cup receipts[r]
        /\ contributions' = [contributions EXCEPT ![r] = [i \in {} |-> 0]]
        /\ total' = [total EXCEPT ![r] = None]
        /\ emissions' = [emissions EXCEPT ![r] = IF nextEmit[r] THEN @ - 1 ELSE @]
        /\ nextEmit' = [nextEmit EXCEPT ![r] = FALSE]
        /\ UNCHANGED <<arrivals, known, moved, watermark, restarts, signals>>
    BY DEF CleanupTimer, CleanupWith, Emits, input, progress
  <1>2. contributions'[r] = [i \in {} |-> 0] /\ \A s \in Row \ {r} : contributions'[s] = contributions[s]
    BY <1>1 DEF Sound, Typed
  <1>3. CountedIn(r)' = {} /\ \A s \in Row \ {r} : CountedIn(s)' = CountedIn(s)
    BY <1>2 DEF CountedIn
  <1> QED
    BY <1>1, <1>3

(* Cleanups.                                                               *)
LEMMA CleanupSound ==
    ASSUME Sound, NEW r \in Row, CleanupTimer(r)
    PROVE  Sound'
  <1>1. [i \in {} |-> 0] \in Remembered
    <2>1. [i \in {} |-> 0] \in [{} -> Nat] /\ {} \in SUBSET Id
      OBVIOUS
    <2> QED
      BY <2>1 DEF Remembered
  <1>2. Typed'
    <2> USE DEF Sound, Typed, TypeOK
    <2>1. contributions' \in [Row -> Remembered]
      BY <1>1, CleanupDoes
    <2>2. /\ total' \in [Row -> Nat \cup {None}]
          /\ nextEmit' \in [Row -> BOOLEAN] /\ output' \in [Row -> Nat \cup {None}]
          /\ receipts' \in [Row -> SUBSET Id]
          /\ cleanups' \subseteq Row /\ visible' \subseteq Id
      BY CleanupDoes
    <2>3. emissions' \in [Row -> Nat] /\ \A s \in Row : emissions'[s] = IF nextEmit'[s] THEN 1 ELSE 0
      <3>1. \A s \in Row : emissions[s] = IF nextEmit[s] THEN 1 ELSE 0
        OBVIOUS
      <3>2. /\ emissions'[r] = IF nextEmit[r] THEN emissions[r] - 1 ELSE emissions[r]
            /\ \A s \in Row \ {r} : emissions'[s] = emissions[s]
        BY CleanupDoes
      <3>3. ~nextEmit'[r] /\ \A s \in Row \ {r} : nextEmit'[s] <=> nextEmit[s]
        BY CleanupDoes
      <3>4. emissions'[r] = 0
        BY <3>1, <3>2
      <3>5. emissions' = [s \in Row |-> emissions'[s]]
        BY CleanupDoes
      <3>6. \A s \in Row : emissions'[s] \in Nat
        BY <3>2, <3>4
      <3>7. \A s \in Row : emissions'[s] = IF nextEmit'[s] THEN 1 ELSE 0
        BY <3>1, <3>2, <3>3, <3>4
      <3> QED
        BY <3>5, <3>6, <3>7
    <2>4. \A s \in Row : total'[s] # None => total'[s] \in Nat
      BY <2>2
    <2>5. \A s \in Row : DOMAIN contributions'[s] \subseteq Id
      <3>1. \A x \in Remembered : DOMAIN x \subseteq Id
        BY DEF Remembered
      <3> QED
        BY <2>1, <3>1
    <2>6. UNCHANGED <<arrivals, known, moved, watermark, restarts>>
      BY CleanupDoes
    <2> QED
      BY <2>1, <2>2, <2>3, <2>4, <2>5, <2>6
  <1>3. RowSound(r)'
    <2>1. total'[r] = None /\ ~nextEmit'[r] /\ r \notin cleanups' /\ CountedIn(r)' = {}
      BY CleanupDoes DEF Sound, Typed
    <2> QED
      BY <2>1 DEF RowSound
  <1>4. ASSUME NEW s \in Row, s # r PROVE RowSound(s)'
    <2>1. /\ nextEmit'[s] = nextEmit[s] /\ output'[s] = output[s] /\ total'[s] = total[s]
          /\ contributions'[s] = contributions[s] /\ (s \in cleanups' <=> s \in cleanups)
      BY <1>4, CleanupDoes DEF Sound, Typed
    <2>2. RowSound(s) /\ CountedIn(s)' = CountedIn(s)
      BY <1>4, CleanupDoes DEF Sound
    <2> QED
      BY <2>1, <2>2, RowStays
  <1> QED
    BY <1>2, <1>3, <1>4 DEF Sound

(* Steps that leave the rows alone.                                        *)
LEMMA OtherSound ==
    ASSUME Sound,
           \/ \E d \in Dimension : DimensionArrives(d)
           \/ \E c \in Contribution : Frozen(c)
           \/ \E t \in 1..MaxWatermark : WatermarkAdvances(t)
           \/ Restart \/ UNCHANGED vars
    PROVE  /\ Sound'
           /\ UNCHANGED <<keyed, output>>
           /\ \A r \in Row : CountedIn(r)' = CountedIn(r)
  <1>1. UNCHANGED <<keyed, output, visible>>
    BY DEF DimensionArrives, Frozen, WatermarkAdvances, Restart, outputs, vars
  <1>2. \A r \in Row : CountedIn(r)' = CountedIn(r)
    BY <1>1 DEF CountedIn, keyed
  <1>3. ASSUME NEW r \in Row PROVE RowSound(r)'
    <2>1. RowSound(r)
      BY DEF Sound
    <2> QED
      BY <1>1, <1>2, <2>1, RowStays DEF keyed
  <1>4. /\ arrivals' \in [Contribution -> 0..(MaxRepeats + 1)]
        /\ known' \subseteq Dimension /\ moved' \in BOOLEAN
        /\ watermark' \in 0..MaxWatermark /\ restarts' \in 0..MaxRestarts
    <2> USE AggregateAssumption DEF Sound, Typed, TypeOK
    <2>1. ASSUME NEW d \in Dimension, DimensionArrives(d) PROVE <1>4!:
      <3>1. \A c \in Arrived : (RowOf(known, c) # RowOf(known', c)) \in BOOLEAN
        OBVIOUS
      <3> QED
        BY <2>1, <3>1 DEF DimensionArrives, progress
    <2>2. ASSUME NEW c \in Contribution, Frozen(c) PROVE <1>4!:
      BY <2>2 DEF Frozen, Comes, progress
    <2>3. ASSUME NEW t \in 1..MaxWatermark, WatermarkAdvances(t) PROVE <1>4!:
      BY <2>3 DEF WatermarkAdvances, input
    <2>4. CASE Restart
      BY <2>4 DEF Restart, input
    <2>5. CASE UNCHANGED vars
      BY <2>5 DEF vars, input, progress
    <2> QED
      BY <2>1, <2>2, <2>3, <2>4, <2>5
  <1>5. Typed'
    BY <1>1, <1>4 DEF keyed, Sound, Typed, TypeOK
  <1> QED
    BY <1>1, <1>2, <1>3, <1>5 DEF Sound

(* All steps.                                                              *)
LEMMA SoundStep == Sound /\ [Next]_vars => Sound'
  BY CountsSound, EmissionSound, CleanupSound, OtherSound DEF Next

(* The variables keep their types, and each row is the sum of what it holds*)
(* (AttributionJob.java:194-231).                                          *)
THEOREM SoundCorrect == Spec => []Sound
  BY SoundInit, SoundStep, PTL DEF Spec

(* The types, and the one timer of each row that is to be emitted.         *)
THEOREM TypeCorrect == Spec => []TypeOK
  <1>1. Sound => TypeOK
    BY DEF Sound, Typed
  <1> QED
    BY <1>1, SoundCorrect, PTL

-----------------------------------------------------------------------------
(* The rows are those of MetricRow.                                        *)

Held   == [r \in Row |-> {c \in Contribution : c.id \in DOMAIN contributions[r]}]
Closed == {r \in Row \ cleanups : watermark >= Cleanup(r)}

(* Both add up in the same way.                                            *)
LEMMA SameSum == \A S : Rows!Total(S) = Sum(S)
  BY DEF Sum, Rows!Total, Rows!Value, MapThenSumSet, MapThenFoldSet, Rows!MapThenSumSet, Rows!MapThenFoldSet

(* No window ends at time 0.                                               *)
LEMMA CleanupType ==
    ASSUME NEW r \in Row
    PROVE  Cleanup(r) \in Nat \ {0}
  <1>1. PICK c \in Contribution : r[2] = Start(c.time)
    BY DEF Row
  <1>2. c.time \div Window \in Nat
    BY AggregateAssumption
  <1>3. r[2] \in Nat
    BY <1>1, <1>2, AggregateAssumption DEF Start
  <1> QED
    BY <1>3, AggregateAssumption DEF Cleanup

(* The first state has no rows, and no window has ended.                   *)
LEMMA RowsStart == Init => Rows!Init
  <1> SUFFICES ASSUME Init PROVE Rows!Init
    OBVIOUS
  <1>1. Held = [r \in Row |-> {}]
    BY DEF Init, Held
  <1>2. \A r \in Row : ~(0 >= Cleanup(r))
    BY CleanupType
  <1>3. Closed = {}
    BY <1>2 DEF Init, Closed
  <1> QED
    BY <1>1, <1>3 DEF Rows!Init, Held, Closed, Init

(* A contribution that is counted is counted in an open row.               *)
LEMMA CountsIsCount ==
    ASSUME Sound, NEW c \in Contribution, Counts(c)
    PROVE  Rows!Next
  <1> DEFINE q == RowOf(known, c)
  <1>1. PICK r \in Row : r = q
    BY RowType DEF Sound, Typed, TypeOK
  <1>2. PICK previous : CountsAs(c, r, previous)
    BY <1>1 DEF Counts
  <1> HIDE DEF q
  <1>3. /\ CountedIn(r)' = CountedIn(r) \cup {c}
        /\ \A s \in Row \ {r} : CountedIn(s)' = CountedIn(s)
    BY <1>1, CountsHolds DEF q
  <1>4. Held' = [Held EXCEPT ![r] = @ \cup {c}]
    BY <1>3 DEF Held, CountedIn
  <1>5. /\ watermark < Cleanup(r) /\ cleanups' = cleanups \cup {r}
        /\ watermark' = watermark /\ output' = output
    BY <1>2 DEF CountsAs, progress
  <1>6. r \notin Closed /\ Closed' = Closed
    <2>1. watermark \in Nat /\ Cleanup(r) \in Nat
      BY CleanupType, AggregateAssumption DEF Sound, Typed, TypeOK
    <2>2. ~(watermark >= Cleanup(r))
      BY <1>5, <2>1
    <2> QED
      BY <1>5, <2>2 DEF Closed
  <1>7. Rows!Count(r, c)
    BY <1>4, <1>5, <1>6 DEF Rows!Count, Held, Closed
  <1> QED
    BY <1>7 DEF Rows!Next

(* An emission shows the sum of what the row holds.                        *)
LEMMA EmissionIsShow ==
    ASSUME Sound, NEW r \in Row, EmissionTimer(r)
    PROVE  Rows!Next
  <1>1. /\ total[r] # None /\ output' = [output EXCEPT ![r] = total[r]]
        /\ UNCHANGED <<contributions, cleanups, watermark>>
    BY DEF EmissionTimer, Emits, input, progress
  <1>2. CountedIn(r) # {} /\ total[r] = Sum(CountedIn(r))
    BY <1>1 DEF Sound, RowSound
  <1>3. Held[r] = CountedIn(r)
    BY DEF Held, CountedIn
  <1>4. Rows!Total(Held[r]) = total[r] /\ Held[r] # {}
    BY <1>2, <1>3, SameSum, Zenon
  <1>5. Held' = Held /\ Closed' = Closed
    BY <1>1 DEF Held, Closed
  <1>6. Rows!Show(r)
    BY <1>1, <1>4, <1>5 DEF Rows!Show, Rows!Shows, Held, Closed
  <1> QED
    BY <1>6 DEF Rows!Next

(* A cleanup shows the row a last time and closes it.                      *)
LEMMA CleanupIsClose ==
    ASSUME Sound, NEW r \in Row, CleanupTimer(r)
    PROVE  Rows!Next
  <1>1. CountedIn(r) # {} /\ total[r] = Sum(CountedIn(r))
    BY CleanupDoes DEF Sound, RowSound
  <1>2. Held[r] = CountedIn(r)
    BY DEF Held, CountedIn
  <1>3. Rows!Total(Held[r]) = total[r] /\ Held[r] # {}
    BY <1>1, <1>2, SameSum, Zenon
  <1>4. Held' = [Held EXCEPT ![r] = {}]
    BY CleanupDoes DEF Held, CountedIn
  <1>5. Closed' = Closed \cup {r}
    BY CleanupDoes DEF Closed
  <1>6. output' = [output EXCEPT ![r] = total[r]]
    BY CleanupDoes
  <1>7. Rows!Close(r)
    BY <1>3, <1>4, <1>5, <1>6 DEF Rows!Close, Rows!Shows, Held, Closed
  <1> QED
    BY <1>7 DEF Rows!Next

(* When event time advances, windows without contributions pass, and the   *)
(* others wait for their cleanup.                                          *)
LEMMA WatermarkIsPass ==
    ASSUME Sound, NEW t \in 1..MaxWatermark, WatermarkAdvances(t)
    PROVE  Rows!Next
  <1>1. UNCHANGED <<contributions, cleanups, output>> /\ watermark < t /\ watermark' = t
    BY DEF WatermarkAdvances, keyed, outputs
  <1> DEFINE rs == {r \in Row \ cleanups : t >= Cleanup(r)}
  <1>2. \A r \in rs : Held[r] = {}
    <2>1. ASSUME NEW r \in Row \ cleanups PROVE CountedIn(r) = {}
      <3>1. RowSound(r) /\ r \notin cleanups
        BY DEF Sound
      <3>2. \A S \in SUBSET Contribution : Sum(S) # None
        BY SumType, AggregateAssumption
      <3> QED
        BY <3>1, <3>2 DEF RowSound, CountedIn
    <2> QED
      BY <2>1 DEF CountedIn, Held
  <1>3. Closed' = Closed \cup rs
    <2>1. watermark \in Nat /\ t \in Nat /\ \A r \in Row : Cleanup(r) \in Nat
      BY CleanupType, AggregateAssumption DEF Sound, Typed, TypeOK
    <2>2. \A r \in Row : watermark >= Cleanup(r) => t >= Cleanup(r)
      BY <1>1, <2>1
    <2> QED
      BY <1>1, <2>2 DEF Closed
  <1>4. Held' = Held
    BY <1>1 DEF Held
  <1>5. rs \in SUBSET Row
    OBVIOUS
  <1>6. Rows!Pass(rs)
    BY <1>1, <1>2, <1>3, <1>4 DEF Rows!Pass, Held, Closed
  <1> QED
    BY <1>5, <1>6 DEF Rows!Next

(* A restart forgets how far event time had come.                          *)
LEMMA RestartIsRestart ==
    ASSUME Sound, Restart
    PROVE  Rows!Next
  <1>1. UNCHANGED <<contributions, output>> /\ watermark' = 0
    BY DEF Restart, keyed, outputs
  <1>2. Held' = Held
    BY <1>1 DEF Held
  <1>3. \A r \in Row : ~(0 >= Cleanup(r))
    BY CleanupType
  <1>4. Closed' = {}
    BY <1>1, <1>3 DEF Closed, Cleanup
  <1>5. Rows!Restart
    BY <1>1, <1>2, <1>4 DEF Rows!Restart, Held, Closed
  <1> QED
    BY <1>5 DEF Rows!Next

(* Readers see nothing of what is refused, nor of a change of dimensions.  *)
LEMMA OthersStutter ==
    ASSUME \/ \E d \in Dimension : DimensionArrives(d)
           \/ \E c \in Contribution : Frozen(c)
           \/ UNCHANGED vars
    PROVE  UNCHANGED Rows!vars
  <1>1. UNCHANGED <<contributions, cleanups, output, watermark>>
    BY DEF DimensionArrives, Frozen, vars, keyed, progress, outputs
  <1> QED
    BY <1>1 DEF Rows!vars

(* The aggregate implements MetricRow: every row shows the sum of what was *)
(* counted in it, each contribution once, and a closed row takes nothing   *)
(* more (AttributionJob.java:196-230).                                     *)
THEOREM RowsCorrect == Spec => RowsImplemented
  <1>1. Sound /\ [Next]_vars => [Rows!Next]_(Rows!vars)
    BY CountsIsCount, EmissionIsShow, CleanupIsClose, WatermarkIsPass, RestartIsRestart,
       OthersStutter DEF Next
  <1> QED
    BY <1>1, RowsStart, SoundCorrect, PTL DEF Spec, RowsImplemented, Rows!Spec

-----------------------------------------------------------------------------
(* Rows agree with the oracle.                                             *)

NotAfter(e, d) == e.version < d.version \/ (e.version = d.version /\ e.from <= d.from)

(* The broadcast state is finite, and a version has one row in it.         *)
KnownSound ==
    /\ IsFiniteSet(known)
    /\ \A d, e \in known : d.from = e.from /\ d.version = e.version => d = e

(* Of the versions that are valid at a time one is the latest.             *)
LEMMA LatestExists ==
    ASSUME NEW S \in SUBSET Dimension, IsFiniteSet(S), S # {}
    PROVE  \E d \in S : \A e \in S : NotAfter(e, d)
  <1> DEFINE Above(d) == {e \in S : ~NotAfter(e, d)}
             T == {Above(d) : d \in S}
  <1>1. T \in SUBSET (SUBSET S) /\ T # {}
    OBVIOUS
  <1> HIDE DEF T
  <1>2. PICK A \in T : \A B \in T : B \subseteq A => B = A
    BY <1>1, LeastSet
  <1>3. PICK d \in S : A = Above(d)
    BY <1>2 DEF T
  <1>4. ASSUME NEW e \in Above(d) PROVE FALSE
    <2>1. e \in S /\ ~NotAfter(e, d)
      OBVIOUS
    <2>2. Above(e) \in T
      BY <2>1 DEF T
    <2>3. \A x \in S : x.from \in Nat /\ x.version \in Nat
      BY AggregateAssumption
    <2>4. \A x \in S : ~NotAfter(x, e) => ~NotAfter(x, d)
      BY <2>1, <2>3 DEF NotAfter
    <2>5. NotAfter(e, e)
      BY <2>1, <2>3 DEF NotAfter
    <2>6. Above(e) \subseteq Above(d) /\ e \notin Above(e)
      BY <2>4, <2>5
    <2> QED
      BY <1>2, <1>3, <2>2, <2>6
  <1> QED
    BY <1>4

(* The job and the oracle take the same version.                           *)
LEMMA SameChannel ==
    ASSUME KnownSound, known \subseteq Dimension, NEW c \in Contribution
    PROVE  RowOf(known, c) = <<OracleChannel(known, c.time), Start(c.time)>>
  <1> DEFINE time == c.time
             candidates == {d \in known : d.from <= time /\ (d.to = None \/ time < d.to)}
             best == {d \in candidates : \A e \in candidates : NotAfter(e, d)}
             latest == CHOOSE d \in candidates : \A e \in candidates : NotAfter(e, d)
  <1>1. candidates = {d \in known : ValidAt(d, time)}
    BY DEF ValidAt
  <1>2. DimensionAt(known, time) = best
    BY <1>1 DEF DimensionAt, NotAfter
  <1>3. OracleChannel(known, time) = IF candidates = {} THEN "unknown" ELSE latest.channel
    BY DEF OracleChannel, NotAfter
  <1>4. candidates \in SUBSET Dimension /\ IsFiniteSet(candidates)
    BY FS_Subset DEF KnownSound
  <1>5. CASE candidates = {}
    BY <1>2, <1>3, <1>5 DEF RowOf
  <1>6. CASE candidates # {}
    <2>1. \E d \in candidates : \A e \in candidates : NotAfter(e, d)
      BY <1>4, <1>6, LatestExists
    <2>2. latest \in best
      BY <2>1
    <2>3. \A d, e \in best : d = e
      BY <1>4, AggregateAssumption DEF NotAfter, KnownSound
    <2>4. (CHOOSE d \in best : TRUE) \in best
      BY <2>2
    <2> HIDE DEF best, latest, candidates
    <2>5. (CHOOSE d \in best : TRUE) = latest
      BY <2>2, <2>3, <2>4
    <2>6. OracleChannel(known, time) = latest.channel /\ best # {}
      BY <1>3, <1>6, <2>2
    <2> QED
      BY <1>2, <2>5, <2>6 DEF RowOf
  <1> QED
    BY <1>5, <1>6

(* Nothing happened that asks for a replay of this campaign.               *)
Undisturbed == ~moved /\ restarts = 0 /\ "METRIC_FROZEN_REPLAY_REQUIRED" \notin signals

ArrivedIn(r) == {c \in Arrived : RowOf(known, c) = r}

(* An open row holds all that came for it; when it is closed, nothing comes*)
(* for it any more, and it was shown with all of it.                       *)
RowAgrees(r) ==
    \/ total[r] # None /\ CountedIn(r) = ArrivedIn(r)
    \/ total[r] = None /\ ArrivedIn(r) = {} /\ output[r] = None
    \/ /\ total[r] = None /\ watermark >= Cleanup(r)
       /\ ArrivedIn(r) # {} /\ output[r] = Sum(ArrivedIn(r))

Agreed == Undisturbed => \A r \in Row : RowAgrees(r)

AgreeInv == Sound /\ KnownSound /\ Agreed

(* Nothing has come.                                                       *)
LEMMA AgreeInit == Init => KnownSound /\ Agreed
  <1> SUFFICES ASSUME Init PROVE KnownSound /\ Agreed
    OBVIOUS
  <1>1. KnownSound
    BY FS_EmptySet DEF Init, KnownSound
  <1>2. \A r \in Row : ArrivedIn(r) = {}
    BY DEF Init, ArrivedIn, Arrived
  <1>3. Agreed
    BY <1>2 DEF Init, Agreed, RowAgrees
  <1> QED
    BY <1>1, <1>3

(* A row replaces the one of its version.                                  *)
LEMMA KnownStep ==
    ASSUME KnownSound, [Next]_vars
    PROVE  KnownSound'
  <1>1. ASSUME NEW d \in Dimension, DimensionArrives(d) PROVE KnownSound'
    <2> DEFINE others == {e \in known : e.from # d.from \/ e.version # d.version}
    <2>1. known' = others \cup {d}
      BY <1>1 DEF DimensionArrives
    <2>2. IsFiniteSet(others)
      BY FS_Subset DEF KnownSound
    <2>3. IsFiniteSet(known')
      BY <2>1, <2>2, FS_AddElement
    <2> QED
      BY <2>1, <2>3 DEF KnownSound
  <1>2. ASSUME UNCHANGED known PROVE KnownSound'
    BY <1>2 DEF KnownSound
  <1>3. \/ \E d \in Dimension : DimensionArrives(d)
        \/ UNCHANGED known
    BY DEF Next, Frozen, Counts, CountsAs, EmissionTimer, CleanupTimer, CleanupWith,
           WatermarkAdvances, Restart, vars, input
  <1> QED
    BY <1>1, <1>2, <1>3

(* A disturbance stays.                                                    *)
LEMMA UndisturbedBefore ==
    ASSUME Sound, [Next]_vars, Undisturbed'
    PROVE  Undisturbed
  <1> USE DEF Undisturbed
  <1>1. ASSUME NEW d \in Dimension, DimensionArrives(d) PROVE Undisturbed
    BY <1>1 DEF DimensionArrives, progress
  <1>2. ASSUME NEW c \in Contribution, Frozen(c) PROVE Undisturbed
    BY <1>2 DEF Frozen, progress
  <1>3. ASSUME NEW c \in Contribution, Counts(c) PROVE Undisturbed
    BY <1>3 DEF Counts, CountsAs, progress
  <1>4. ASSUME NEW r \in Row, EmissionTimer(r) PROVE Undisturbed
    BY <1>4 DEF EmissionTimer, input, progress
  <1>5. ASSUME NEW r \in Row, CleanupTimer(r) PROVE Undisturbed
    BY <1>5 DEF CleanupTimer, CleanupWith, input, progress
  <1>6. ASSUME NEW t \in 1..MaxWatermark, WatermarkAdvances(t) PROVE Undisturbed
    BY <1>6 DEF WatermarkAdvances, input, outputs
  <1>7. CASE Restart
    <2>1. restarts \in Nat /\ restarts' = restarts + 1
      BY <1>7, AggregateAssumption DEF Restart, Sound, Typed, TypeOK
    <2> QED
      BY <2>1
  <1>8. CASE UNCHANGED vars
    BY <1>8 DEF vars, input, progress, outputs
  <1> QED
    BY <1>1, <1>2, <1>3, <1>4, <1>5, <1>6, <1>7, <1>8 DEF Next

(* What came for a row, after a contribution.                              *)
LEMMA CountsArrives ==
    ASSUME Sound, NEW c \in Contribution, Counts(c), NEW r \in Row, r = RowOf(known, c)
    PROVE  /\ ArrivedIn(r)' = ArrivedIn(r) \cup {c}
           /\ \A s \in Row \ {r} : ArrivedIn(s)' = ArrivedIn(s)
  <1>1. arrivals' = [arrivals EXCEPT ![c] = @ + 1] /\ known' = known
    BY DEF Counts, CountsAs, Comes
  <1>2. \A d \in Contribution : arrivals[d] \in Nat
    BY AggregateAssumption DEF Sound, Typed, TypeOK
  <1>3. arrivals'[c] > 0 /\ \A d \in Contribution \ {c} : arrivals'[d] = arrivals[d]
    BY <1>1, <1>2 DEF Sound, Typed, TypeOK
  <1>4. Arrived' = Arrived \cup {c}
    BY <1>3 DEF Arrived
  <1> QED
    BY <1>1, <1>4 DEF ArrivedIn

(* Rows stay in agreement.                                                 *)
LEMMA AgreedStep ==
    ASSUME Sound, Agreed, [Next]_vars
    PROVE  Agreed'
  <1> SUFFICES ASSUME Undisturbed' PROVE \A r \in Row : RowAgrees(r)'
    BY DEF Agreed
  <1>1. Undisturbed /\ \A r \in Row : RowAgrees(r)
    BY UndisturbedBefore DEF Agreed
  <1>2. ASSUME NEW r \in Row,
               CountedIn(r)' = CountedIn(r), ArrivedIn(r)' = ArrivedIn(r),
               total'[r] = total[r], output'[r] = output[r],
               watermark >= Cleanup(r) => watermark' >= Cleanup(r)
        PROVE  RowAgrees(r)'
    <2>1. RowAgrees(r) /\ Cleanup(r)' = Cleanup(r)
      BY <1>1 DEF Cleanup
    <2>2. Sum(ArrivedIn(r)') = Sum(ArrivedIn(r))
      BY <1>2, Zenon
    <2> QED
      BY <1>2, <2>1, <2>2 DEF RowAgrees
  <1>3. ASSUME NEW d \in Dimension, DimensionArrives(d) PROVE \A r \in Row : RowAgrees(r)'
    <2>1. /\ UNCHANGED <<arrivals, watermark, contributions, total, output>>
          /\ moved' = (moved \/ \E c \in Arrived : RowOf(known, c) # RowOf(known', c))
      BY <1>3 DEF DimensionArrives, progress, keyed
    <2>2. \A c \in Arrived : RowOf(known, c) = RowOf(known', c)
      BY <2>1 DEF Undisturbed
    <2>3. \A r \in Row : CountedIn(r)' = CountedIn(r) /\ ArrivedIn(r)' = ArrivedIn(r)
      BY <2>1, <2>2 DEF CountedIn, ArrivedIn, Arrived
    <2> QED
      BY <1>2, <2>1, <2>3
  <1>4. ASSUME NEW c \in Contribution, Frozen(c) PROVE FALSE
    BY <1>4 DEF Frozen, Undisturbed
  <1>5. ASSUME NEW c \in Contribution, Counts(c) PROVE \A r \in Row : RowAgrees(r)'
    <2> DEFINE q == RowOf(known, c)
    <2>1. PICK r \in Row : r = q
      BY RowType DEF Sound, Typed, TypeOK
    <2>2. PICK previous : CountsAs(c, r, previous)
      BY <1>5, <2>1 DEF Counts
    <2>3. /\ CountedIn(r)' = CountedIn(r) \cup {c}
          /\ \A s \in Row \ {r} : CountedIn(s)' = CountedIn(s)
          /\ total'[r] = Sum(CountedIn(r)')
          /\ \A s \in Row \ {r} : total'[s] = total[s]
      BY <1>5, <2>1, CountsHolds
    <2>4. /\ ArrivedIn(r)' = ArrivedIn(r) \cup {c}
          /\ \A s \in Row \ {r} : ArrivedIn(s)' = ArrivedIn(s)
      BY <1>5, <2>1, CountsArrives
    <2>5. watermark < Cleanup(r) /\ watermark' = watermark /\ output' = output
      BY <2>2 DEF CountsAs, progress
    <2> HIDE DEF q
    <2>6. RowAgrees(r)'
      <3>1. ~(watermark >= Cleanup(r))
        BY <2>5, CleanupType, AggregateAssumption DEF Sound, Typed, TypeOK
      <3>2. CountedIn(r) = ArrivedIn(r)
        <4>1. total[r] = None => CountedIn(r) = {}
          <5>1. Sum(CountedIn(r)) # None
            BY SumType, AggregateAssumption DEF CountedIn
          <5> QED
            BY <5>1 DEF Sound, RowSound
        <4> QED
          BY <1>1, <3>1, <4>1 DEF RowAgrees
      <3>3. total'[r] # None
        BY <2>3, SumType, AggregateAssumption DEF CountedIn
      <3> QED
        BY <2>3, <2>4, <3>2, <3>3 DEF RowAgrees
    <2> QED
      BY <1>2, <2>3, <2>4, <2>5, <2>6
  <1>6. ASSUME NEW r \in Row, EmissionTimer(r) PROVE \A s \in Row : RowAgrees(s)'
    <2>1. /\ total[r] # None /\ output' = [output EXCEPT ![r] = total[r]]
          /\ UNCHANGED <<arrivals, known, watermark, contributions, total>>
      BY <1>6 DEF EmissionTimer, Emits, input, progress
    <2>2. \A s \in Row : CountedIn(s)' = CountedIn(s) /\ ArrivedIn(s)' = ArrivedIn(s)
      BY <2>1 DEF CountedIn, ArrivedIn, Arrived
    <2>3. RowAgrees(r)'
      BY <1>1, <2>1, <2>2 DEF RowAgrees
    <2>4. \A s \in Row \ {r} : output'[s] = output[s]
      BY <2>1 DEF Sound, Typed
    <2> QED
      BY <1>2, <2>1, <2>2, <2>3, <2>4
  <1>7. ASSUME NEW r \in Row, CleanupTimer(r) PROVE \A s \in Row : RowAgrees(s)'
    <2>1. UNCHANGED <<arrivals, known, watermark>>
      BY <1>7, CleanupDoes
    <2>2. \A s \in Row : ArrivedIn(s)' = ArrivedIn(s)
      BY <2>1 DEF ArrivedIn, Arrived
    <2>3. /\ \A s \in Row \ {r} : /\ CountedIn(s)' = CountedIn(s)
                                 /\ total'[s] = total[s] /\ output'[s] = output[s]
          /\ total'[r] = None /\ output'[r] = total[r]
          /\ watermark >= Cleanup(r) /\ total[r] # None
      BY <1>7, CleanupDoes DEF Sound, Typed
    <2>4. CountedIn(r) = ArrivedIn(r) /\ CountedIn(r) # {} /\ total[r] = Sum(CountedIn(r))
      BY <1>1, <2>3 DEF RowAgrees, Sound, RowSound
    <2>5. total[r] = Sum(ArrivedIn(r)')
      BY <2>2, <2>4, Zenon
    <2>6. RowAgrees(r)'
      BY <2>1, <2>2, <2>3, <2>4, <2>5 DEF RowAgrees, Cleanup
    <2> QED
      BY <1>2, <2>1, <2>2, <2>3, <2>6
  <1>8. ASSUME NEW t \in 1..MaxWatermark, WatermarkAdvances(t) PROVE \A r \in Row : RowAgrees(r)'
    <2>1. /\ UNCHANGED <<arrivals, known, contributions, total, output>>
          /\ watermark < t /\ watermark' = t
      BY <1>8 DEF WatermarkAdvances, input, keyed, outputs
    <2>2. \A r \in Row : CountedIn(r)' = CountedIn(r) /\ ArrivedIn(r)' = ArrivedIn(r)
      BY <2>1 DEF CountedIn, ArrivedIn, Arrived
    <2>3. \A r \in Row : watermark >= Cleanup(r) => watermark' >= Cleanup(r)
      BY <2>1, CleanupType, AggregateAssumption DEF Sound, Typed, TypeOK
    <2> QED
      BY <1>2, <2>1, <2>2, <2>3
  <1>9. CASE Restart
    BY <1>9, AggregateAssumption DEF Restart, Undisturbed, Sound, Typed, TypeOK
  <1>10. CASE UNCHANGED vars
    <2>1. UNCHANGED <<arrivals, known, contributions, total, output, watermark>>
      BY <1>10 DEF vars, input, keyed, outputs, progress
    <2>2. \A r \in Row : CountedIn(r)' = CountedIn(r) /\ ArrivedIn(r)' = ArrivedIn(r)
      BY <2>1 DEF CountedIn, ArrivedIn, Arrived
    <2> QED
      BY <1>2, <2>1, <2>2
  <1> QED
    BY <1>3, <1>4, <1>5, <1>6, <1>7, <1>8, <1>9, <1>10 DEF Next

(* At rest, agreement is agreement with the oracle.                        *)
LEMMA AgreedAtRest == AgreeInv => RowsAgree
  <1> SUFFICES ASSUME AgreeInv, Undisturbed, \A r \in Row : ~nextEmit[r], NEW r \in Row
               PROVE  output[r] = OracleValue(r)
    BY DEF RowsAgree, Undisturbed
  <1>1. RowAgrees(r) /\ RowSound(r) /\ ~nextEmit[r]
    BY DEF AgreeInv, Agreed, Sound
  <1> DEFINE cs == {c \in Arrived : r = <<OracleChannel(known, c.time), Start(c.time)>>}
  <1>2. cs = ArrivedIn(r)
    BY SameChannel DEF AgreeInv, Sound, Typed, TypeOK, Arrived, ArrivedIn
  <1>3. OracleValue(r) = IF cs = {} THEN None ELSE Sum(cs)
    BY DEF OracleValue, Sum, MapThenSumSet, MapThenFoldSet
  <1> HIDE DEF cs
  <1>4. OracleValue(r) = IF ArrivedIn(r) = {} THEN None ELSE Sum(ArrivedIn(r))
    BY <1>2, <1>3, Zenon
  <1>5. CASE total[r] # None
    <2>1. ArrivedIn(r) = CountedIn(r) /\ CountedIn(r) # {} /\ output[r] = Sum(CountedIn(r))
      BY <1>1, <1>5 DEF RowAgrees, RowSound
    <2>2. output[r] = Sum(ArrivedIn(r))
      BY <2>1, Zenon
    <2> QED
      BY <1>4, <2>1, <2>2
  <1>6. CASE total[r] = None
    BY <1>1, <1>4, <1>6 DEF RowAgrees
  <1> QED
    BY <1>5, <1>6

(* What the job shows at rest is what the oracle computes, in whatever     *)
(* order contributions, dimensions and timers came, unless the job asked   *)
(* for a replay or was restarted (AttributionJob.java:155-231).            *)
THEOREM RowsAgreeCorrect == Spec => []RowsAgree
  <1>1. Init => AgreeInv
    BY SoundInit, AgreeInit DEF AgreeInv
  <1>2. AgreeInv /\ [Next]_vars => AgreeInv'
    BY SoundStep, KnownStep, AgreedStep DEF AgreeInv
  <1> QED
    BY <1>1, <1>2, AgreedAtRest, PTL DEF Spec

-----------------------------------------------------------------------------
(* History.                                                                *)

(* An open row never holds less than it showed, and one that was cleared is*)
(* refused by the watermark; only a restart takes the watermark back.      *)
RowKeeps(r) ==
    output[r] # None =>
        \/ total[r] # None /\ output[r] <= total[r]
        \/ total[r] = None /\ watermark >= Cleanup(r)

Kept == restarts = 0 => \A r \in Row : RowKeeps(r)

(* Neither the rows nor what is kept of them changes in most steps.        *)
LEMMA KeptStep ==
    ASSUME Sound, Kept, [Next]_vars
    PROVE  /\ Kept'
           /\ restarts = 0 => \A r \in Row : output[r] # None => output'[r] >= output[r]
  <1> DEFINE Moves == \A r \in Row : output[r] # None => output'[r] >= output[r]
  <1>1. restarts \in Nat /\ watermark \in Nat /\ \A r \in Row : Cleanup(r) \in Nat
    BY CleanupType, AggregateAssumption DEF Sound, Typed, TypeOK
  <1>2. \A r \in Row : /\ output[r] # None => output[r] \in Nat
                       /\ total[r] # None => total[r] \in Nat
    BY DEF Sound, Typed
  <1>3. CASE /\ UNCHANGED <<keyed, output, restarts>>
             /\ watermark' \in Nat /\ watermark' >= watermark
    <2>1. Moves
      BY <1>2, <1>3
    <2>2. ASSUME NEW r \in Row, RowKeeps(r) PROVE RowKeeps(r)'
      BY <1>1, <1>3, <2>2 DEF RowKeeps, keyed, Cleanup
    <2> QED
      BY <1>3, <2>1, <2>2 DEF Kept
  <1>4. ASSUME NEW c \in Contribution, Counts(c), restarts = 0
        PROVE  (\A r \in Row : RowKeeps(r)') /\ Moves
    <2> DEFINE q == RowOf(known, c)
    <2>1. PICK r \in Row : r = q
      BY RowType DEF Sound, Typed, TypeOK
    <2>2. PICK previous : CountsAs(c, r, previous)
      BY <1>4, <2>1 DEF Counts
    <2>3. /\ CountedIn(r)' = CountedIn(r) \cup {c}
          /\ total'[r] = Sum(CountedIn(r)')
          /\ \A s \in Row \ {r} : total'[s] = total[s]
      BY <1>4, <2>1, CountsHolds
    <2>4. watermark < Cleanup(r) /\ watermark' = watermark /\ output' = output
      BY <2>2 DEF CountsAs, progress
    <2> HIDE DEF q
    <2>5. RowKeeps(r)'
      <3>1. output[r] # None => total[r] # None /\ output[r] <= total[r]
        BY <1>1, <1>4, <2>4 DEF Kept, RowKeeps
      <3>2. total[r] # None => total[r] = Sum(CountedIn(r))
        BY DEF Sound, RowSound
      <3>3. Sum(CountedIn(r) \cup {c}) \in Nat /\ Sum(CountedIn(r)) <= Sum(CountedIn(r) \cup {c})
        <4> DEFINE was == CountedIn(r)
        <4>1. IsFiniteSet(was) /\ Sum(was) \in Nat /\ \A d \in was : d.value \in Nat
          BY SumType, AggregateAssumption DEF CountedIn
        <4>2. c.value \in Nat
          BY AggregateAssumption
        <4>3. CASE c \in was
          <5>1. was \cup {c} = was
            BY <4>3
          <5> HIDE DEF was
          <5>2. Sum(was \cup {c}) = Sum(was)
            BY <5>1, Zenon
          <5> QED
            BY <4>1, <5>2 DEF was
        <4>4. CASE c \notin was
          <5> HIDE DEF was
          <5>1. Sum(was \cup {c}) = Sum(was) + c.value
            BY <4>1, <4>2, <4>4, SumAdds
          <5> QED
            BY <4>1, <4>2, <5>1 DEF was
        <4> QED
          BY <4>3, <4>4
      <3>4. total'[r] = Sum(CountedIn(r) \cup {c})
        BY <2>3, Zenon
      <3>5. total'[r] # None
        BY <3>3, <3>4, AggregateAssumption
      <3>6. output[r] # None => output[r] <= total'[r]
        BY <1>2, <3>1, <3>2, <3>3, <3>4
      <3> QED
        BY <2>4, <3>5, <3>6 DEF RowKeeps
    <2>6. ASSUME NEW s \in Row, s # r PROVE RowKeeps(s)'
      BY <1>4, <2>3, <2>4, <2>6 DEF Kept, RowKeeps, Cleanup
    <2> QED
      BY <1>2, <2>4, <2>5, <2>6
  <1>5. ASSUME NEW r \in Row, EmissionTimer(r) \/ CleanupTimer(r), restarts = 0
        PROVE  (\A s \in Row : RowKeeps(s)') /\ Moves
    <2>1. /\ total[r] # None /\ output' = [output EXCEPT ![r] = total[r]] /\ watermark' = watermark
          /\ \/ total' = total
             \/ total' = [total EXCEPT ![r] = None] /\ watermark >= Cleanup(r)
      BY <1>5, CleanupDoes DEF EmissionTimer, Emits, input, progress
    <2>2. output'[r] = total[r] /\ \A s \in Row \ {r} : output'[s] = output[s] /\ total'[s] = total[s]
      BY <2>1 DEF Sound, Typed
    <2>3. total'[r] = total[r] \/ (total'[r] = None /\ watermark >= Cleanup(r))
      BY <2>1 DEF Sound, Typed
    <2>4. output[r] # None => output[r] <= total[r]
      BY <1>5, <2>1 DEF Kept, RowKeeps
    <2>5. RowKeeps(r)'
      BY <1>2, <2>1, <2>2, <2>3 DEF RowKeeps, Cleanup
    <2>6. ASSUME NEW s \in Row, s # r PROVE RowKeeps(s)'
      BY <1>5, <2>1, <2>2, <2>6 DEF Kept, RowKeeps, Cleanup
    <2> QED
      BY <1>2, <2>1, <2>2, <2>4, <2>5, <2>6
  <1>6. CASE Restart
    BY <1>1, <1>2, <1>6 DEF Restart, outputs, Kept
  <1>7. ASSUME NEW c \in Contribution, Counts(c) PROVE restarts' = restarts
    BY <1>7 DEF Counts, CountsAs, progress
  <1>8. ASSUME NEW r \in Row, EmissionTimer(r) \/ CleanupTimer(r) PROVE restarts' = restarts
    BY <1>8, CleanupDoes DEF EmissionTimer, progress
  <1>9. ASSUME NEW d \in Dimension, DimensionArrives(d) PROVE <1>3!1
    BY <1>1, <1>9 DEF DimensionArrives, progress
  <1>10. ASSUME NEW c \in Contribution, Frozen(c) PROVE <1>3!1
    BY <1>1, <1>10 DEF Frozen, progress
  <1>11. ASSUME NEW t \in 1..MaxWatermark, WatermarkAdvances(t) PROVE <1>3!1
    BY <1>1, <1>11 DEF WatermarkAdvances, outputs
  <1>12. ASSUME UNCHANGED vars PROVE <1>3!1
    BY <1>1, <1>12 DEF vars, outputs, progress
  <1> HIDE DEF Moves
  <1>13. CASE \E c \in Contribution : Counts(c)
    BY <1>4, <1>7, <1>13 DEF Kept, Moves
  <1>14. CASE \E r \in Row : EmissionTimer(r) \/ CleanupTimer(r)
    BY <1>5, <1>8, <1>14 DEF Kept, Moves
  <1> QED
    BY <1>3, <1>6, <1>9, <1>10, <1>11, <1>12, <1>13, <1>14 DEF Next, Moves

(* What a reader saw is never taken back before the job is restarted: what *)
(* the run aggregate_restart shows needs one (AttributionJob.java:196).     *)
THEOREM HistoryKeptUntilRestart ==
    Spec => [][restarts = 0 => \A r \in Row : output[r] # None => output'[r] >= output[r]]_vars
  <1> DEFINE Moves == restarts = 0 => \A r \in Row : output[r] # None => output'[r] >= output[r]
  <1>1. Init => Kept
    BY DEF Init, Kept, RowKeeps
  <1>2. Sound /\ Kept /\ [Next]_vars => Kept' /\ Moves
    BY KeptStep
  <1> HIDE DEF Moves
  <1>3. Spec => [][Moves]_vars
    BY <1>1, <1>2, SoundCorrect, PTL DEF Spec
  <1> QED
    BY <1>3 DEF Moves
=============================================================================

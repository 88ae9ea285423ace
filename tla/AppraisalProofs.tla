--------------------------- MODULE AppraisalProofs --------------------------
(***************************************************************************)
(* Statuses rest on the facts, a score is the coverage of its job, reports *)
(* are honest and their two validators never disagree, for any             *)
(* requirements, facts, policies and answers.  What the code computes with *)
(* loops is a fold in the model: FoldExists says that a fold over a finite *)
(* set is defined, and SmallestSet takes the place of induction over the   *)
(* elements seen so far.  Assessments are looked up by the id of their     *)
(* requirement: validate_job keeps ids apart, prepare_job picks            *)
(* requirements of the job, and the score guard lets none be missed.       *)
(***************************************************************************)
EXTENDS Appraisal, FiniteSetTheorems, WellFoundedInduction, TLAPS

Statuses == {"met", "partial", "unmet", "unknown"}

KnownProfile == profile \in SUBSET Fact /\ IsFiniteSet(profile)

(* Assessments that both validators can rely on.                           *)
Reliable(items) ==
  /\ \A a, b \in items : a.requirement_id = b.requirement_id => a = b
  /\ \A a \in items : a.status \in Statuses /\ a.evidence \subseteq Evidence

(* AssessmentsRestOnFacts of a requirement and its assessment.             *)
RestsOnFacts(r, a) ==
  /\ a.status \in {"met", "partial"} =>
       /\ ~Denied(r)
       /\ \E f \in profile : Supports(r, f) /\ f.evidence \subseteq a.evidence
       /\ r.op = "min_months" =>
            Cardinality(Worked(r)) \in
              IF a.status = "met" THEN r.amount .. AsOf ELSE (r.amount + 1) \div 2 .. r.amount - 1
  /\ a.status = "unmet" => (Denied(r) /\ ~Supported(r)) \/ Short(r)
  /\ (Denied(r) /\ Supported(r)) \/ (~\E f \in profile : Deals(r, f)) => a.status = "unknown"

Grounded(items) ==
  \A a \in items : \A r \in Scorable(job) : r.id = a.requirement_id => RestsOnFacts(r, a)

(* What _score saves, as long as the job and the profile are the same.     *)
Judged ==
  /\ score = Calculate(score.assessments) /\ ScoreFits(score.assessments)
  /\ Reliable(score.assessments) /\ Grounded(score.assessments)
  /\ score.assessments # {}

(* What the reporter let through of a finished report.                     *)
Fitting(r) ==
  /\ GapsFit(r.gaps) /\ GapsComplete(r.gaps)
  /\ \A s \in r.suggestions : NumbersSupported(s)

IInv ==
  /\ job \in Seq(Requirement) /\ KnownProfile
  /\ stage \in {"draft", "confirmed", "scored", "succeeded"} => ValidJob(job)
  /\ stage \in {"scored", "succeeded"} => Judged
  /\ stage = "succeeded" => Fitting(report)
  /\ stage # "disputed"

(*------------------------------ Induction -------------------------------*)

LEMMA Smallest ==
  ASSUME NEW S \in SUBSET Nat, S # {}
  PROVE  \E n \in S : \A m \in S : n <= m
<1>1. PICK n \in S : \A m \in S : <<m, n>> \notin OpToRel(<, Nat)
  <2>1. IsWellFoundedOn(OpToRel(<, Nat), Nat)
    BY NatLessThanWellFounded
  <2>2. QED
    BY <2>1, WFMin
<1>2. \A m \in S : ~(m < n)
  BY <1>1 DEF OpToRel
<1>3. QED
  BY <1>2

LEMMA Largest ==
  ASSUME NEW S \in SUBSET Nat, S # {}, NEW b \in Nat, \A m \in S : m <= b
  PROVE  \E n \in S : \A m \in S : m <= n
<1> DEFINE rest == {b - m : m \in S}
<1>1. \A m \in S : b - m \in Nat
  OBVIOUS
<1> HIDE DEF rest
<1>2. PICK k \in rest : \A l \in rest : k <= l
  <2>1. rest \in SUBSET Nat /\ rest # {}
    BY <1>1 DEF rest
  <2>2. QED
    BY <2>1, Smallest
<1>3. PICK n \in S : k = b - n
  BY DEF rest
<1>4. \A m \in S : b - n <= b - m
  BY <1>2, <1>3 DEF rest
<1>5. QED
  BY <1>4

(* Among sets with a property there is one that loses it with any element. *)
LEMMA SmallestSet ==
  ASSUME NEW S, IsFiniteSet(S), NEW Bad \in SUBSET (SUBSET S), Bad # {}
  PROVE  \E T \in Bad : \A x \in T : T \ {x} \notin Bad
<1> DEFINE sizes == {Cardinality(T) : T \in Bad}
<1>1. \A T \in Bad : IsFiniteSet(T) /\ Cardinality(T) \in Nat
  BY FS_Subset, FS_CardinalityType
<1>2. sizes \in SUBSET Nat /\ sizes # {}
  BY <1>1
<1>3. PICK T \in Bad : \A U \in Bad : Cardinality(T) <= Cardinality(U)
  <2> HIDE DEF sizes
  <2>1. PICK n \in sizes : \A m \in sizes : n <= m
    BY <1>2, Smallest
  <2>2. QED
    BY <2>1 DEF sizes
<1>4. ASSUME NEW x \in T PROVE T \ {x} \notin Bad
  <2>1. Cardinality(T \ {x}) = Cardinality(T) - 1
    BY <1>1, FS_RemoveElement
  <2>2. QED
    BY <1>1, <1>3, <2>1
<1>5. QED
  BY <1>4

(*-------------------------------- Folds ---------------------------------*)

Picks(pick, S) == \A T \in (SUBSET S) \ {{}} : pick[T] \in T
Folds(fold, S, base, pick, next) ==
  /\ fold[{}] = base
  /\ \A T \in (SUBSET S) \ {{}} : fold[T] = next[<<pick[T], fold[T \ {pick[T]}]>>]

(* Taking elements off a finite set, one by one, ends: a fold is defined.  *)
LEMMA FoldExists ==
  ASSUME NEW S, IsFiniteSet(S), NEW V, NEW base \in V, NEW pick, Picks(pick, S),
         NEW next \in [S \X V -> V]
  PROVE  \E fold \in [SUBSET S -> V] : Folds(fold, S, base, pick, next)
<1> DEFINE Small(n) == {T \in SUBSET S : Cardinality(T) <= n}
           FoldsTo(fold, n) ==
             /\ fold \in [Small(n) -> V]
             /\ \A T \in Small(n) :
                  fold[T] = IF T = {} THEN base ELSE next[<<pick[T], fold[T \ {pick[T]}]>>]
           bad == {n \in Nat : ~\E fold : FoldsTo(fold, n)}
<1>1. \A T \in SUBSET S : IsFiniteSet(T) /\ Cardinality(T) \in Nat
  BY FS_Subset, FS_CardinalityType
<1>2. ASSUME NEW T \in (SUBSET S) \ {{}}
      PROVE  /\ T \ {pick[T]} \in SUBSET S /\ pick[T] \in S
             /\ Cardinality(T \ {pick[T]}) = Cardinality(T) - 1
  BY <1>1, FS_RemoveElement DEF Picks
<1>3. bad = {}
  <2> SUFFICES ASSUME bad # {} PROVE FALSE
    OBVIOUS
  <2>1. PICK n \in bad : \A m \in bad : n <= m
    <3> HIDE DEF bad
    <3>1. bad \in SUBSET Nat
      BY DEF bad
    <3>2. QED
      BY <3>1, Smallest
  <2>2. n \in Nat
    BY <2>1
  <2>3. CASE n = 0
    <3> DEFINE fold == [T \in Small(0) |-> base]
    <3>1. \A T \in Small(0) : T = {}
      BY <1>1, FS_EmptySet
    <3>2. FoldsTo(fold, 0)
      BY <3>1
    <3>3. QED
      BY <2>1, <2>3, <3>2
  <2>4. CASE n # 0
    <3>1. n - 1 \in Nat /\ n - 1 \notin bad
      <4> HIDE DEF bad
      <4>1. QED
        BY <2>1, <2>2, <2>4
    <3>2. PICK below : FoldsTo(below, n - 1)
      <4> HIDE DEF FoldsTo
      <4>1. QED
        BY <3>1
    <3> DEFINE fold == [T \in Small(n) |->
                          IF T = {} THEN base ELSE next[<<pick[T], below[T \ {pick[T]}]>>]]
    <3>3. ASSUME NEW T \in Small(n), T # {}
          PROVE  /\ T \ {pick[T]} \in Small(n - 1) /\ T \ {pick[T]} \in Small(n)
                 /\ pick[T] \in S /\ below[T \ {pick[T]}] \in V
      BY <1>1, <1>2, <2>2, <3>2, <3>3
    <3>4. fold \in [Small(n) -> V]
      BY <3>3
    <3>5. \A T \in Small(n - 1) : fold[T] = below[T]
      BY <1>1, <2>2, <3>2, SMTT(60)
    <3>6. FoldsTo(fold, n)
      BY <3>3, <3>4, <3>5
    <3>7. QED
      BY <2>1, <3>6
  <2>5. QED
    BY <2>3, <2>4
<1>4. Small(Cardinality(S)) = SUBSET S
  BY FS_Subset
<1>5. Cardinality(S) \notin bad /\ Cardinality(S) \in Nat
  BY <1>1, <1>3
<1>6. PICK fold : FoldsTo(fold, Cardinality(S))
  BY <1>5
<1>7. QED
  BY <1>4, <1>6 DEF Folds

(*--------------------------------- Sums ---------------------------------*)

(* The sum over a set grows by any element's amount, whatever the order.   *)
Adds(sum, amounts, D) ==
  sum[{}] = 0 /\ \A T \in SUBSET D : \A x \in T : sum[T] = amounts[x] + sum[T \ {x}]

SumsUp(sum, amounts, pick, D) ==
  /\ sum = [T \in SUBSET D |-> sum[T]] /\ sum[{}] = 0
  /\ \A T \in (SUBSET D) \ {{}} : sum[T] = amounts[pick[T]] + sum[T \ {pick[T]}]

LEMMA AnyOrder ==
  ASSUME NEW D, IsFiniteSet(D), NEW amounts \in [D -> Nat], NEW pick,
         Picks(pick, D), NEW sum, SumsUp(sum, amounts, pick, D)
  PROVE  sum \in [SUBSET D -> Nat] /\ Adds(sum, amounts, D)
<1> DEFINE Odd == {T \in SUBSET D : sum[T] \notin Nat}
           Bad == {T \in SUBSET D : \E x \in T : sum[T] # amounts[x] + sum[T \ {x}]}
<1>0. /\ sum = [T \in SUBSET D |-> sum[T]] /\ sum[{}] = 0
      /\ \A T \in (SUBSET D) \ {{}} :
           pick[T] \in T /\ sum[T] = amounts[pick[T]] + sum[T \ {pick[T]}]
  BY DEF SumsUp, Picks
<1>1. ASSUME Odd # {} PROVE FALSE
  <2>1. PICK T \in Odd : \A x \in T : T \ {x} \notin Odd
    <3>1. Odd \in SUBSET (SUBSET D)
      OBVIOUS
    <3> HIDE DEF Odd
    <3>2. QED
      BY <1>1, <3>1, SmallestSet
  <2>2. T \in SUBSET D /\ sum[T] \notin Nat
    BY <2>1
  <2>3. T # {}
    <3>1. sum[{}] \in Nat
      BY <1>0
    <3>2. QED
      BY <2>2, <3>1, Zenon
  <2>4. pick[T] \in T /\ sum[T] = amounts[pick[T]] + sum[T \ {pick[T]}]
    BY <1>0, <2>2, <2>3
  <2>5. sum[T \ {pick[T]}] \in Nat /\ amounts[pick[T]] \in Nat
    BY <2>1, <2>2, <2>4
  <2> HIDE DEF Odd, Bad
  <2>6. QED
    BY <2>2, <2>4, <2>5
<1>2. \A T \in SUBSET D : sum[T] \in Nat
  BY <1>1
<1>3. sum \in [SUBSET D -> Nat]
  BY <1>0, <1>2
<1>4. ASSUME Bad # {} PROVE FALSE
  <2>1. PICK T \in Bad : \A x \in T : T \ {x} \notin Bad
    <3>1. Bad \in SUBSET (SUBSET D)
      OBVIOUS
    <3> HIDE DEF Bad
    <3>2. QED
      BY <1>4, <3>1, SmallestSet
  <2>2. PICK x \in T : sum[T] # amounts[x] + sum[T \ {x}]
    BY <2>1
  <2>3. T \in SUBSET D /\ T # {}
    BY <2>1, <2>2
  <2>4. PICK y \in T : sum[T] = amounts[y] + sum[T \ {y}] /\ y # x
    BY <1>0, <2>2, <2>3
  <2>5. sum[T \ {y}] = amounts[x] + sum[(T \ {y}) \ {x}]
    <3>1. T \ {y} \notin Bad /\ T \ {y} \in SUBSET D /\ x \in T \ {y}
      BY <2>1, <2>3, <2>4
    <3>2. QED
      BY <3>1
  <2>6. sum[T \ {x}] = amounts[y] + sum[(T \ {x}) \ {y}]
    <3>1. T \ {x} \notin Bad /\ T \ {x} \in SUBSET D /\ y \in T \ {x}
      BY <2>1, <2>2, <2>3, <2>4
    <3>2. QED
      BY <3>1
  <2>7. sum[(T \ {x}) \ {y}] = sum[(T \ {y}) \ {x}]
    <3>1. (T \ {x}) \ {y} = (T \ {y}) \ {x}
      OBVIOUS
    <3>2. QED
      BY <3>1, Zenon
  <2>8. amounts[x] \in Nat /\ amounts[y] \in Nat /\ sum[(T \ {x}) \ {y}] \in Nat
    BY <1>2, <2>3
  <2> HIDE DEF Odd, Bad
  <2>9. QED
    BY <2>2, <2>4, <2>5, <2>6, <2>7, <2>8
<1>5. QED
  BY <1>0, <1>3, <1>4 DEF Adds

LEMMA TotalAdds ==
  ASSUME NEW D, IsFiniteSet(D), NEW amounts \in [D -> Nat]
  PROVE  \E sum \in [SUBSET D -> Nat] : Total(amounts) = sum[D] /\ Adds(sum, amounts, D)
<1> DEFINE pick == [T \in SUBSET D |-> CHOOSE x \in T : TRUE]
           next == [p \in D \X Nat |-> amounts[p[1]] + p[2]]
           none == 0
           Sums(s) == s = [T \in SUBSET D |->
                             IF T = {} THEN 0
                             ELSE LET x == CHOOSE x \in T : TRUE IN amounts[x] + s[T \ {x}]]
<1>1. Picks(pick, D)
  BY DEF Picks
<1>2. PICK fold \in [SUBSET D -> Nat] : Folds(fold, D, none, pick, next)
  <2>1. next \in [D \X Nat -> Nat] /\ none \in Nat
    OBVIOUS
  <2> HIDE DEF next, pick, none, Sums
  <2>2. QED
    BY <1>1, <2>1, FoldExists
<1>3. ASSUME NEW T \in SUBSET D
      PROVE  fold[T] = IF T = {} THEN 0
                       ELSE LET x == CHOOSE x \in T : TRUE IN amounts[x] + fold[T \ {x}]
  BY <1>1, <1>2 DEF Folds, Picks
<1>4. Sums(fold)
  BY <1>2, <1>3
<1> DEFINE sum == CHOOSE s : Sums(s)
<1>5. Sums(sum)
  BY <1>4
<1>6. Total(amounts) = sum[D]
  BY Zenon DEF Total, FoldFunction, FoldFunctionOnSet, MapThenFoldSet
<1> HIDE DEF sum
<1>7. SumsUp(sum, amounts, pick, D)
  BY <1>5 DEF SumsUp
<1>8. sum \in [SUBSET D -> Nat] /\ Adds(sum, amounts, D)
  <2> HIDE DEF pick, Sums
  <2>1. QED
    BY <1>1, <1>7, AnyOrder
<1>9. QED
  BY <1>6, <1>8

LEMMA TotalPositive ==
  ASSUME NEW D, IsFiniteSet(D), NEW amounts \in [D -> Nat]
  PROVE  Total(amounts) \in Nat /\ \A x \in D : amounts[x] <= Total(amounts)
<1>1. PICK sum \in [SUBSET D -> Nat] : Total(amounts) = sum[D] /\ Adds(sum, amounts, D)
  BY TotalAdds
<1>2. sum[D] \in Nat
  BY <1>1
<1>3. ASSUME NEW x \in D PROVE amounts[x] <= sum[D]
  <2>1. sum[D] = amounts[x] + sum[D \ {x}] /\ sum[D \ {x}] \in Nat /\ amounts[x] \in Nat
    BY <1>1 DEF Adds
  <2>2. QED
    BY <1>2, <2>1
<1>4. QED
  BY <1>1, <1>2, <1>3

(* h pairs the elements of D and E so that paired ones have one amount.    *)
Pairs(h, D, E, f, g) ==
  /\ h \in [D -> E] /\ \A e \in E : \E x \in D : h[x] = e
  /\ \A x, y \in D : h[x] = h[y] => x = y
  /\ \A x \in D : f[x] = g[h[x]]

(* Equal amounts under other names have an equal total.                    *)
LEMMA SameTotals ==
  ASSUME NEW D, NEW E, IsFiniteSet(D), NEW f \in [D -> Nat], NEW g \in [E -> Nat],
         NEW h, Pairs(h, D, E, f, g)
  PROVE  Total(f) = Total(g)
<1> DEFINE image == [T \in SUBSET D |-> {h[x] : x \in T}]
<1>1. IsFiniteSet(E)
  <2>1. h \in Surjection(D, E)
    BY DEF Pairs, Surjection
  <2>2. QED
    BY <2>1, FS_Surjection
<1>2. PICK sf \in [SUBSET D -> Nat] : Total(f) = sf[D] /\ Adds(sf, f, D)
  BY TotalAdds
<1>3. PICK sg \in [SUBSET E -> Nat] : Total(g) = sg[E] /\ Adds(sg, g, E)
  BY <1>1, TotalAdds
<1>4. /\ image \in [SUBSET D -> SUBSET E] /\ image[{}] = {} /\ image[D] = E
      /\ \A T \in SUBSET D : \A x \in T : h[x] \in image[T] /\ image[T \ {x}] = image[T] \ {h[x]}
  BY DEF Pairs
<1>5. \A x \in D : f[x] = g[h[x]]
  BY DEF Pairs
<1> HIDE DEF image
<1> DEFINE bad == {T \in SUBSET D : sf[T] # sg[image[T]]}
<1>6. ASSUME bad # {} PROVE FALSE
  <2>1. PICK T \in bad : \A x \in T : T \ {x} \notin bad
    <3>1. bad \in SUBSET (SUBSET D)
      OBVIOUS
    <3> HIDE DEF bad
    <3>2. QED
      BY <1>6, <3>1, SmallestSet
  <2>2. T \in SUBSET D /\ sf[T] # sg[image[T]]
    BY <2>1
  <2>3. T # {}
    <3>1. sf[{}] = 0 /\ sg[{}] = 0
      BY <1>2, <1>3 DEF Adds
    <3>2. QED
      BY <2>2, <3>1, <1>4, Zenon
  <2>4. PICK x \in T : x \in D
    BY <2>2, <2>3
  <2>5. sf[T] = f[x] + sf[T \ {x}]
    BY <1>2, <2>2 DEF Adds
  <2>6. sg[image[T]] = g[h[x]] + sg[image[T] \ {h[x]}]
    BY <1>3, <1>4, <2>2 DEF Adds
  <2>7. sf[T \ {x}] = sg[image[T] \ {h[x]}]
    <3>1. T \ {x} \in SUBSET D /\ T \ {x} \notin bad
      BY <2>1, <2>2
    <3>2. sf[T \ {x}] = sg[image[T \ {x}]]
      BY <3>1
    <3>3. image[T \ {x}] = image[T] \ {h[x]}
      BY <1>4, <2>2
    <3>4. QED
      BY <3>2, <3>3, Zenon
  <2>8. QED
    BY <1>5, <2>2, <2>4, <2>5, <2>6, <2>7
<1>7. sf[D] = sg[image[D]]
  BY <1>6
<1>8. QED
  BY <1>2, <1>3, <1>4, <1>7

(*-------------------------------- Months --------------------------------*)

(* Intervals of months, each <<first, last>> and not later than last.      *)
Spans(S, last) == \A i \in S : i \in (1 .. last) \X (1 .. last) /\ i[1] <= i[2]
Covered(T, last) == {m \in 1 .. last : \E i \in T : i[1] <= m /\ m < i[2]}

LEMMA LatestExists ==
  ASSUME NEW last \in Nat, NEW T, Spans(T, last), T # {}
  PROVE  Latest(T) \in T /\ \A j \in T : Before(j, Latest(T))
<1> DEFINE starts == {i[1] : i \in T}
<1>0. \A i \in T : i[1] \in Nat /\ i[2] \in Nat /\ i[1] <= last /\ i[2] <= last
  BY DEF Spans
<1>1. PICK s \in starts : \A t \in starts : t <= s
  <2>1. starts \in SUBSET Nat /\ starts # {} /\ \A t \in starts : t <= last
    BY <1>0
  <2> HIDE DEF starts
  <2>2. QED
    BY <2>1, Largest
<1> DEFINE ends == {i[2] : i \in {j \in T : j[1] = s}}
<1>2. PICK e \in ends : \A t \in ends : t <= e
  <2>1. ends \in SUBSET Nat /\ ends # {} /\ \A t \in ends : t <= last
    BY <1>0, <1>1
  <2> HIDE DEF ends
  <2>2. QED
    BY <2>1, Largest
<1>3. PICK i \in T : i[1] = s /\ i[2] = e
  BY <1>2
<1>4. ASSUME NEW j \in T PROVE Before(j, i)
  <2>1. j[1] <= s /\ (j[1] = s => j[2] <= e)
    BY <1>1, <1>2
  <2>2. QED
    BY <1>0, <1>3, <2>1 DEF Before
<1>5. QED
  BY <1>4 DEF Latest

(* Months after all that are counted add their number.                     *)
LEMMA LaterMonths ==
  ASSUME NEW C, IsFiniteSet(C), NEW a \in Nat, NEW b \in Nat, a <= b,
         \A m \in C : m \in Nat /\ m < a
  PROVE  /\ IsFiniteSet(C \cup a .. (b - 1))
         /\ Cardinality(C \cup a .. (b - 1)) = Cardinality(C) + b - a
<1>1. IsFiniteSet(a .. (b - 1)) /\ Cardinality(a .. (b - 1)) = b - a
  <2>1. a \in Int /\ b - 1 \in Int
    OBVIOUS
  <2>2. /\ IsFiniteSet(a .. (b - 1))
        /\ Cardinality(a .. (b - 1)) = IF a > b - 1 THEN 0 ELSE (b - 1) - a + 1
    BY <2>1, FS_Interval
  <2>3. QED
    BY <2>2
<1>2. C \cap a .. (b - 1) = {}
  OBVIOUS
<1>3. Cardinality(C \cap a .. (b - 1)) = 0
  BY <1>2, FS_EmptySet, Zenon
<1>4. Cardinality(C) \in Nat
  BY FS_CardinalityType
<1>5. IsFiniteSet(C \cup a .. (b - 1)) /\ Cardinality(C \cup a .. (b - 1)) =
        Cardinality(C) + Cardinality(a .. (b - 1)) - Cardinality(C \cap a .. (b - 1))
  BY <1>1, FS_Union
<1>6. QED
  BY <1>1, <1>3, <1>4, <1>5

Runs == {run \in [total : Nat, left : Nat, right : Nat] : run.left <= run.right}

(* The run so far counts the months of the intervals T once each.          *)
Swept(T, run, last) ==
  /\ run.right <= last /\ \A i \in T : i[2] <= run.right
  /\ run.right = 0 \/ \E i \in T : i[1] = run.left
  /\ \A m \in 1 .. last : run.left <= m /\ m < run.right => m \in Covered(T, last)
  /\ run.total + run.right - run.left = Cardinality(Covered(T, last))

LEMMA SweepCounts ==
  ASSUME NEW last \in Nat, NEW T, Spans(T, last), NEW x \in T, \A j \in T : Before(j, x),
         NEW run \in Runs, Swept(T \ {x}, run, last)
  PROVE  Sweep(x, run) \in Runs /\ Swept(T, Sweep(x, run), last)
<1> DEFINE C == Covered(T \ {x}, last)
           new == Sweep(x, run)
<1>1. /\ run.total \in Nat /\ run.left \in Nat /\ run.right \in Nat /\ run.left <= run.right
      /\ run = [total |-> run.total, left |-> run.left, right |-> run.right]
  BY DEF Runs
<1>2. \A i \in T : /\ i[1] \in 1 .. last /\ i[2] \in 1 .. last /\ i[1] <= i[2] /\ i[1] <= x[1]
  BY DEF Spans, Before
<1>3. /\ run.right <= last /\ \A i \in T \ {x} : i[2] <= run.right
      /\ run.right = 0 \/ \E i \in T \ {x} : i[1] = run.left
      /\ \A m \in 1 .. last : run.left <= m /\ m < run.right => m \in C
      /\ run.total + run.right - run.left = Cardinality(C)
  BY DEF Swept
<1>4. IsFiniteSet(C) /\ \A m \in C : m \in Nat /\ m < run.right
  <2>1. \A m \in C : m \in 1 .. last /\ m < run.right
    BY <1>1, <1>2, <1>3 DEF Covered
  <2>2. IsFiniteSet(1 .. last)
    BY FS_Interval
  <2>3. C \in SUBSET (1 .. last)
    BY DEF Covered
  <2> HIDE DEF C
  <2>4. IsFiniteSet(C)
    BY <2>2, <2>3, FS_Subset
  <2>5. QED
    BY <2>1, <2>4
<1>5. Covered(T, last) = C \cup x[1] .. (x[2] - 1)
  <2>1. \A m \in 1 .. last : m \in Covered(T, last) <=> m \in C \/ (x[1] <= m /\ m < x[2])
    BY DEF Covered
  <2>2. \A m \in x[1] .. (x[2] - 1) : m \in 1 .. last /\ x[1] <= m /\ m < x[2]
    BY <1>2
  <2>3. \A m \in 1 .. last : x[1] <= m /\ m < x[2] => m \in x[1] .. (x[2] - 1)
    BY <1>2
  <2>4. C \subseteq 1 .. last /\ Covered(T, last) \subseteq 1 .. last
    BY DEF Covered
  <2> HIDE DEF C
  <2>5. QED
    BY <2>1, <2>2, <2>3, <2>4
<1>6. CASE x[1] <= run.right
  <2> DEFINE r == IF x[2] > run.right THEN x[2] ELSE run.right
  <2>1. new = [total |-> run.total, left |-> run.left, right |-> r]
    BY <1>1, <1>6 DEF Sweep
  <2>2. r \in Nat /\ r <= last /\ run.right <= r /\ x[2] <= r
    BY <1>1, <1>2, <1>3
  <2>3. run.left <= x[1]
    <3>1. run.right # 0
      BY <1>1, <1>2, <1>6
    <3>2. QED
      BY <1>2, <1>3, <3>1
  <2>4. Covered(T, last) = C \cup run.right .. (r - 1)
    <3>1. ASSUME NEW m \in x[1] .. (x[2] - 1) PROVE m \in C \/ m \in run.right .. (r - 1)
      <4>1. m \in 1 .. last /\ run.left <= m /\ m < r
        BY <1>1, <1>2, <2>2, <2>3
      <4> HIDE DEF C, r
      <4>2. CASE m < run.right
        BY <1>3, <4>1, <4>2
      <4>3. CASE ~(m < run.right)
        BY <1>1, <2>2, <4>1, <4>3
      <4>4. QED
        BY <4>2, <4>3
    <3>2. \A m \in run.right .. (r - 1) : m \in x[1] .. (x[2] - 1)
      BY <1>1, <1>2, <1>6
    <3> HIDE DEF C, r
    <3>3. QED
      BY <1>5, <3>1, <3>2
  <2>5. Cardinality(Covered(T, last)) = Cardinality(C) + r - run.right
    <3> HIDE DEF C, r
    <3>1. Cardinality(C \cup run.right .. (r - 1)) = Cardinality(C) + r - run.right
      BY <1>1, <1>4, <2>2, LaterMonths
    <3>2. QED
      BY <2>4, <3>1, Zenon
  <2>6. \A m \in 1 .. last : run.left <= m /\ m < r => m \in Covered(T, last)
    <3> HIDE DEF C
    <3>1. \A m \in 1 .. last : m >= run.right /\ m < r => m \in run.right .. (r - 1)
      BY <1>1, <2>2
    <3> HIDE DEF r
    <3>2. QED
      BY <1>1, <1>3, <2>2, <2>4, <3>1
  <2> HIDE DEF C, r
  <2>7. new \in Runs
    BY <1>1, <2>1, <2>2 DEF Runs
  <2>8. Swept(T, new, last)
    <3>1. new.total = run.total /\ new.left = run.left /\ new.right = r
      BY <2>1
    <3>2. \A i \in T : i[2] <= r
      BY <1>1, <1>2, <1>3, <2>2
    <3>3. \E i \in T : i[1] = run.left
      BY <1>1, <1>2, <1>3, <1>6
    <3>4. run.total + r - run.left = Cardinality(C) + r - run.right
      BY <1>1, <1>3, <2>2
    <3> HIDE DEF new
    <3>5. QED
      BY <2>2, <2>5, <2>6, <3>1, <3>2, <3>3, <3>4 DEF Swept
  <2>9. QED
    BY <2>7, <2>8
<1>7. CASE ~(x[1] <= run.right)
  <2>1. new = [total |-> run.total + run.right - run.left, left |-> x[1], right |-> x[2]]
    BY <1>1, <1>7 DEF Sweep
  <2>2. /\ x[1] \in Nat /\ x[2] \in Nat /\ x[1] <= x[2] /\ x[2] <= last /\ run.right < x[1]
        /\ run.total + run.right - run.left \in Nat
    BY <1>1, <1>2, <1>7
  <2> HIDE DEF C
  <2>3. Cardinality(Covered(T, last)) = Cardinality(C) + x[2] - x[1]
    <3>1. \A m \in C : m \in Nat /\ m < x[1]
      BY <1>1, <1>4, <2>2
    <3>2. Cardinality(C \cup x[1] .. (x[2] - 1)) = Cardinality(C) + x[2] - x[1]
      BY <1>4, <2>2, <3>1, LaterMonths
    <3>3. QED
      BY <1>5, <3>2, Zenon
  <2>4. \A m \in 1 .. last : x[1] <= m /\ m < x[2] => m \in Covered(T, last)
    BY DEF Covered
  <2>5. new \in Runs
    BY <2>1, <2>2 DEF Runs
  <2>6. Swept(T, new, last)
    <3>1. /\ new.total = run.total + run.right - run.left
          /\ new.left = x[1] /\ new.right = x[2]
      BY <2>1
    <3>2. \A i \in T : i[2] <= x[2]
      BY <1>1, <1>2, <1>3, <2>2
    <3>3. new.total + new.right - new.left = Cardinality(C) + x[2] - x[1]
      BY <1>1, <1>3, <2>2, <3>1
    <3> HIDE DEF new
    <3>4. QED
      BY <2>2, <2>3, <2>4, <3>1, <3>2, <3>3 DEF Swept
  <2>7. QED
    BY <2>5, <2>6
<1>8. QED
  BY <1>6, <1>7

(* _union_months counts each month once however many intervals cover it.   *)
THEOREM UnionMonthsCounts ==
  ASSUME NEW last \in Nat, NEW S, IsFiniteSet(S), Spans(S, last)
  PROVE  UnionMonths(S) = Cardinality(Covered(S, last))
<1> DEFINE pick == [T \in SUBSET S |-> Latest(T)]
           next == [p \in S \X Runs |-> Sweep(p[1], p[2])]
           Sweeps(s) == s = [T \in SUBSET S |->
                               IF T = {} THEN NoRun
                               ELSE LET x == Latest(T) IN Sweep(x, s[T \ {x}])]
<1>1. \A T \in SUBSET S : Spans(T, last)
  BY DEF Spans
<1>2. \A T \in (SUBSET S) \ {{}} : Latest(T) \in T /\ \A j \in T : Before(j, Latest(T))
  BY <1>1, LatestExists
<1>3. Picks(pick, S)
  BY <1>2 DEF Picks
<1>4. next \in [S \X Runs -> Runs] /\ NoRun \in Runs
  <2>1. ASSUME NEW x \in S, NEW run \in Runs PROVE Sweep(x, run) \in Runs
    <3>1. x[1] \in Nat /\ x[2] \in Nat /\ x[1] <= x[2]
      BY DEF Spans
    <3>2. /\ run.total \in Nat /\ run.left \in Nat /\ run.right \in Nat /\ run.left <= run.right
          /\ run = [total |-> run.total, left |-> run.left, right |-> run.right]
      BY DEF Runs
    <3>3. QED
      BY <3>1, <3>2 DEF Sweep, Runs
  <2>2. NoRun \in Runs
    BY DEF NoRun, Runs
  <2>3. \A p \in S \X Runs : p[1] \in S /\ p[2] \in Runs
    OBVIOUS
  <2>4. QED
    BY <2>1, <2>2, <2>3
<1>5. PICK fold \in [SUBSET S -> Runs] : Folds(fold, S, NoRun, pick, next)
  <2> HIDE DEF next, pick, Sweeps
  <2>1. QED
    BY <1>3, <1>4, FoldExists
<1>6. ASSUME NEW T \in (SUBSET S) \ {{}}
      PROVE  fold[T] = Sweep(Latest(T), fold[T \ {Latest(T)}])
  <2>1. pick[T] = Latest(T) /\ Latest(T) \in S /\ fold[T \ {Latest(T)}] \in Runs
    BY <1>2
  <2>2. fold[T] = next[<<pick[T], fold[T \ {pick[T]}]>>]
    BY <1>5 DEF Folds
  <2> HIDE DEF pick
  <2>3. fold[T] = next[<<Latest(T), fold[T \ {Latest(T)}]>>]
    BY <2>1, <2>2
  <2>4. QED
    BY <2>1, <2>3
<1>7. fold[{}] = NoRun
  BY <1>5 DEF Folds
<1>8. Sweeps(fold)
  BY <1>5, <1>6, <1>7
<1> DEFINE swept == CHOOSE s : Sweeps(s)
<1>9. Sweeps(swept)
  BY <1>8
<1>10. UnionMonths(S) = swept[S].total + swept[S].right - swept[S].left
  BY Zenon DEF UnionMonths, MapThenFoldSet
<1> HIDE DEF swept
<1>11. swept[{}] = NoRun /\ \A T \in (SUBSET S) \ {{}} : swept[T] = Sweep(Latest(T), swept[T \ {Latest(T)}])
  BY <1>9
<1> DEFINE bad == {T \in SUBSET S : ~(swept[T] \in Runs /\ Swept(T, swept[T], last))}
<1>12. ASSUME bad # {} PROVE FALSE
  <2>1. PICK T \in bad : \A x \in T : T \ {x} \notin bad
    <3>1. bad \in SUBSET (SUBSET S)
      OBVIOUS
    <3> HIDE DEF bad
    <3>2. QED
      BY <1>12, <3>1, SmallestSet
  <2>2. T \in SUBSET S /\ ~(swept[T] \in Runs /\ Swept(T, swept[T], last))
    BY <2>1
  <2>3. CASE T = {}
    <3>1. Covered({}, last) = {}
      BY DEF Covered
    <3>2. Cardinality(Covered({}, last)) = 0
      BY <3>1, FS_EmptySet, Zenon
    <3>3. NoRun \in Runs /\ Swept({}, NoRun, last)
      BY <1>4, <3>2 DEF Swept, NoRun
    <3>4. QED
      BY <1>11, <2>2, <2>3, <3>3, Zenon
  <2>4. CASE T # {}
    <3> DEFINE x == Latest(T)
               run == swept[T \ {x}]
    <3>1. x \in T /\ \A j \in T : Before(j, x)
      BY <1>2, <2>2, <2>4
    <3>2. T \ {x} \in SUBSET S /\ T \ {x} \notin bad
      BY <2>1, <2>2, <3>1
    <3>3. run \in Runs /\ Swept(T \ {x}, run, last)
      BY <3>2
    <3>4. swept[T] = Sweep(x, run) /\ Spans(T, last)
      BY <1>1, <1>11, <2>2, <2>4
    <3> HIDE DEF x, run
    <3>5. Sweep(x, run) \in Runs /\ Swept(T, Sweep(x, run), last)
      BY <3>1, <3>3, <3>4, SweepCounts
    <3>6. QED
      BY <2>2, <3>4, <3>5, Zenon
  <2>5. QED
    BY <2>3, <2>4
<1>13. Swept(S, swept[S], last)
  <2>1. S \notin bad /\ S \in SUBSET S
    BY <1>12
  <2>2. QED
    BY <2>1
<1>14. QED
  BY <1>10, <1>13 DEF Swept

(*------------------------------- Extracting -----------------------------*)

Merging(R) == [kept : Seq(R), conflict : BOOLEAN]

LEMMA DuplicateAdded ==
  ASSUME NEW R, NEW acc \in Merging(R), NEW r \in R
  PROVE  AddDuplicate(acc, r) \in Merging(R)
<1> DEFINE twins == {i \in DOMAIN acc.kept : Same(acc.kept[i], r)}
           alike == {i \in DOMAIN acc.kept : Structure(acc.kept[i]) = Structure(r)}
           i == CHOOSE j \in twins : TRUE
           raised == CASE acc.kept[i].ignored # r.ignored -> [acc EXCEPT !.conflict = TRUE]
                       [] acc.kept[i].importance = "preferred" /\ r.importance = "must" ->
                            [acc EXCEPT !.kept[i] = r]
                       [] OTHER -> acc
<1>1. acc.kept \in Seq(R) /\ acc.conflict \in BOOLEAN
  BY DEF Merging
<1>2. [acc EXCEPT !.conflict = TRUE] \in Merging(R)
  BY <1>1 DEF Merging
<1>3. [acc EXCEPT !.kept = Append(@, r)] \in Merging(R)
  BY <1>1 DEF Merging
<1>4. ASSUME twins # {} PROVE raised \in Merging(R)
  <2>1. i \in DOMAIN acc.kept
    BY <1>4
  <2> HIDE DEF twins, i
  <2>2. [acc.kept EXCEPT ![i] = r] \in Seq(R)
    BY <1>1, <2>1
  <2>3. [acc EXCEPT !.kept[i] = r] \in Merging(R)
    BY <1>1, <2>2 DEF Merging
  <2>4. QED
    BY <1>2, <2>3
<1>5. AddDuplicate(acc, r) =
        CASE twins = {} /\ alike # {} -> [acc EXCEPT !.conflict = TRUE]
          [] twins = {} /\ alike = {} -> [acc EXCEPT !.kept = Append(@, r)]
          [] twins # {} -> raised
  BY DEF AddDuplicate
<1> HIDE DEF raised, twins, alike
<1>6. QED
  BY <1>2, <1>3, <1>4, <1>5

(* Merging a draft leaves some of its requirements.                        *)
LEMMA MergedDraft ==
  ASSUME NEW R, NEW reqs \in Seq(R)
  PROVE  MergeDuplicates(reqs) \in Merging(R)
<1> DEFINE S == DOMAIN reqs
           base == [kept |-> <<>>, conflict |-> FALSE]
           pick == [T \in SUBSET S |-> Max(T)]
           next == [p \in S \X Merging(R) |-> AddDuplicate(p[2], reqs[p[1]])]
           Merges(s) == s = [T \in SUBSET S |->
                               IF T = {} THEN base
                               ELSE LET x == Max(T) IN AddDuplicate(s[T \ {x}], reqs[x])]
<1>1. S = 1 .. Len(reqs) /\ Len(reqs) \in Nat /\ \A i \in S : reqs[i] \in R
  OBVIOUS
<1>2. IsFiniteSet(S)
  BY <1>1, FS_Interval
<1>3. \A T \in (SUBSET S) \ {{}} : Max(T) \in T
  <2>1. ASSUME NEW T \in (SUBSET S) \ {{}} PROVE Max(T) \in T
    <3>1. T \in SUBSET Nat /\ T # {} /\ \A m \in T : m <= Len(reqs)
      BY <1>1
    <3>2. PICK n \in T : \A m \in T : m <= n
      BY <1>1, <3>1, Largest
    <3>3. \A m \in T : n >= m
      BY <3>1, <3>2
    <3>4. QED
      BY <3>3 DEF Max
  <2>2. QED
    BY <2>1
<1>4. Picks(pick, S)
  BY <1>3 DEF Picks
<1>5. next \in [S \X Merging(R) -> Merging(R)]
  <2>1. \A p \in S \X Merging(R) : p[2] \in Merging(R) /\ reqs[p[1]] \in R
    BY <1>1
  <2>2. \A p \in S \X Merging(R) : AddDuplicate(p[2], reqs[p[1]]) \in Merging(R)
    BY <2>1, DuplicateAdded
  <2>3. QED
    BY <2>2
<1>6. base \in Merging(R)
  BY DEF Merging
<1>7. PICK fold \in [SUBSET S -> Merging(R)] : Folds(fold, S, base, pick, next)
  <2> HIDE DEF S, base, next, pick, Merges
  <2>1. QED
    BY <1>2, <1>4, <1>5, <1>6, FoldExists
<1>8. ASSUME NEW T \in (SUBSET S) \ {{}}
      PROVE  fold[T] = AddDuplicate(fold[T \ {Max(T)}], reqs[Max(T)])
  <2>1. pick[T] = Max(T) /\ Max(T) \in S /\ fold[T \ {Max(T)}] \in Merging(R)
    BY <1>3
  <2>2. fold[T] = next[<<pick[T], fold[T \ {pick[T]}]>>]
    BY <1>7 DEF Folds
  <2> HIDE DEF pick
  <2>3. fold[T] = next[<<Max(T), fold[T \ {Max(T)}]>>]
    BY <2>1, <2>2
  <2>4. QED
    BY <2>1, <2>3
<1>9. Merges(fold)
  <2>1. fold[{}] = base
    BY <1>7 DEF Folds
  <2> HIDE DEF S, base
  <2>2. QED
    BY <1>7, <1>8, <2>1
<1> DEFINE merged == CHOOSE s : Merges(s)
<1>10. Merges(merged)
  BY <1>9
<1>11. MergeDuplicates(reqs) = merged[S]
  BY Zenon DEF MergeDuplicates, FoldLeft, MapThenFoldSet
<1> HIDE DEF merged, S, base
<1>12. merged[{}] = base
  BY <1>10
<1>13. \A T \in (SUBSET S) \ {{}} : merged[T] = AddDuplicate(merged[T \ {Max(T)}], reqs[Max(T)])
  BY <1>10
<1> DEFINE bad == {T \in SUBSET S : merged[T] \notin Merging(R)}
<1>14. ASSUME bad # {} PROVE FALSE
  <2>1. PICK T \in bad : \A x \in T : T \ {x} \notin bad
    <3>1. bad \in SUBSET (SUBSET S)
      OBVIOUS
    <3> HIDE DEF bad
    <3>2. QED
      BY <1>2, <1>14, <3>1, SmallestSet
  <2>2. T \in SUBSET S /\ merged[T] \notin Merging(R)
    BY <2>1
  <2>3. T # {}
    BY <1>6, <1>12, <2>2, Zenon
  <2>4. Max(T) \in T /\ merged[T] = AddDuplicate(merged[T \ {Max(T)}], reqs[Max(T)])
    BY <1>3, <1>13, <2>2, <2>3
  <2>5. merged[T \ {Max(T)}] \in Merging(R)
    BY <2>1, <2>2, <2>4
  <2>6. reqs[Max(T)] \in R
    BY <1>1, <2>2, <2>4
  <2>7. QED
    BY <2>2, <2>4, <2>5, <2>6, DuplicateAdded
<1>15. QED
  BY <1>11, <1>14

(*------------------------------- Matching -------------------------------*)

LEMMA DegreeStatus == ASSUME NEW r PROVE Degree(r).status \in Statuses
<1> DEFINE facts == {f \in profile : f.kind = "education"}
           positive == {f \in facts : f.positive /\ f.degree > 0}
           negative == {f \in facts : ~f.positive /\ f.degree > 0}
           qualifying == {f \in positive : f.degree >= r.amount}
           denied == {f \in negative : f.degree = r.amount}
           completed == {f \in positive : f.completed = "yes"}
           studying == {f \in qualifying : f.completed = "no"}
           unclear == \/ qualifying # {} /\ denied # {}
                      \/ \E p \in positive, n \in negative : p.degree = n.degree
           clear ==
             CASE denied # {} -> Assessed("unmet", denied)
               [] denied = {} /\ completed \cap qualifying # {} ->
                    Assessed("met", completed \cap qualifying)
               [] denied = {} /\ completed \cap qualifying = {} /\ qualifying # {} ->
                    IF Policy[r.quote] = "accept" /\ studying # {} THEN Assessed("met", studying)
                    ELSE Assessed("unknown", qualifying)
               [] denied = {} /\ qualifying = {} /\ completed # {} -> Assessed("unmet", completed)
               [] OTHER -> Assessed("unknown", facts)
<1>1. \A status \in Statuses : \A cited : Assessed(status, cited).status \in Statuses
  BY DEF Assessed
<1>2. Degree(r) = CASE unclear -> Assessed("unknown", facts) [] OTHER -> clear
  BY DEF Degree
<1> HIDE DEF unclear, denied, completed, qualifying, studying, facts
<1>3. clear.status \in Statuses
  BY <1>1 DEF Statuses
<1> HIDE DEF clear
<1>4. QED
  BY <1>1, <1>2, <1>3 DEF Statuses

LEMMA MonthsStatus == ASSUME NEW r, NEW positive PROVE Months(r, positive) \in Statuses
<1> DEFINE months == UnionMonths({<<f.start, EndOf(f)>> : f \in positive})
           counted == CASE months >= r.amount -> "met"
                        [] months < r.amount /\ 2 * months >= r.amount -> "partial"
                        [] OTHER -> "unmet"
<1> HIDE DEF months
<1>1. counted \in Statuses
  BY DEF Statuses
<1> HIDE DEF counted
<1>2. Months(r, positive) = CASE \E f \in positive : ~Dated(f) -> "unknown" [] OTHER -> counted
  BY DEF Months, months, counted
<1>3. QED
  BY <1>1, <1>2 DEF Statuses

LEMMA LabelStatus ==
  ASSUME NEW r, r.op \in {"has_skill", "has_evidence", "min_months"}
  PROVE  Label(r).status \in Statuses
<1> DEFINE facts == About(r)
           positive == {f \in facts : f.positive}
           negative == facts \ positive
           applied == {f \in positive : f.kind # "skill" /\ f.applied}
           found ==
             CASE r.op = "has_evidence" -> Assessed("met", facts)
               [] r.op = "has_skill" /\ applied # {} -> Assessed("met", applied)
               [] r.op = "has_skill" /\ applied = {} -> Assessed("partial", facts)
               [] r.op = "min_months" -> Assessed(Months(r, positive), facts)
<1>1. \A status \in Statuses : \A cited : Assessed(status, cited).status \in Statuses
  BY DEF Assessed
<1>2. Label(r) =
        CASE positive # {} /\ negative # {} -> Assessed("unknown", facts)
          [] positive = {} /\ negative # {} -> Assessed("unmet", facts)
          [] facts = {} -> Assessed("unknown", {})
          [] OTHER -> found
  BY DEF Label
<1>3. Months(r, positive) \in Statuses
  BY MonthsStatus
<1> HIDE DEF facts, positive, negative, applied
<1>4. found.status \in Statuses
  BY <1>1, <1>3 DEF Statuses
<1> HIDE DEF found
<1>5. QED
  BY <1>1, <1>2, <1>4 DEF Statuses

(* Every requirement gets one of the four statuses.                        *)
LEMMA AssessStatus ==
  ASSUME NEW r, RequirementRecord(r)
  PROVE  Assess(r).status \in Statuses
<1>1. r.op \in {"has_skill", "has_evidence", "min_months", "degree_at_least", "manual_review"}
  BY DEF RequirementRecord
<1>2. CASE r.op = "manual_review"
  BY <1>2 DEF Assess, Assessed, Statuses
<1>3. CASE r.op = "degree_at_least"
  BY <1>3, DegreeStatus DEF Assess
<1>4. CASE r.op \in {"has_skill", "has_evidence", "min_months"}
  BY <1>4, LabelStatus DEF Assess
<1>5. QED
  BY <1>1, <1>2, <1>3, <1>4

(*--------------------------- What statuses rest on ----------------------*)

(* The months of dated facts are the months the user worked.               *)
LEMMA WorkedMonths ==
  ASSUME KnownProfile, NEW r, r.op = "min_months",
         NEW positive, positive = {f \in About(r) : f.positive}, \A f \in positive : Dated(f)
  PROVE  /\ UnionMonths({<<f.start, EndOf(f)>> : f \in positive}) = Cardinality(Worked(r))
         /\ Cardinality(Worked(r)) \in 0 .. AsOf
<1> DEFINE spans == {<<f.start, EndOf(f)>> : f \in positive}
           h == [f \in positive |-> <<f.start, EndOf(f)>>]
<1>1. AsOf \in Nat /\ \A f \in profile : FactRecord(f)
  BY AppraisalAssumption DEF KnownProfile
<1>2. positive \in SUBSET profile
  BY DEF About
<1>3. IsFiniteSet(spans)
  <2>1. IsFiniteSet(positive)
    BY <1>2, FS_Subset DEF KnownProfile
  <2>2. h \in Surjection(positive, spans)
    BY DEF Surjection
  <2> HIDE DEF spans, h
  <2>3. QED
    BY <2>1, <2>2, FS_Surjection
<1>4. \A f \in positive : f.start \in 1 .. AsOf /\ EndOf(f) \in 1 .. AsOf /\ f.start <= EndOf(f)
  BY <1>1, <1>2 DEF Dated, EndOf, FactRecord
<1>5. Spans(spans, AsOf)
  BY <1>4 DEF Spans
<1>6. Covered(spans, AsOf) = Worked(r)
  <2>1. \A f \in profile : f \in positive <=> Supports(r, f)
    BY DEF Supports, Deals, About
  <2>2. Worked(r) = {m \in 1 .. AsOf : \E f \in positive : f.start <= m /\ m < EndOf(f)}
    BY <1>2, <2>1 DEF Worked
  <2>3. ASSUME NEW m \in 1 .. AsOf
        PROVE  (\E i \in spans : i[1] <= m /\ m < i[2])
                 <=> \E f \in positive : f.start <= m /\ m < EndOf(f)
    <3>1. ASSUME NEW f \in positive, f.start <= m, m < EndOf(f)
          PROVE  \E i \in spans : i[1] <= m /\ m < i[2]
      <4> WITNESS <<f.start, EndOf(f)>> \in spans
      <4>1. QED
        BY <3>1
    <3>2. QED
      BY <3>1
  <2> HIDE DEF spans
  <2>4. QED
    BY <2>2, <2>3 DEF Covered
<1> HIDE DEF spans
<1>7. UnionMonths(spans) = Cardinality(Covered(spans, AsOf))
  BY <1>1, <1>3, <1>5, UnionMonthsCounts
<1>8. Cardinality(Worked(r)) \in 0 .. AsOf
  <2>1. IsFiniteSet(1 .. AsOf) /\ Cardinality(1 .. AsOf) = AsOf
    BY <1>1, FS_Interval
  <2>2. Worked(r) \in SUBSET (1 .. AsOf)
    BY DEF Worked
  <2>3. Cardinality(Worked(r)) <= AsOf /\ Cardinality(Worked(r)) \in Nat
    BY <2>1, <2>2, FS_Subset, FS_CardinalityType
  <2>4. QED
    BY <1>1, <2>3
<1>9. QED
  BY <1>6, <1>7, <1>8 DEF spans

(* The status of a length of work is that of the months worked.            *)
LEMMA MonthsRest ==
  ASSUME KnownProfile, NEW r, RequirementRecord(r), r.op = "min_months",
         NEW positive, positive = {f \in About(r) : f.positive}
  PROVE  /\ Months(r, positive) = "met" => Cardinality(Worked(r)) \in r.amount .. AsOf
         /\ Months(r, positive) = "partial" =>
              Cardinality(Worked(r)) \in (r.amount + 1) \div 2 .. r.amount - 1
         /\ Months(r, positive) = "unmet" => 2 * Cardinality(Worked(r)) < r.amount
<1> DEFINE months == UnionMonths({<<f.start, EndOf(f)>> : f \in positive})
           worked == Cardinality(Worked(r))
           counted == CASE months >= r.amount -> "met"
                        [] months < r.amount /\ 2 * months >= r.amount -> "partial"
                        [] OTHER -> "unmet"
<1>1. Months(r, positive) = CASE \E f \in positive : ~Dated(f) -> "unknown" [] OTHER -> counted
  BY DEF Months
<1>2. r.amount \in Nat /\ AsOf \in Nat
  BY AppraisalAssumption DEF RequirementRecord
<1>3. CASE \E f \in positive : ~Dated(f)
  <2> HIDE DEF counted
  <2>1. Months(r, positive) = "unknown"
    BY <1>1, <1>3
  <2>2. QED
    BY <2>1
<1>4. CASE \A f \in positive : Dated(f)
  <2>1. months = worked /\ worked \in 0 .. AsOf
    BY <1>4, WorkedMonths
  <2>2. Months(r, positive) = counted
    <3> HIDE DEF counted
    <3>1. QED
      BY <1>1, <1>4
  <2> HIDE DEF months, worked
  <2>3. worked >= r.amount => worked \in r.amount .. AsOf
    BY <1>2, <2>1
  <2>4. worked < r.amount /\ 2 * worked >= r.amount => worked \in (r.amount + 1) \div 2 .. r.amount - 1
    BY <1>2, <2>1
  <2>5. ~(worked >= r.amount) /\ ~(worked < r.amount /\ 2 * worked >= r.amount) => 2 * worked < r.amount
    BY <1>2, <2>1
  <2>6. QED
    BY <2>1, <2>2, <2>3, <2>4, <2>5 DEF worked
<1>5. QED
  BY <1>3, <1>4

LEMMA DegreeRests ==
  ASSUME KnownProfile, NEW r, RequirementRecord(r), r.op = "degree_at_least"
  PROVE  RestsOnFacts(r, Degree(r))
<1> DEFINE facts == {f \in profile : f.kind = "education"}
           positive == {f \in facts : f.positive /\ f.degree > 0}
           negative == {f \in facts : ~f.positive /\ f.degree > 0}
           qualifying == {f \in positive : f.degree >= r.amount}
           denied == {f \in negative : f.degree = r.amount}
           completed == {f \in positive : f.completed = "yes"}
           studying == {f \in qualifying : f.completed = "no"}
           unclear == \/ qualifying # {} /\ denied # {}
                      \/ \E p \in positive, n \in negative : p.degree = n.degree
           clear ==
             CASE denied # {} -> Assessed("unmet", denied)
               [] denied = {} /\ completed \cap qualifying # {} ->
                    Assessed("met", completed \cap qualifying)
               [] denied = {} /\ completed \cap qualifying = {} /\ qualifying # {} ->
                    IF Policy[r.quote] = "accept" /\ studying # {} THEN Assessed("met", studying)
                    ELSE Assessed("unknown", qualifying)
               [] denied = {} /\ qualifying = {} /\ completed # {} -> Assessed("unmet", completed)
               [] OTHER -> Assessed("unknown", facts)
<1>1. Degree(r) = CASE unclear -> Assessed("unknown", facts) [] OTHER -> clear
  BY DEF Degree
<1>2. \A f \in profile : Denies(r, f) <=> f \in denied
  BY DEF Denies, Deals
<1>3. \A f \in profile : Supports(r, f) <=> f \in qualifying
  BY DEF Supports, Deals
<1>4. denied \subseteq profile /\ qualifying \subseteq profile /\ completed \subseteq profile
  OBVIOUS
<1>5. \A f \in completed : Deals(r, f) /\ f.positive /\ f.completed = "yes"
  BY DEF Deals
<1>6. Denied(r) <=> denied # {}
  BY <1>2, <1>4 DEF Denied
<1>7. Supported(r) <=> qualifying # {}
  BY <1>3, <1>4 DEF Supported
<1>8. \A f \in denied \cup qualifying : Deals(r, f)
  BY <1>2, <1>3, <1>4 DEF Denies, Supports
<1>9. ASSUME NEW cited PROVE RestsOnFacts(r, Assessed("unknown", cited))
  BY DEF RestsOnFacts, Assessed
<1>10. ASSUME NEW cited, cited \subseteq qualifying, cited # {}, denied = {}
       PROVE  RestsOnFacts(r, Assessed("met", cited))
  <2>1. PICK f \in cited : f \in profile /\ Supports(r, f) /\ Deals(r, f)
    BY <1>3, <1>4, <1>8, <1>10
  <2>2. f.evidence \subseteq References(cited)
    BY DEF References
  <2>3. ~Denied(r) /\ ~(r.op = "min_months")
    BY <1>6, <1>10
  <2> HIDE DEF denied, qualifying, completed
  <2>4. QED
    BY <2>1, <2>2, <2>3 DEF RestsOnFacts, Assessed
<1>11. ASSUME denied # {}, qualifying = {} PROVE RestsOnFacts(r, Assessed("unmet", denied))
  <2>1. Denied(r) /\ ~Supported(r) /\ \E f \in profile : Deals(r, f)
    BY <1>4, <1>6, <1>7, <1>8, <1>11
  <2> HIDE DEF denied, qualifying, completed
  <2>2. QED
    BY <2>1 DEF RestsOnFacts, Assessed
<1>12. ASSUME qualifying = {}, completed # {} PROVE RestsOnFacts(r, Assessed("unmet", completed))
  <2>1. PICK f \in profile : Deals(r, f) /\ f.positive /\ f.completed = "yes"
    BY <1>4, <1>5, <1>12
  <2>2. ~Supported(r)
    BY <1>7, <1>12
  <2>3. Short(r)
    BY <2>1, <2>2 DEF Short
  <2> HIDE DEF denied, qualifying, completed
  <2>4. QED
    BY <2>1, <2>2, <2>3 DEF RestsOnFacts, Assessed
<1>13. completed \cap qualifying \subseteq qualifying /\ studying \subseteq qualifying
  OBVIOUS
<1>14. ~unclear => denied = {} \/ qualifying = {}
  OBVIOUS
<1> HIDE DEF facts, positive, negative, qualifying, denied, completed, studying, unclear
<1>15. ~unclear => RestsOnFacts(r, clear)
  BY <1>9, <1>10, <1>11, <1>12, <1>13, <1>14
<1> HIDE DEF clear
<1>16. QED
  BY <1>1, <1>9, <1>15

LEMMA LabelRests ==
  ASSUME KnownProfile, NEW r, RequirementRecord(r),
         r.op \in {"has_skill", "has_evidence", "min_months"}
  PROVE  RestsOnFacts(r, Label(r))
<1> DEFINE facts == About(r)
           positive == {f \in facts : f.positive}
           negative == facts \ positive
           applied == {f \in positive : f.kind # "skill" /\ f.applied}
           found ==
             CASE r.op = "has_evidence" -> Assessed("met", facts)
               [] r.op = "has_skill" /\ applied # {} -> Assessed("met", applied)
               [] r.op = "has_skill" /\ applied = {} -> Assessed("partial", facts)
               [] r.op = "min_months" -> Assessed(Months(r, positive), facts)
<1>1. Label(r) =
        CASE positive # {} /\ negative # {} -> Assessed("unknown", facts)
          [] positive = {} /\ negative # {} -> Assessed("unmet", facts)
          [] facts = {} -> Assessed("unknown", {})
          [] OTHER -> found
  BY DEF Label
<1>2. facts \subseteq profile /\ \A f \in profile : Deals(r, f) <=> f \in facts
  BY DEF About, Deals
<1>3. \A f \in profile : /\ Supports(r, f) <=> f \in positive
                         /\ Denies(r, f) <=> f \in negative
  BY <1>2 DEF Supports, Denies, Deals
<1>4. (Denied(r) <=> negative # {}) /\ (Supported(r) <=> positive # {})
  BY <1>2, <1>3 DEF Denied, Supported
<1>5. positive \subseteq facts /\ negative \subseteq facts /\ applied \subseteq positive
      /\ facts = positive \cup negative
  OBVIOUS
<1>6. Months(r, positive) \in Statuses
  BY MonthsStatus
<1>7. r.op = "min_months" =>
         /\ Months(r, positive) = "met" => Cardinality(Worked(r)) \in r.amount .. AsOf
         /\ Months(r, positive) = "partial" =>
              Cardinality(Worked(r)) \in (r.amount + 1) \div 2 .. r.amount - 1
         /\ Months(r, positive) = "unmet" => 2 * Cardinality(Worked(r)) < r.amount
  BY MonthsRest
<1> HIDE DEF facts, positive, negative, applied
<1>8. ASSUME NEW cited PROVE RestsOnFacts(r, Assessed("unknown", cited))
  BY DEF RestsOnFacts, Assessed
<1>9. ASSUME positive = {}, negative # {} PROVE RestsOnFacts(r, Assessed("unmet", facts))
  <2>1. Denied(r) /\ ~Supported(r) /\ \E f \in profile : Deals(r, f)
    BY <1>2, <1>4, <1>5, <1>9
  <2>2. QED
    BY <2>1 DEF RestsOnFacts, Assessed
<1>10. ASSUME NEW status \in {"met", "partial"}, NEW cited, cited # {}, cited \subseteq positive,
              negative = {},
              r.op = "min_months" =>
                Cardinality(Worked(r)) \in
                  IF status = "met" THEN r.amount .. AsOf ELSE (r.amount + 1) \div 2 .. r.amount - 1
       PROVE  RestsOnFacts(r, Assessed(status, cited))
  <2>1. PICK f \in cited : f \in profile /\ Supports(r, f) /\ Deals(r, f)
    BY <1>2, <1>3, <1>5, <1>10
  <2>2. f.evidence \subseteq References(cited)
    BY DEF References
  <2>3. ~Denied(r)
    BY <1>4, <1>10
  <2>4. QED
    BY <1>10, <2>1, <2>2, <2>3 DEF RestsOnFacts, Assessed
<1>11. ASSUME negative = {}, positive # {} PROVE RestsOnFacts(r, found)
  <2>1. facts \subseteq positive /\ facts # {}
    BY <1>5, <1>11
  <2>2. CASE r.op = "has_evidence"
    BY <1>10, <1>11, <2>1, <2>2
  <2>3. CASE r.op = "has_skill"
    BY <1>5, <1>10, <1>11, <2>1, <2>3
  <2>4. CASE r.op = "min_months"
    <3>1. found = Assessed(Months(r, positive), facts)
      BY <2>4
    <3>2. CASE Months(r, positive) \in {"met", "partial"}
      BY <1>7, <1>10, <1>11, <2>1, <2>4, <3>1, <3>2
    <3>3. CASE Months(r, positive) = "unmet"
      <4>1. Short(r)
        BY <1>4, <1>7, <1>11, <2>4, <3>3 DEF Short
      <4>2. ~Denied(r) /\ \E f \in profile : Deals(r, f)
        BY <1>2, <1>4, <1>11, <2>1
      <4> HIDE DEF found
      <4>3. QED
        BY <3>1, <3>3, <4>1, <4>2 DEF RestsOnFacts, Assessed
    <3>4. CASE Months(r, positive) = "unknown"
      BY <1>8, <3>1, <3>4
    <3>5. QED
      BY <1>6, <3>2, <3>3, <3>4 DEF Statuses
  <2>5. QED
    BY <2>2, <2>3, <2>4
<1> HIDE DEF found
<1>12. QED
  BY <1>1, <1>5, <1>8, <1>9, <1>11

(* The assessment of a requirement says no more than the facts do.         *)
LEMMA AssessRests ==
  ASSUME KnownProfile, NEW r, RequirementRecord(r)
  PROVE  RestsOnFacts(r, Assess(r))
<1>1. r.op \in {"has_skill", "has_evidence", "min_months", "degree_at_least", "manual_review"}
  BY DEF RequirementRecord
<1>2. CASE r.op = "manual_review"
  <2>1. Assess(r).status = "unknown"
    BY <1>2 DEF Assess, Assessed
  <2>2. QED
    BY <2>1 DEF RestsOnFacts
<1>3. CASE r.op = "degree_at_least"
  BY <1>3, DegreeRests DEF Assess
<1>4. CASE r.op \in {"has_skill", "has_evidence", "min_months"}
  BY <1>4, LabelRests DEF Assess
<1>5. QED
  BY <1>1, <1>2, <1>3, <1>4

(* A group of requirements has a first one.                                *)
LEMMA FirstInGroup ==
  ASSUME NEW group, group # {}, \A r \in group : r.id \in Nat
  PROVE  First(group) \in group
<1> DEFINE numbers == {r.id : r \in group}
<1>1. numbers \in SUBSET Nat /\ numbers # {}
  OBVIOUS
<1> HIDE DEF numbers
<1>2. PICK n \in numbers : \A m \in numbers : n <= m
  BY <1>1, Smallest
<1>3. \E r \in group : \A s \in group : r.id <= s.id
  BY <1>2 DEF numbers
<1>4. QED
  BY <1>3 DEF First

(*------------------------------- Scoring --------------------------------*)

LEMMA PreparedFromJob ==
  ASSUME ValidJob(job), NEW r \in Prepared(job)
  PROVE  r \in Scorable(job) /\ RequirementRecord(r)
<1>1. PICK group \in Groups(job) : r = First(group)
  BY DEF Prepared
<1>2. group # {} /\ group \subseteq Scorable(job) /\ group \subseteq ToSet(job)
  BY <1>1 DEF Groups, Scorable
<1>3. \A s \in ToSet(job) : RequirementRecord(s)
  BY DEF ValidJob, ToSet
<1>4. \A s \in group : s.id \in Nat
  BY <1>2, <1>3 DEF RequirementRecord
<1>5. r \in group
  BY <1>1, <1>2, <1>4, FirstInGroup
<1>6. QED
  BY <1>2, <1>3, <1>5

LEMMA IdsTellApart ==
  ASSUME ValidJob(job), NEW r \in Scorable(job), NEW s \in Scorable(job), r.id = s.id
  PROVE  r = s
  BY DEF ValidJob, UniqueIds, Scorable, ToSet

LEMMA JobFinite ==
  ASSUME job \in Seq(Requirement)
  PROVE  IsFiniteSet(Scorable(job))
<1> DEFINE h == [i \in DOMAIN job |-> job[i]]
<1>1. IsFiniteSet(DOMAIN job)
  <2>1. DOMAIN job = 1 .. Len(job) /\ Len(job) \in Nat
    OBVIOUS
  <2>2. QED
    BY <2>1, FS_Interval
<1>2. h \in Surjection(DOMAIN job, ToSet(job))
  BY DEF Surjection, ToSet
<1> HIDE DEF h
<1>3. IsFiniteSet(ToSet(job))
  BY <1>1, <1>2, FS_Surjection
<1>4. Scorable(job) \in SUBSET ToSet(job)
  BY DEF Scorable
<1>5. QED
  BY <1>3, <1>4, FS_Subset

(* What the score guard lets through is reliable and rests on the facts.   *)
LEMMA ScoreSound ==
  ASSUME ValidJob(job), KnownProfile, ScoreFits(Assessments(job))
  PROVE  Reliable(Assessments(job)) /\ Grounded(Assessments(job))
<1> DEFINE items == Assessments(job)
<1>1. ASSUME NEW a \in items
      PROVE  \E r \in Prepared(job) :
               /\ r \in Scorable(job) /\ RequirementRecord(r)
               /\ a = [requirement_id |-> r.id, category |-> r.category, importance |-> r.importance,
                       status |-> Assess(r).status, weight |-> WEIGHTS[r.importance],
                       evidence |-> Assess(r).evidence]
  BY PreparedFromJob DEF Assessments
<1> HIDE DEF items
<1>2. \A a, b \in items : a.requirement_id = b.requirement_id => a = b
  BY <1>1, IdsTellApart
<1>3. \A a \in items : a.status \in Statuses
  BY <1>1, AssessStatus
<1>4. \A a \in items : a.evidence \subseteq Evidence
  BY DEF ScoreFits, items
<1>5. ASSUME NEW a \in items, NEW r \in Scorable(job), r.id = a.requirement_id
      PROVE  RestsOnFacts(r, a)
  <2>1. PICK s \in Prepared(job) :
          /\ s \in Scorable(job) /\ RequirementRecord(s) /\ a.requirement_id = s.id
          /\ a.status = Assess(s).status /\ a.evidence = Assess(s).evidence
    BY <1>1
  <2>2. r = s
    BY <1>5, <2>1, IdsTellApart
  <2>3. RestsOnFacts(r, Assess(r))
    BY <2>1, <2>2, AssessRests
  <2>4. a.status = Assess(r).status /\ a.evidence = Assess(r).evidence
    BY <2>1, <2>2
  <2>5. QED
    BY <2>3, <2>4 DEF RestsOnFacts
<1>6. QED
  BY <1>2, <1>3, <1>4, <1>5 DEF Reliable, Grounded, items

(* The tenth shown is the nearest one.                                     *)
LEMMA RoundedNearest ==
  ASSUME NEW n \in Nat, NEW d \in Nat, d > 0
  PROVE  Nearest(Rounded(n, d), n, d) /\ Rounded(n, d) \in Nat
<1> DEFINE q == (2 * n + d) \div (2 * d)
<1>1. 2 * n + d \in Nat /\ 2 * d \in Nat /\ 2 * d > 0
  OBVIOUS
<1>2. \A a, b \in Nat : b > 0 =>
        a \div b \in Nat /\ b * (a \div b) <= a /\ a < b * (a \div b) + b
  OBVIOUS
<1>3. q \in Nat /\ (2 * d) * q <= 2 * n + d /\ 2 * n + d < (2 * d) * q + 2 * d
  BY <1>1, <1>2
<1> HIDE DEF q
<1>4. (2 * d) * q \in Nat /\ 2 * d * q = (2 * d) * q
  BY <1>3
<1>5. 2 * n - d < 2 * d * q /\ 2 * d * q <= 2 * n + d
  BY <1>3, <1>4
<1>6. QED
  BY <1>3, <1>5 DEF Nearest, Rounded, q

(* The assessment of a requirement of a scored job.                        *)
Of(r) == CHOOSE a \in score.assessments : a.requirement_id = r.id

LEMMA JobIsScored ==
  ASSUME ValidJob(job), Judged, NEW r \in Scorable(job)
  PROVE  /\ Of(r) \in score.assessments /\ Of(r).requirement_id = r.id
         /\ Of(r).importance = r.importance /\ Of(r).category = r.category
         /\ Of(r).weight = WEIGHTS[r.importance] /\ Of(r).status = StatusOf(r.id)
         /\ Of(r).status \in Statuses /\ r.importance \in {"must", "preferred"}
<1>1. \E a \in score.assessments : a.requirement_id = r.id
  <2>1. r.id \in {a.requirement_id : a \in score.assessments}
    BY DEF Judged, ScoreFits
  <2>2. QED
    BY <2>1
<1>2. Of(r) \in score.assessments /\ Of(r).requirement_id = r.id
  BY <1>1 DEF Of
<1>3. PICK s \in Scorable(job) :
        /\ s.id = Of(r).requirement_id /\ s.category = Of(r).category
        /\ s.importance = Of(r).importance /\ Of(r).weight = WEIGHTS[s.importance]
  BY <1>2 DEF Judged, ScoreFits
<1>4. s = r
  BY <1>2, <1>3, IdsTellApart
<1>5. Of(r).status = StatusOf(r.id)
  BY DEF Of, StatusOf
<1>6. Of(r).status \in Statuses
  BY <1>2 DEF Judged, Reliable
<1>7. r.importance \in {"must", "preferred"}
  BY DEF ValidJob, RequirementRecord, Scorable, ToSet
<1>8. QED
  BY <1>2, <1>3, <1>4, <1>5, <1>6, <1>7

LEMMA ScoreIsOfJob ==
  ASSUME ValidJob(job), Judged, NEW a \in score.assessments
  PROVE  \E r \in Scorable(job) : a = Of(r)
<1>1. PICK r \in Scorable(job) : r.id = a.requirement_id
  BY DEF Judged, ScoreFits
<1>2. Of(r) \in score.assessments /\ Of(r).requirement_id = r.id
  BY JobIsScored
<1>3. a = Of(r)
  BY <1>1, <1>2 DEF Judged, Reliable
<1>4. QED
  BY <1>3

(* The assessments of some requirements weigh and earn what these do.      *)
LEMMA PartCounts ==
  ASSUME ValidJob(job), Judged, job \in Seq(Requirement),
         NEW reqs \in SUBSET Scorable(job), NEW items, items = {Of(r) : r \in reqs}
  PROVE  /\ Earned(items) = Points(reqs) /\ Weight(items) = Most(reqs)
         /\ Points(reqs) \in Nat /\ Most(reqs) \in Nat /\ (reqs # {} => Most(reqs) > 0)
<1> DEFINE h == [r \in reqs |-> Of(r)]
           earns == [r \in reqs |-> WEIGHTS[r.importance] * COEFFICIENTS[StatusOf(r.id)]]
           weighs == [r \in reqs |-> WEIGHTS[r.importance]]
           earned == [a \in items |-> a.weight * COEFFICIENTS[a.status]]
           weight == [a \in items |-> a.weight]
<1>1. IsFiniteSet(reqs)
  BY JobFinite, FS_Subset
<1>2. ASSUME NEW r \in reqs
      PROVE  /\ WEIGHTS[r.importance] \in {1, 2} /\ COEFFICIENTS[StatusOf(r.id)] \in {0, 1, 2}
             /\ Of(r).weight = WEIGHTS[r.importance] /\ Of(r).status = StatusOf(r.id)
             /\ Of(r).requirement_id = r.id
  <2>1. /\ Of(r).weight = WEIGHTS[r.importance] /\ Of(r).status = StatusOf(r.id)
        /\ Of(r).requirement_id = r.id
        /\ StatusOf(r.id) \in Statuses /\ r.importance \in {"must", "preferred"}
    BY JobIsScored
  <2>2. QED
    BY <2>1 DEF WEIGHTS, COEFFICIENTS, Statuses
<1>3. \A x, y \in {0, 1, 2} : x * y \in Nat
  OBVIOUS
<1>4. earns \in [reqs -> Nat] /\ weighs \in [reqs -> Nat]
  BY <1>2, <1>3
<1>5. earned \in [items -> Nat] /\ weight \in [items -> Nat]
  BY <1>2, <1>3
<1>6. /\ h \in [reqs -> items] /\ \A a \in items : \E r \in reqs : h[r] = a
      /\ \A r, s \in reqs : h[r] = h[s] => r = s
  <2>1. \A r, s \in reqs : h[r] = h[s] => r = s
    BY <1>2, IdsTellApart
  <2>2. QED
    BY <2>1
<1>7. Pairs(h, reqs, items, earns, earned) /\ Pairs(h, reqs, items, weighs, weight)
  <2>1. \A r \in reqs : earns[r] = earned[h[r]] /\ weighs[r] = weight[h[r]]
    BY <1>2
  <2> HIDE DEF h, earns, earned, weighs, weight
  <2>2. QED
    BY <1>6, <2>1 DEF Pairs
<1> HIDE DEF h, earns, earned, weighs, weight
<1>8. Total(earns) = Total(earned) /\ Total(weighs) = Total(weight)
  BY <1>1, <1>4, <1>5, <1>7, SameTotals, SMTT(60)
<1>9. Total(earns) \in Nat /\ Total(weighs) \in Nat /\ \A r \in reqs : weighs[r] <= Total(weighs)
  BY <1>1, <1>4, TotalPositive
<1>10. reqs # {} => Total(weighs) > 0
  <2>1. \A r \in reqs : weighs[r] >= 1
    BY <1>2 DEF weighs
  <2>2. QED
    BY <1>4, <1>9, <2>1
<1>11. /\ Points(reqs) = Total(earns) /\ Most(reqs) = Total(weighs)
       /\ Earned(items) = Total(earned) /\ Weight(items) = Total(weight)
  BY Zenon DEF Points, Most, Earned, Weight, earns, earned, weighs, weight
<1>12. QED
  BY <1>8, <1>9, <1>10, <1>11

LEMMA PercentageNearest ==
  ASSUME NEW items, NEW points \in Nat, NEW most \in Nat, most > 0,
         Earned(items) = points, Weight(items) = most
  PROVE  Nearest(Percentage(items), 500 * points, most)
<1> DEFINE q == Rounded(1000 * points, 2 * most)
<1>1. Nearest(q, 1000 * points, 2 * most) /\ q \in Nat
  <2>1. 1000 * points \in Nat /\ 2 * most \in Nat /\ 2 * most > 0
    OBVIOUS
  <2>2. QED
    BY <2>1, RoundedNearest
<1>2. Percentage(items) = q
  BY DEF Percentage
<1> HIDE DEF q
<1>3. most * q \in Nat /\ 2 * (2 * most) * q = 4 * (most * q) /\ 2 * most * q = 2 * (most * q)
  BY <1>1
<1>4. QED
  BY <1>1, <1>2, <1>3 DEF Nearest

(*------------------------------ Reporting -------------------------------*)

(* An assessment is found by the id of its requirement.                    *)
LEMMA Found ==
  ASSUME Reliable(score.assessments), NEW a \in score.assessments
  PROVE  StatusOf(a.requirement_id) = a.status /\ CitedBy(a.requirement_id) = a.evidence
  BY DEF Reliable, StatusOf, CitedBy

(* What the reporter accepts, the worker accepts.                          *)
LEMMA WorkerFollows ==
  ASSUME Reliable(score.assessments), NEW r, ReporterAccepts(r)
  PROVE  WorkerAccepts(r)
<1> DEFINE KIND == [unmet |-> "explicit_gap", partial |-> "partial_gap",
                    unknown |-> "needs_evidence", met |-> "none"]
<1>1. ASSUME NEW i \in DOMAIN r.gaps
      PROVE  /\ r.gaps[i].id \in Rated /\ r.gaps[i].kind = KIND[StatusOf(r.gaps[i].id)]
             /\ r.gaps[i].evidence \subseteq Evidence
  <2>1. PICK a \in score.assessments : a.requirement_id = r.gaps[i].id /\ a.status # "met"
    BY DEF ReporterAccepts, GapsFit, ToImprove
  <2>2. StatusOf(r.gaps[i].id) = a.status /\ CitedBy(r.gaps[i].id) = a.evidence
    BY <2>1, Found
  <2>3. a.status \in {"partial", "unmet", "unknown"} /\ a.evidence \subseteq Evidence
    BY <2>1 DEF Reliable, Statuses
  <2>4. r.gaps[i].kind = GAP_KIND_BY_STATUS[a.status]
    BY <2>2 DEF ReporterAccepts, GapsFit
  <2>5. GAP_KIND_BY_STATUS[a.status] = KIND[a.status]
    BY <2>3 DEF GAP_KIND_BY_STATUS
  <2>6. r.gaps[i].id \in Rated
    BY <2>1 DEF Rated
  <2>7. r.gaps[i].evidence \subseteq CitedBy(r.gaps[i].id)
    BY DEF ReporterAccepts, GapsFit
  <2>8. QED
    BY <2>2, <2>3, <2>4, <2>5, <2>6, <2>7
<1>2. \A s \in r.suggestions : s.id \in Rated /\ s.evidence \subseteq Evidence
  BY DEF ReporterAccepts, SuggestionFits
<1>3. r.actions \subseteq Rated
  BY DEF ReporterAccepts
<1>4. QED
  BY <1>1, <1>2, <1>3 DEF WorkerAccepts

(* A report that fits a score fits it as long as the score is the same.    *)
LEMMA FittingKept ==
  ASSUME NEW r, Fitting(r), report' = r, UNCHANGED score
  PROVE  Fitting(report)'
<1>1. GapsFit(r.gaps) /\ GapsComplete(r.gaps) /\ \A s \in r.suggestions : NumbersSupported(s)
  BY DEF Fitting
<1>2. GapsFit(report.gaps)'
  <2>1. \A id : StatusOf(id)' = StatusOf(id) /\ CitedBy(id)' = CitedBy(id)
    BY DEF StatusOf, CitedBy
  <2>2. ToImprove' = ToImprove
    BY DEF ToImprove
  <2>3. QED
    BY <1>1, <2>1, <2>2 DEF GapsFit
<1>3. GapsComplete(report.gaps)'
  BY <1>1 DEF GapsComplete
<1>4. (\A s \in report.suggestions : NumbersSupported(s))'
  BY <1>1 DEF NumbersSupported
<1>5. QED
  BY <1>2, <1>3, <1>4 DEF Fitting

(*------------------------------- The steps ------------------------------*)

LEMMA InitInvariant == Init => IInv
<1> SUFFICES ASSUME Init PROVE IInv
  OBVIOUS
<1>1. job \in Seq(Requirement) /\ KnownProfile
  BY DEF Init, KnownProfile
<1>2. QED
  BY <1>1 DEF Init, IInv

LEMMA GroundedKept ==
  ASSUME NEW items, Grounded(items), UNCHANGED <<job, profile>>
  PROVE  (\A a \in items : \A r \in Scorable(job) : r.id = a.requirement_id => RestsOnFacts(r, a))'
<1>1. Scorable(job)' = Scorable(job)
  BY DEF Scorable
<1>2. ASSUME NEW a, NEW r, RestsOnFacts(r, a) PROVE RestsOnFacts(r, a)'
  <2>1. \A f : Deals(r, f)' <=> Deals(r, f)
    BY DEF Deals, About
  <2>2. \A f : /\ Denies(r, f)' <=> Denies(r, f)
               /\ Supports(r, f)' <=> Supports(r, f)
    BY <2>1 DEF Denies, Supports
  <2>3. (Denied(r)' <=> Denied(r)) /\ (Supported(r)' <=> Supported(r)) /\ Worked(r)' = Worked(r)
    BY <2>2 DEF Denied, Supported, Worked
  <2>4. Short(r)' <=> Short(r)
    BY <2>1, <2>3 DEF Short
  <2>5. QED
    BY <1>2, <2>1, <2>2, <2>3, <2>4 DEF RestsOnFacts
<1>3. QED
  BY <1>1, <1>2 DEF Grounded

(* A step that leaves the job and the profile alone keeps what rests on    *)
(* them.                                                                   *)
LEMMA SoundKept ==
  ASSUME NEW items, Reliable(items), Grounded(items), ScoreFits(items),
         UNCHANGED <<job, profile>>, score'.assessments = items
  PROVE  (Reliable(score.assessments) /\ Grounded(score.assessments) /\ ScoreFits(score.assessments))'
<1>1. Reliable(score.assessments)'
  BY DEF Reliable, Evidence
<1>2. Grounded(score.assessments)'
  BY GroundedKept DEF Grounded
<1>3. ScoreFits(score.assessments)'
  BY DEF ScoreFits, Scorable, Evidence
<1>4. QED
  BY <1>1, <1>2, <1>3

LEMMA JudgedKept ==
  ASSUME Judged, UNCHANGED <<job, profile, score>>
  PROVE  Judged'
<1>1. (Reliable(score.assessments) /\ Grounded(score.assessments) /\ ScoreFits(score.assessments))'
  BY SoundKept DEF Judged
<1>2. QED
  BY <1>1 DEF Judged

LEMMA JobKept ==
  ASSUME job \in Seq(Requirement), KnownProfile, UNCHANGED <<job, profile>>
  PROVE  /\ (job \in Seq(Requirement) /\ KnownProfile)'
         /\ ValidJob(job) => ValidJob(job)'
  BY DEF KnownProfile, ValidJob, UniqueIds

LEMMA DraftStep ==
  ASSUME IInv, NEW reqs \in Seq(Requirement), ValidJob(reqs), job' = reqs, stage' = "draft",
         UNCHANGED profile
  PROVE  IInv'
<1>1. (job \in Seq(Requirement) /\ KnownProfile)'
  BY DEF IInv, KnownProfile
<1>2. ValidJob(job)'
  BY DEF ValidJob, UniqueIds
<1>3. QED
  BY <1>1, <1>2 DEF IInv

LEMMA ScoreStep ==
  ASSUME IInv, Score
  PROVE  IInv'
<1> DEFINE items == Assessments(job)
           fits == ~NeedsConfirmation(job) /\ items # {} /\ ScoreFits(items)
<1>1. /\ stage = "confirmed" /\ UNCHANGED <<job, profile, report>>
      /\ stage' = IF fits THEN "scored" ELSE "failed"
      /\ score' = IF fits THEN Calculate(items) ELSE NoScore
  BY DEF Score
<1>2. (job \in Seq(Requirement) /\ KnownProfile)' /\ ValidJob(job)' /\ ValidJob(job) /\ KnownProfile
  BY <1>1, JobKept DEF IInv
<1>3. CASE fits
  <2>1. Reliable(items) /\ Grounded(items) /\ ScoreFits(items) /\ items # {}
    BY <1>2, <1>3, ScoreSound
  <2>2. stage' = "scored" /\ score' = Calculate(items)
    BY <1>1, <1>3
  <2>3. score'.assessments = items
    BY <2>2 DEF Calculate
  <2> HIDE DEF items
  <2>4. (Reliable(score.assessments) /\ Grounded(score.assessments) /\ ScoreFits(score.assessments))'
    BY <1>1, <2>1, <2>3, SoundKept
  <2>5. Judged'
    BY <2>1, <2>2, <2>3, <2>4 DEF Judged
  <2>6. QED
    BY <1>2, <2>2, <2>5 DEF IInv
<1>4. CASE ~fits
  <2>1. stage' = "failed"
    BY <1>1, <1>4
  <2>2. QED
    BY <1>2, <2>1 DEF IInv
<1>5. QED
  BY <1>3, <1>4

LEMMA ReportStep ==
  ASSUME IInv, NEW r, Report(r)
  PROVE  IInv'
<1>1. /\ stage = "scored" /\ UNCHANGED <<job, profile, score>> /\ stage' = Verdict(r)
      /\ report' = IF Verdict(r) = "succeeded" THEN r ELSE NoReport
  BY DEF Report
<1>2. Judged /\ ValidJob(job)
  BY <1>1 DEF IInv
<1>3. (job \in Seq(Requirement) /\ KnownProfile)' /\ ValidJob(job)' /\ Judged'
  BY <1>1, <1>2, JobKept, JudgedKept DEF IInv
<1>4. CASE ReporterAccepts(r)
  <2>1. Verdict(r) = "succeeded"
    BY <1>2, <1>4, WorkerFollows DEF Verdict, Judged
  <2>2. Fitting(r)
    BY <1>4 DEF ReporterAccepts, SuggestionFits, Fitting
  <2>3. Fitting(report)'
    BY <1>1, <2>1, <2>2, FittingKept
  <2>4. QED
    BY <1>1, <1>3, <2>1, <2>3 DEF IInv
<1>5. CASE ~ReporterAccepts(r)
  <2>1. Verdict(r) = "score_only"
    BY <1>5 DEF Verdict
  <2>2. QED
    BY <1>1, <1>3, <2>1 DEF IInv
<1>6. QED
  BY <1>4, <1>5

LEMMA NextInvariant == IInv /\ [Next]_vars => IInv'
<1> SUFFICES ASSUME IInv, [Next]_vars PROVE IInv'
  OBVIOUS
<1>1. ASSUME NEW reqs \in Drafts, Extract(reqs) \/ Edit(reqs) PROVE IInv'
  <2>1. reqs \in Seq(Requirement)
    BY DEF Drafts, SeqOf
  <2>2. CASE Extract(reqs)
    <3> DEFINE kept == MergeDuplicates(reqs).kept
    <3>1. kept \in Seq(Requirement)
      BY <2>1, MergedDraft DEF Merging
    <3>2. ValidJob(kept) /\ job' = kept /\ stage' = "draft" /\ UNCHANGED profile
      BY <2>2 DEF Extract
    <3> HIDE DEF kept
    <3>3. QED
      BY <3>1, <3>2, DraftStep
  <2>3. CASE Edit(reqs)
    <3>1. ValidJob(reqs) /\ job' = reqs /\ stage' = "draft" /\ UNCHANGED profile
      BY <2>3 DEF Edit
    <3>2. QED
      BY <2>1, <3>1, DraftStep
  <2>4. QED
    BY <1>1, <2>2, <2>3
<1>2. CASE Confirm
  <2>1. stage = "draft" /\ stage' = "confirmed" /\ UNCHANGED <<job, profile>>
    BY <1>2 DEF Confirm
  <2>2. (job \in Seq(Requirement) /\ KnownProfile)' /\ ValidJob(job)'
    BY <2>1, JobKept DEF IInv
  <2>3. QED
    BY <2>1, <2>2 DEF IInv
<1>3. CASE Score
  BY <1>3, ScoreStep
<1>4. CASE stage = "scored" /\ \E r \in Answers : Report(r)
  BY <1>4, ReportStep
<1>5. CASE NoAnswer
  <2>1. stage = "scored" /\ stage' = "score_only" /\ UNCHANGED <<job, profile>>
    BY <1>5 DEF NoAnswer
  <2>2. (job \in Seq(Requirement) /\ KnownProfile)'
    BY <2>1, JobKept DEF IInv
  <2>3. QED
    BY <2>1, <2>2 DEF IInv
<1>6. CASE UNCHANGED vars
  <2>1. UNCHANGED <<job, profile, score, report>> /\ stage' = stage
    BY <1>6 DEF vars
  <2>2. (job \in Seq(Requirement) /\ KnownProfile)' /\ (ValidJob(job) => ValidJob(job)')
    BY <2>1, JobKept DEF IInv
  <2>3. Judged => Judged'
    BY <2>1, JudgedKept
  <2>4. Fitting(report) => Fitting(report)'
    BY <2>1, FittingKept
  <2>5. QED
    BY <2>1, <2>2, <2>3, <2>4 DEF IInv
<1>7. QED
  BY <1>1, <1>2, <1>3, <1>4, <1>5, <1>6 DEF Next

(* Every step keeps the invariant.                                         *)
THEOREM InvariantHolds == Spec => []IInv
<1>1. QED
  BY InitInvariant, NextInvariant, PTL DEF Spec

(* The worker's validate_report (jobs/worker.py) never overrules the       *)
(* reporter's (reporting/validation.py): whatever the requirements, the    *)
(* profile and the answer, what the reporter accepts finishes the item.    *)
THEOREM ReporterAlwaysDecides == Spec => []ReporterDecides
<1>1. IInv => ReporterDecides
  BY DEF IInv, ReporterDecides
<1>2. QED
  BY <1>1, InvariantHolds, PTL

(* Every status matcher.py gives and _score saves is what the confirmed    *)
(* facts say, whatever their labels, ranks and dates.                      *)
THEOREM AssessmentsAlwaysRestOnFacts == Spec => []AssessmentsRestOnFacts
<1>1. IInv => AssessmentsRestOnFacts
  BY DEF IInv, Judged, Grounded, RestsOnFacts, AssessmentsRestOnFacts, Saved
<1>2. QED
  BY <1>1, InvariantHolds, PTL

(* The score calculate_score gives is the coverage of the stored job: each *)
(* requirement not ignored counts once, and the tenth is the nearest.      *)
THEOREM ScoreIsAlwaysCoverage == Spec => []ScoreIsCoverage
<1>1. IInv => ScoreIsCoverage
  <2> SUFFICES ASSUME IInv, Saved PROVE Coverage(Scorable(job))
    BY DEF ScoreIsCoverage
  <2> DEFINE asked == Scorable(job)
             items == score.assessments
             unknown == {r \in asked : StatusOf(r.id) = "unknown"}
             Part(c) == {r \in asked : r.category = c}
             Rate(c) == Percentage({a \in items : a.category = c})
  <2>1. ValidJob(job) /\ Judged /\ job \in Seq(Requirement)
    BY DEF IInv, Saved
  <2>2. /\ \A r \in asked : /\ Of(r) \in items /\ Of(r).category = r.category
                            /\ Of(r).status = StatusOf(r.id)
        /\ \A a \in items : \E r \in asked : a = Of(r)
    BY <2>1, JobIsScored, ScoreIsOfJob
  <2>3. /\ items = {Of(r) : r \in asked}
        /\ {a \in items : a.status = "unknown"} = {Of(r) : r \in unknown}
        /\ \A c : {a \in items : a.category = c} = {Of(r) : r \in Part(c)}
    BY <2>2
  <2>4. asked # {}
    BY <2>1, <2>2 DEF Judged
  <2>5. ASSUME NEW reqs \in SUBSET asked, reqs # {}, NEW part, part = {Of(r) : r \in reqs}
        PROVE  Nearest(Percentage(part), 500 * Points(reqs), Most(reqs))
    <3>1. /\ Earned(part) = Points(reqs) /\ Weight(part) = Most(reqs)
          /\ Points(reqs) \in Nat /\ Most(reqs) \in Nat /\ Most(reqs) > 0
      BY <2>1, <2>5, PartCounts
    <3>2. QED
      BY <3>1, PercentageNearest
  <2>6. /\ score.total = Percentage(items)
        /\ score.unknown = Rounded(10000 * Weight({a \in items : a.status = "unknown"}), Weight(items))
        /\ score.dimensions = {[category |-> c, score |-> Rate(c)] : c \in {a.category : a \in items}}
    <3> DEFINE ratio == Rounded(10000 * Weight({a \in items : a.status = "unknown"}), Weight(items))
               dims == {[category |-> c, score |-> Rate(c)] : c \in {a.category : a \in items}}
    <3>1. score = Calculate(items)
      BY <2>1 DEF Judged
    <3>2. Calculate(items) = [assessments |-> items, total |-> Percentage(items),
                              unknown |-> ratio, dimensions |-> dims]
      BY DEF Calculate
    <3> HIDE DEF items, ratio, dims
    <3>3. score.total = Percentage(items) /\ score.unknown = ratio /\ score.dimensions = dims
      BY <3>1, <3>2
    <3>4. QED
      BY <3>3 DEF ratio, dims
  <2>7. Nearest(score.total, 500 * Points(asked), Most(asked))
    BY <2>3, <2>4, <2>5, <2>6
  <2>8. Nearest(score.unknown, 10000 * Most(unknown), Most(asked))
    <3>1. /\ Weight(items) = Most(asked) /\ Most(asked) \in Nat /\ Most(asked) > 0
      BY <2>1, <2>3, <2>4, PartCounts
    <3>2. unknown \in SUBSET asked
      OBVIOUS
    <3>3. Weight({a \in items : a.status = "unknown"}) = Most(unknown) /\ Most(unknown) \in Nat
      BY <2>1, <2>3, <3>2, PartCounts
    <3>4. 10000 * Most(unknown) \in Nat
      BY <3>3
    <3>5. Nearest(Rounded(10000 * Most(unknown), Most(asked)), 10000 * Most(unknown), Most(asked))
      BY <3>1, <3>4, RoundedNearest
    <3>6. QED
      BY <2>6, <3>1, <3>3, <3>5
  <2>9. ASSUME NEW d \in score.dimensions
        PROVE  Part(d.category) # {} /\ Nearest(d.score, 500 * Points(Part(d.category)), Most(Part(d.category)))
    <3>1. PICK a \in items : d.category = a.category /\ d.score = Rate(a.category)
      <4> HIDE DEF items, Rate
      <4>1. QED
        BY <2>6
    <3>2. Part(d.category) # {} /\ Part(d.category) \in SUBSET asked
      BY <2>2, <3>1
    <3>3. {b \in items : b.category = d.category} = {Of(r) : r \in Part(d.category)}
      BY <2>3
    <3> HIDE DEF Part, items
    <3>4. QED
      BY <2>5, <3>1, <3>2, <3>3
  <2>10. {d.category : d \in score.dimensions} = {r.category : r \in asked}
    <3>1. {d.category : d \in score.dimensions} = {a.category : a \in items}
      <4> HIDE DEF items, Rate
      <4>1. \A d \in score.dimensions : \E a \in items : d.category = a.category
        BY <2>6
      <4>2. ASSUME NEW a \in items PROVE \E d \in score.dimensions : d.category = a.category
        <5>1. [category |-> a.category, score |-> Rate(a.category)] \in score.dimensions
          BY <2>6
        <5>2. QED
          BY <5>1
      <4>3. QED
        BY <4>1, <4>2
    <3>2. {a.category : a \in items} = {r.category : r \in asked}
      <4> HIDE DEF items, asked
      <4>1. QED
        BY <2>2
    <3>3. QED
      BY <3>1, <3>2
  <2>11. \A d \in score.dimensions :
           Part(d.category) # {} /\ Nearest(d.score, 500 * Points(Part(d.category)), Most(Part(d.category)))
    BY <2>9
  <2>12. QED
    BY <2>7, <2>8, <2>10, <2>11 DEF Coverage
<1>2. QED
  BY <1>1, InvariantHolds, PTL

LEMMA OneClaim ==
  ASSUME NEW text, NEW c \in Claims(text)
  PROVE  Claims(text) = {c}
  BY DEF Claims

(* validate_report lets through only a report that is honest about the     *)
(* facts: no invented gap, no must requirement passed over, no new number. *)
THEOREM ReportAlwaysHonest == Spec => []ReportHonest
<1>1. IInv => ReportHonest
  <2> SUFFICES ASSUME IInv, stage = "succeeded" PROVE ReportHonest
    BY DEF ReportHonest
  <2>1. ValidJob(job) /\ Judged /\ Fitting(report) /\ KnownProfile
    BY DEF IInv
  <2>2. ASSUME NEW r \in Scorable(job)
        PROVE  /\ Of(r) \in score.assessments /\ Of(r).requirement_id = r.id
               /\ Of(r).importance = r.importance /\ StatusOf(r.id) = Of(r).status
               /\ Of(r).status \in Statuses /\ RestsOnFacts(r, Of(r))
    <3>1. /\ Of(r) \in score.assessments /\ Of(r).requirement_id = r.id
          /\ Of(r).importance = r.importance /\ StatusOf(r.id) = Of(r).status
          /\ Of(r).status \in Statuses
      BY <2>1, JobIsScored
    <3>2. QED
      BY <2>1, <3>1 DEF Judged, Grounded
  <2>3. ASSUME NEW i \in DOMAIN report.gaps, NEW r \in Scorable(job),
               r.id = report.gaps[i].id, report.gaps[i].kind = "explicit_gap"
        PROVE  Denied(r) \/ Short(r)
    <3>1. /\ report.gaps[i].id \in ToImprove
          /\ report.gaps[i].kind = GAP_KIND_BY_STATUS[StatusOf(report.gaps[i].id)]
      BY <2>1 DEF Fitting, GapsFit
    <3>2. PICK a \in score.assessments : a.requirement_id = r.id /\ a.status # "met"
      BY <2>3, <3>1 DEF ToImprove
    <3>3. a = Of(r)
      BY <2>1, <2>2, <3>2 DEF Judged, Reliable
    <3>4. Of(r).status \in {"partial", "unmet", "unknown"}
      BY <2>2, <3>2, <3>3 DEF Statuses
    <3>5. Of(r).status = "unmet"
      BY <2>2, <2>3, <3>1, <3>4 DEF GAP_KIND_BY_STATUS
    <3>6. QED
      BY <2>2, <3>5 DEF RestsOnFacts
  <2>4. ASSUME NEW r \in Scorable(job), r.importance = "must", Denied(r) \/ Short(r) \/ ~Supported(r)
        PROVE  Cardinality({i \in DOMAIN report.gaps : report.gaps[i].id = r.id}) = 1
    <3>1. Of(r).status # "met"
      <4>1. SUFFICES ASSUME Of(r).status = "met" PROVE FALSE
        OBVIOUS
      <4>2. ~Denied(r) /\ Supported(r) /\ (r.op = "min_months" => Cardinality(Worked(r)) \in r.amount .. AsOf)
        BY <2>2, <4>1 DEF RestsOnFacts, Supported
      <4>3. r.op = "min_months" /\ 2 * Cardinality(Worked(r)) < r.amount
        BY <2>4, <4>2 DEF Short
      <4>4. AsOf \in Nat /\ r.amount \in Nat
        BY <2>1, AppraisalAssumption DEF ValidJob, RequirementRecord, Scorable, ToSet
      <4>5. QED
        BY <4>2, <4>3, <4>4
    <3>2. PICK i \in DOMAIN report.gaps : report.gaps[i].id = r.id
      BY <2>1, <2>2, <2>4, <3>1 DEF Fitting, GapsComplete
    <3>3. {j \in DOMAIN report.gaps : report.gaps[j].id = r.id} = {i}
      BY <2>1, <3>2 DEF Fitting, GapsFit
    <3>4. QED
      BY <3>3, FS_Singleton, Zenon
  <2>5. ASSUME NEW s \in report.suggestions, Claims(s.revised) # {}
        PROVE  \E e \in s.evidence : Claims(Says[e]) = Claims(s.revised)
    <3>1. PICK c : c \in Claims(s.revised)
      BY <2>5
    <3>2. PICK e \in s.evidence : c \in Claims(Says[e])
      BY <2>1, <3>1 DEF Fitting, NumbersSupported
    <3>3. Claims(Says[e]) = {c} /\ Claims(s.revised) = {c}
      BY <3>1, <3>2, OneClaim
    <3>4. QED
      BY <3>3
  <2>6. QED
    BY <2>3, <2>4, <2>5 DEF ReportHonest
<1>2. QED
  BY <1>1, InvariantHolds, PTL
=============================================================================

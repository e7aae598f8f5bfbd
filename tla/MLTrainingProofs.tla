---------------------------- MODULE MLTrainingProofs ----------------------------
(* Theorems of MLTraining: whatever the cases, the order of the deal, the     *)
(* scores and the constraints, the thresholds a training saves are of use and *)
(* its parts share no world, no entity and no scenario.                       *)
EXTENDS MLTraining, InductionLemmas

\* Scores are hundredths: a set of them that is not empty has a least member and a
\* greatest one.
LEMMA ScoresBounded ==
  ASSUME NEW S, S \subseteq 0..100, S # {}
  PROVE  /\ Min(S) \in S /\ \A t \in S : Min(S) <= t
         /\ Max(S) \in S /\ \A t \in S : t <= Max(S)
BY MinOfNaturals, MaxOfNaturals, 100 \in Nat, 0..100 \subseteq Nat

\* Examples are numbered.
LEMMA Numbered ==
  ASSUME dataset \in Datasets
  PROVE  Len(dataset) \in Nat /\ Examples = 1..Len(dataset)
BY DatasetsAssumption DEF Examples

\* The exposures of some cases add up to a natural number.
LEMMA ExposureNatural ==
  ASSUME NEW cases \in Datasets, NEW G \in SUBSET DOMAIN cases
  PROVE  IsFiniteSet(DOMAIN cases) /\ Exposure(cases, G) \in Nat
<1> DEFINE exposure == [i \in G |-> cases[i].exposure]
           pick == [T \in SUBSET G |-> CHOOSE x \in T : TRUE]
           iter[T \in SUBSET G] ==
             IF T = {} THEN 0 ELSE cases[CHOOSE x \in T : TRUE].exposure + iter[T \ {CHOOSE x \in T : TRUE}]
<1>1. IsFiniteSet(DOMAIN cases) /\ IsFiniteSet(G)
  <2>1. Len(cases) \in Nat /\ DOMAIN cases = 1..Len(cases)
    BY DatasetsAssumption
  <2>2. IsFiniteSet(DOMAIN cases)
    BY <2>1, FS_Interval
  <2> QED  BY <2>2, FS_Subset
<1>2. \A T \in SUBSET G : T # {} => pick[T] \in T
  OBVIOUS
<1>3. \A T \in SUBSET G : pick[T] = CHOOSE x \in T : TRUE
  OBVIOUS
<1>4. PICK g : IsFold(g, exposure, pick, G)
  <2> HIDE DEF exposure, pick
  <2> QED  BY <1>1, <1>2, FoldExists
<1>5. g = [T \in SUBSET G |-> IF T = {} THEN 0 ELSE cases[CHOOSE x \in T : TRUE].exposure + g[T \ {CHOOSE x \in T : TRUE}]]
  BY <1>2, <1>3, <1>4 DEF IsFold
<1>6. iter = [T \in SUBSET G |-> IF T = {} THEN 0 ELSE cases[CHOOSE x \in T : TRUE].exposure + iter[T \ {CHOOSE x \in T : TRUE}]]
  BY <1>5
<1>7. Exposure(cases, G) = iter[G]
  BY DEF Exposure, MapThenSumSet, MapThenFoldSet
<1> HIDE DEF iter
<1>8. Adds(iter, exposure, G)
  BY <1>2, <1>3, <1>6 DEF Adds
<1>9. \A i \in G : exposure[i] \in Nat
  BY DatasetsAssumption
<1>10. iter[G] \in Nat
  <2> HIDE DEF exposure
  <2> QED  BY <1>1, <1>8, <1>9, SumType, G \in SUBSET G
<1> QED  BY <1>1, <1>7, <1>10

-----------------------------------------------------------------------------
Early == {"idle", "joining", "dealing", "split", "scored"}
Middle == {"scored", "calibrated", "tested", "saved"}

\* A score of every validation example is known once they are scored; the dataset
\* is one of those there may be, and examples are dealt from it.
Known ==
  /\ training = "idle" => dataset = <<>> /\ part = <<>>
  /\ training # "idle" => dataset \in Datasets
  /\ DOMAIN part \subseteq DOMAIN dataset
  /\ training \in Middle => \A i \in In("validation") : i \in DOMAIN probability /\ probability[i] \in 0..100

\* The thresholds calibrate_held_out ends with: each within its constraint, in order.
Sound ==
  /\ thresholds.auto # NoThreshold => thresholds.auto \in 0..100 /\ Within("validation", thresholds.auto, AutoConstraint)
  /\ thresholds.review # NoThreshold => thresholds.review \in 0..100 /\ Within("validation", thresholds.review, ReviewConstraint)
  /\ (/\ AutoConstraint.rate <= ReviewConstraint.rate
      /\ AutoConstraint.exposure <= ReviewConstraint.exposure
      /\ thresholds.auto # NoThreshold) => thresholds.review = thresholds.auto
  /\ ValidThresholds

\* Nothing is calibrated before the validation scores are there, nothing passes
\* before it is saved.
Staged ==
  /\ training \in Early => thresholds = NoThresholds
  /\ training # "saved" => passed = FALSE
  /\ training # "invalid"
  /\ passed => Gate

Calibrated == Known /\ Sound /\ Staged

\* The larger of two factors gives the larger product.
LEMMA TimesMonotone ==
  ASSUME NEW a \in Nat, NEW b \in Nat, NEW n \in Nat, a <= b
  PROVE  a * n <= b * n
OBVIOUS

\* A stricter constraint keeps a looser one.
LEMMA Looser ==
  ASSUME NEW t, Within("validation", t, AutoConstraint), Known, training # "idle",
         AutoConstraint.rate <= ReviewConstraint.rate,
         AutoConstraint.exposure <= ReviewConstraint.exposure
  PROVE  Within("validation", t, ReviewConstraint)
<1> DEFINE chosen == Selected("validation", t)
           wrong == FalsePositives("validation", t)
<1>1. chosen \in SUBSET DOMAIN dataset /\ wrong \in SUBSET DOMAIN dataset
  BY DEF Selected, FalsePositives, In, Known
<1>2. IsFiniteSet(DOMAIN dataset) /\ Exposure(dataset, wrong) \in Nat
  BY <1>1, ExposureNatural DEF Known
<1>3. Cardinality(chosen) \in Nat /\ Cardinality(wrong) \in Nat
  BY <1>1, <1>2, FS_Subset, FS_CardinalityType
<1>4. 100 * Cardinality(wrong) <= AutoConstraint.rate * Cardinality(chosen) /\ Exposure(dataset, wrong) <= AutoConstraint.exposure
  BY DEF Within
<1> HIDE DEF chosen, wrong
<1>5. AutoConstraint.rate \in Nat /\ ReviewConstraint.rate \in Nat
  BY TrainingAssumption
<1>6. AutoConstraint.rate * Cardinality(chosen) <= ReviewConstraint.rate * Cardinality(chosen)
  BY <1>3, <1>5, TimesMonotone
<1>7. AutoConstraint.rate * Cardinality(chosen) \in Int /\ ReviewConstraint.rate * Cardinality(chosen) \in Int
  BY <1>3, TrainingAssumption
<1>8. 100 * Cardinality(wrong) <= ReviewConstraint.rate * Cardinality(chosen)
  BY <1>3, <1>4, <1>6, <1>7
<1>9. Exposure(dataset, wrong) <= ReviewConstraint.exposure
  BY <1>2, <1>4, TrainingAssumption
<1> QED  BY <1>8, <1>9 DEF Within, chosen, wrong

\* What the calibration finds is sound.
LEMMA CalibrationSound ==
  ASSUME Known, Calibrate
  PROVE  Sound'
<1> DEFINE auto == AutoThreshold
           review == ReviewThreshold(auto)
           unresolved == UnresolvedThreshold(review)
           possible == {t \in Feasible(ReviewConstraint) : auto # NoThreshold => t <= auto}
           below == {probability[i] : i \in {j \in In("validation") : review # NoThreshold /\ probability[j] < review}}
<1>1. /\ thresholds' = [auto |-> auto, review |-> review, unresolved |-> unresolved]
      /\ UNCHANGED <<dataset, part, probability>> /\ training = "scored"
  BY DEF Calibrate
<1>2. \A constraint : Feasible(constraint) \subseteq 0..100
  BY <1>1 DEF Feasible, Known, Middle
<1>3. auto # NoThreshold => auto \in Feasible(AutoConstraint)
  BY <1>2, ScoresBounded DEF AutoThreshold
<1>4. review # NoThreshold => review \in possible /\ \A t \in possible : t <= review
  BY <1>2, ScoresBounded, possible \subseteq 0..100 DEF ReviewThreshold
<1>5. review = NoThreshold => possible = {}
  BY <1>2, ScoresBounded, TrainingAssumption, possible \subseteq 0..100, \A t \in 0..100 : t \in Int DEF ReviewThreshold
<1>6. unresolved # NoThreshold => unresolved \in below
  <2>1. below \subseteq 0..100
    BY <1>1 DEF Known, Middle
  <2> QED  BY <2>1, ScoresBounded DEF UnresolvedThreshold
<1>7. unresolved # NoThreshold => review # NoThreshold /\ unresolved < review
  BY <1>6
<1>8. ASSUME AutoConstraint.rate <= ReviewConstraint.rate, AutoConstraint.exposure <= ReviewConstraint.exposure,
             auto # NoThreshold
      PROVE  review = auto
  <2>1. auto \in Feasible(ReviewConstraint)
    BY <1>1, <1>3, <1>8, Looser DEF Feasible
  <2>2. auto \in 0..100 /\ auto \in possible
    BY <1>2, <2>1
  <2>3. review \in 0..100 /\ review \in possible /\ auto <= review
    BY <1>2, <1>4, <1>5, <2>2
  <2> QED  BY <1>8, <2>2, <2>3
<1>9. \A t, constraint : Within("validation", t, constraint)' <=> Within("validation", t, constraint)
  BY <1>1 DEF Within, FalsePositives, Selected, In
<1> HIDE DEF auto, review, unresolved, below
<1>10. auto # NoThreshold => auto \in 0..100 /\ Within("validation", auto, AutoConstraint)
  BY <1>2, <1>3 DEF Feasible
<1>11. review # NoThreshold => review \in 0..100 /\ Within("validation", review, ReviewConstraint)
  BY <1>2, <1>4 DEF Feasible
<1>12. auto # NoThreshold /\ review # NoThreshold => review <= auto
  BY <1>4
<1>13. thresholds'.auto = auto /\ thresholds'.review = review /\ thresholds'.unresolved = unresolved
  BY <1>1
<1>14. ValidThresholds'
  BY <1>7, <1>10, <1>11, <1>12, <1>13 DEF ValidThresholds
<1> QED  BY <1>8, <1>9, <1>10, <1>11, <1>13, <1>14 DEF Sound

-----------------------------------------------------------------------------
\* Scoring examples of another part leaves what the validation examples said.
LEMMA ValidationKept ==
  ASSUME Known, ScoreTest
  PROVE  /\ \A i \in In("validation") : i \in DOMAIN probability' /\ probability'[i] = probability[i]
         /\ In("validation")' = In("validation")
         /\ \A t, constraint : Within("validation", t, constraint)' <=> Within("validation", t, constraint)
<1>1. training = "calibrated" /\ UNCHANGED <<dataset, part, thresholds>>
  BY DEF ScoreTest
<1>2. PICK f : probability' = Scored(In("test"), f)
  BY DEF ScoreTest
<1>3. \A i \in In("validation") : i \in DOMAIN probability /\ i \notin In("test")
  BY <1>1 DEF Known, Middle, In
<1>4. \A i \in In("validation") : i \in DOMAIN probability' /\ probability'[i] = probability[i]
  BY <1>2, <1>3 DEF Scored
<1>5. In("validation")' = In("validation")
  BY <1>1 DEF In
<1>6. \A t : Selected("validation", t)' = Selected("validation", t)
  BY <1>4, <1>5 DEF Selected
<1>7. \A t : FalsePositives("validation", t)' = FalsePositives("validation", t)
  BY <1>1, <1>6 DEF FalsePositives
<1> QED  BY <1>1, <1>4, <1>5, <1>6, <1>7 DEF Within

LEMMA KnownAtFirst == TrainInit => Known
BY DEF TrainInit, Known, Middle

\* Every step keeps what is known of the scores.
LEMMA KnownKept == Known /\ [TrainNext]_trainVars => Known'
<1> SUFFICES ASSUME Known, [TrainNext]_trainVars PROVE Known'
  OBVIOUS
<1>1. CASE LoadExamples
  BY <1>1 DEF LoadExamples, Known, Middle
<1>2. CASE JoinExample
  BY <1>2 DEF JoinExample, Known, Middle
<1>3. CASE StartDealing
  BY <1>3 DEF StartDealing, Known, Middle
<1>4. CASE DealComponent
  <2>1. PICK group \in Components : \E p : part' = [i \in (DOMAIN part) \cup group |-> IF i \in group THEN p ELSE part[i]]
    BY <1>4 DEF DealComponent
  <2>2. DOMAIN part' = (DOMAIN part) \cup group /\ group \subseteq DOMAIN dataset
    BY <2>1 DEF Components, Examples
  <2> QED  BY <1>4, <2>2 DEF DealComponent, Known, Middle
<1>5. CASE TrainBaselines
  BY <1>5 DEF TrainBaselines, Known, Middle
<1>6. CASE ScoreValidation
  <2>1. PICK f \in [In("validation") -> Probabilities] : probability' = Scored(In("validation"), f)
    BY <1>6 DEF ScoreValidation
  <2>2. \A i \in In("validation") : i \in DOMAIN probability' /\ probability'[i] \in 0..100
    BY <2>1, TrainingAssumption DEF Scored
  <2>3. In("validation")' = In("validation")
    BY <1>6 DEF ScoreValidation, In
  <2> QED  BY <1>6, <2>2, <2>3 DEF ScoreValidation, Known
<1>7. CASE Calibrate
  BY <1>7 DEF Calibrate, Known, Middle, In
<1>8. CASE ScoreTest
  BY <1>8, ValidationKept DEF ScoreTest, Known, Middle
<1>9. CASE Save
  BY <1>9 DEF Save, SaveArtifact, Known, Middle, In
<1>10. CASE UNCHANGED trainVars
  BY <1>10 DEF trainVars, Known, Middle, In
<1> QED
  BY <1>1, <1>2, <1>3, <1>4, <1>5, <1>6, <1>7, <1>8, <1>9, <1>10 DEF TrainNext

\* Without thresholds there is nothing to keep.
LEMMA NothingIsSound == thresholds = NoThresholds => Sound
BY DEF NoThresholds, Sound, ValidThresholds

\* No step leaves thresholds that are unsound.
LEMMA SoundKept == Calibrated /\ [TrainNext]_trainVars => Sound'
<1> SUFFICES ASSUME Calibrated, [TrainNext]_trainVars PROVE Sound'
  OBVIOUS
<1>1. CASE LoadExamples \/ JoinExample \/ StartDealing \/ DealComponent \/ TrainBaselines \/ ScoreValidation
  <2>1. training \in Early /\ thresholds' = thresholds
    BY <1>1 DEF LoadExamples, JoinExample, StartDealing, DealComponent, TrainBaselines, ScoreValidation, Early
  <2>2. thresholds' = NoThresholds
    BY <2>1 DEF Calibrated, Staged
  <2> QED  BY <2>2 DEF NoThresholds, Sound, ValidThresholds
<1>2. CASE Calibrate
  BY <1>2, CalibrationSound DEF Calibrated
<1>3. CASE ScoreTest
  <2>1. UNCHANGED thresholds
    BY <1>3 DEF ScoreTest
  <2>2. \A t, constraint : Within("validation", t, constraint)' <=> Within("validation", t, constraint)
    BY <1>3, ValidationKept DEF Calibrated
  <2> QED  BY <2>1, <2>2 DEF Calibrated, Sound, ValidThresholds
<1>4. CASE Save \/ UNCHANGED trainVars
  <2>1. UNCHANGED <<dataset, part, probability, thresholds>>
    BY <1>4 DEF Save, trainVars
  <2>2. \A t, constraint : Within("validation", t, constraint)' <=> Within("validation", t, constraint)
    BY <2>1 DEF Within, FalsePositives, Selected, In
  <2> QED  BY <2>1, <2>2 DEF Calibrated, Sound, ValidThresholds
<1> QED
  BY <1>1, <1>2, <1>3, <1>4 DEF TrainNext

\* Thresholds come with the calibration, the gate's verdict with the artifact.
LEMMA StagedKept == Calibrated /\ [TrainNext]_trainVars => Staged'
<1> SUFFICES ASSUME Calibrated, [TrainNext]_trainVars PROVE Staged'
  OBVIOUS
<1>1. CASE LoadExamples \/ JoinExample \/ StartDealing \/ DealComponent \/ TrainBaselines \/ ScoreValidation
  <2>1. training \in Early /\ thresholds' = thresholds /\ passed' = passed
    BY <1>1 DEF LoadExamples, JoinExample, StartDealing, DealComponent, TrainBaselines, ScoreValidation, Early
  <2>2. training' \notin {"saved", "invalid"}
    BY <1>1 DEF LoadExamples, JoinExample, StartDealing, DealComponent, TrainBaselines, ScoreValidation
  <2> QED  BY <2>1, <2>2 DEF Calibrated, Staged, Early
<1>2. CASE Calibrate
  BY <1>2 DEF Calibrate, Calibrated, Staged, Early
<1>3. CASE ScoreTest
  BY <1>3 DEF ScoreTest, Calibrated, Staged, Early
<1>4. CASE Save
  <2>1. training = "tested" /\ passed = FALSE /\ ValidThresholds
    BY <1>4 DEF Save, Calibrated, Staged, Sound
  <2>2. \/ training' = "refused" /\ passed' = FALSE
        \/ training' = "saved" /\ passed' = Gate
    BY <1>4, <2>1 DEF Save, SaveArtifact
  <2>3. UNCHANGED <<dataset, part, probability, thresholds>>
    BY <1>4 DEF Save
  <2>4. Gate' <=> Gate
    BY <2>3 DEF Gate, Passes, Within, FalsePositives, Selected, In
  <2> QED  BY <2>2, <2>4 DEF Staged, Early
<1>5. CASE UNCHANGED trainVars
  <2>1. Gate' <=> Gate
    BY <1>5 DEF trainVars, Gate, Passes, Within, FalsePositives, Selected, In
  <2> QED  BY <1>5, <2>1 DEF trainVars, Calibrated, Staged
<1> QED
  BY <1>1, <1>2, <1>3, <1>4, <1>5 DEF TrainNext

\* Sound thresholds are of use.
LEMMA CalibratedUsable == Calibrated => ThresholdsUsable
<1> SUFFICES ASSUME Calibrated PROVE ThresholdsUsable
  OBVIOUS
<1>1. passed => FalsePositives("test", thresholds.auto) = {} /\ thresholds.review # NoThreshold
  <2>1. CASE thresholds.auto = NoThreshold
    BY <2>1 DEF Calibrated, Staged, Gate, FalsePositives, Selected
  <2>2. CASE thresholds.auto # NoThreshold
    BY <2>2 DEF Calibrated, Staged, Gate, Passes
  <2> QED  BY <2>1, <2>2
<1> QED  BY <1>1 DEF Calibrated, Sound, Staged, ThresholdsUsable

\* Training never ends with thresholds its artifact refuses; each threshold keeps
\* its constraint on the validation examples; with an automatic constraint that is
\* the stricter, the review tier does not fall below the automatic one; a gate that
\* is passed had no false positive among the test examples.
THEOREM ThresholdsKept == TrainSpec => []ThresholdsUsable
<1>1. TrainInit => Calibrated
  <2>1. TrainInit => Sound
    BY NothingIsSound DEF TrainInit
  <2>2. TrainInit => Known /\ Staged
    BY KnownAtFirst DEF TrainInit, Staged, Early
  <2> QED  BY <2>1, <2>2 DEF Calibrated
<1>2. Calibrated /\ [TrainNext]_trainVars => Calibrated'
  BY KnownKept, SoundKept, StagedKept DEF Calibrated
<1> QED
  BY <1>1, <1>2, CalibratedUsable, PTL DEF TrainSpec

-----------------------------------------------------------------------------
\* The examples that have been joined to another.
NotRoots(up) == {i \in Examples : up[i] # i}

\* R names the root of every example, h how many steps it is above it.
Forest(up, R, h) ==
  /\ up \in [Examples -> Examples] /\ R \in [Examples -> Examples] /\ h \in [Examples -> Nat]
  /\ \A i \in Examples :
       /\ up[R[i]] = R[i] /\ R[up[i]] = R[i] /\ (up[i] = i => R[i] = i)
       /\ h[i] = 0 => up[i] = i
       /\ h[i] # 0 => h[up[i]] = h[i] - 1
       /\ h[i] <= Cardinality(NotRoots(up))

LEMMA FewSteps ==
  ASSUME dataset \in Datasets, NEW up
  PROVE  IsFiniteSet(NotRoots(up)) /\ Cardinality(NotRoots(up)) \in Nat /\ Cardinality(NotRoots(up)) <= Len(dataset)
<1>1. IsFiniteSet(Examples) /\ Cardinality(Examples) = Len(dataset)
  BY Numbered, FS_Interval
<1>2. NotRoots(up) \in SUBSET Examples
  BY DEF NotRoots
<1> QED  BY <1>1, <1>2, FS_Subset, FS_CardinalityType

\* As many steps as there are examples lead to the root.
LEMMA RootIs ==
  ASSUME dataset \in Datasets, NEW up, NEW R, NEW h, Forest(up, R, h), NEW i \in Examples
  PROVE  Root(up, i) = R[i]
<1> DEFINE climb[k \in 0..Len(dataset)] == IF k = 0 THEN i ELSE up[climb[k - 1]]
           Left(k) == IF h[i] >= k THEN h[i] - k ELSE 0
           OnTheWay(k) == climb[k] \in Examples /\ R[climb[k]] = R[i] /\ h[climb[k]] = Left(k)
           Reached == {k \in Nat : k <= Len(dataset) => OnTheWay(k)}
<1>1. Len(dataset) \in Nat /\ h[i] <= Len(dataset) /\ h[i] \in Nat
  BY Numbered, FewSteps DEF Forest
<1>2. climb = [k \in 0..Len(dataset) |-> IF k = 0 THEN i ELSE up[climb[k - 1]]]
  BY <1>1, ClimbExists
<1>3. Root(up, i) = climb[Len(dataset)]
  BY DEF Root
<1> HIDE DEF climb
<1>4. 0 \in Reached
  BY <1>1, <1>2
<1>5. ASSUME NEW k \in Nat, k \in Reached PROVE k + 1 \in Reached
  <2> SUFFICES ASSUME k + 1 <= Len(dataset) PROVE OnTheWay(k + 1)
    OBVIOUS
  <2>1. OnTheWay(k) /\ climb[k + 1] = up[climb[k]]
    <3>1. k \in 0..Len(dataset) /\ k + 1 \in 0..Len(dataset) /\ (k + 1) - 1 = k /\ k + 1 # 0
      BY <1>1
    <3> QED  BY <1>2, <1>5, <3>1
  <2>2. CASE h[climb[k]] = 0
    BY <1>1, <2>1, <2>2 DEF Forest
  <2>3. CASE h[climb[k]] # 0
    BY <1>1, <2>1, <2>3 DEF Forest
  <2> QED  BY <2>2, <2>3
<1>6. OnTheWay(Len(dataset))
  <2>1. Len(dataset) \in Reached
    <3> HIDE DEF Reached
    <3> QED  BY <1>1, <1>4, <1>5, Counting
  <2> QED  BY <1>1, <2>1
<1>7. h[climb[Len(dataset)]] = 0
  BY <1>1, <1>6
<1> QED  BY <1>3, <1>6, <1>7 DEF Forest

LEMMA UnionJoins ==
  ASSUME dataset \in Datasets, NEW up, NEW R, NEW h, Forest(up, R, h),
         NEW left \in Examples, NEW right \in Examples,
         NEW joint, joint = Union(up, left, right)
  PROVE  /\ \E R2, h2 : Forest(joint, R2, h2)
         /\ Root(joint, left) = Root(joint, right)
         /\ \A j, k \in Examples : Root(up, j) = Root(up, k) => Root(joint, j) = Root(joint, k)
<1>1. \A i \in Examples : Root(up, i) = R[i]
  BY RootIs
<1>2. CASE R[left] = R[right]
  <2>1. joint = up
    BY <1>1, <1>2 DEF Union
  <2> QED  BY <1>1, <1>2, <2>1
<1>3. CASE R[left] # R[right]
  <2> DEFINE l == R[left]
             r == R[right]
             R2 == [i \in Examples |-> IF R[i] = r THEN l ELSE R[i]]
             h2 == [i \in Examples |-> IF R[i] = r THEN h[i] + 1 ELSE h[i]]
  <2>1. joint = [up EXCEPT ![r] = l]
    BY <1>1, <1>3 DEF Union
  <2>2. l \in Examples /\ r \in Examples /\ up[l] = l /\ up[r] = r /\ R[l] = l /\ R[r] = r /\ l # r
    BY <1>3 DEF Forest
  <2>3. joint \in [Examples -> Examples] /\ joint[r] = l /\ \A i \in Examples \ {r} : joint[i] = up[i]
    BY <2>1, <2>2 DEF Forest
  <2>4. h[l] = 0 /\ h[r] = 0
    BY <2>2 DEF Forest
  <2>5. Cardinality(NotRoots(joint)) = Cardinality(NotRoots(up)) + 1
    <3>1. NotRoots(joint) = NotRoots(up) \cup {r} /\ r \notin NotRoots(up)
      BY <2>2, <2>3 DEF NotRoots
    <3> QED  BY <3>1, FewSteps, FS_AddElement
  <2> HIDE DEF l, r
  <2>6. ASSUME NEW i \in Examples
        PROVE  /\ joint[R2[i]] = R2[i] /\ R2[joint[i]] = R2[i] /\ (joint[i] = i => R2[i] = i)
    <3>1. CASE i = r
      BY <2>2, <2>3, <3>1 DEF Forest
    <3>2. CASE i # r
      BY <2>2, <2>3, <3>2 DEF Forest
    <3> QED  BY <3>1, <3>2
  <2>7. ASSUME NEW i \in Examples
        PROVE  /\ h2[i] = 0 => joint[i] = i
               /\ h2[i] # 0 => h2[joint[i]] = h2[i] - 1
               /\ h2[i] <= Cardinality(NotRoots(joint))
    <3>0. h[i] \in Nat /\ up[i] \in Examples /\ h[up[i]] \in Nat /\ Cardinality(NotRoots(up)) \in Nat
      BY FewSteps DEF Forest
    <3>1. CASE i = r
      BY <2>2, <2>3, <2>4, <2>5, <3>0, <3>1
    <3>2. CASE i # r /\ R[i] = r
      <4>1. up[i] # i /\ R[up[i]] = r
        BY <3>2 DEF Forest
      <4>2. h[i] # 0 /\ h[up[i]] = h[i] - 1 /\ h[i] <= Cardinality(NotRoots(up))
        BY <4>1 DEF Forest
      <4> QED  BY <2>3, <2>5, <3>0, <3>2, <4>1, <4>2
    <3>3. CASE R[i] # r
      <4>1. i # r /\ R[up[i]] # r
        BY <2>2, <3>3 DEF Forest
      <4> QED  BY <2>3, <2>5, <3>0, <3>3, <4>1 DEF Forest
    <3> QED  BY <3>1, <3>2, <3>3
  <2>8. R2 \in [Examples -> Examples] /\ h2 \in [Examples -> Nat]
    BY <2>2 DEF Forest
  <2>9. Forest(joint, R2, h2)
    <3> HIDE DEF R2, h2
    <3> QED  BY <2>3, <2>6, <2>7, <2>8 DEF Forest
  <2>10. \A i \in Examples : Root(joint, i) = R2[i]
    <3> HIDE DEF R2, h2
    <3> QED  BY <2>9, RootIs
  <2>11. R2[left] = l /\ R2[right] = l
    BY <1>3, <2>2 DEF l, r
  <2> QED  BY <1>1, <2>9, <2>10, <2>11
<1> QED  BY <1>2, <1>3

\* The owner of an identity is one for all the examples that share it.
LEMMA OneOwner ==
  ASSUME dataset \in Datasets, NEW i \in Examples, NEW j \in Examples, NEW identity \in Identities
  PROVE  /\ Owner(i, identity) \in Examples /\ Owner(i, identity) <= i
         /\ IdentityOf(i, identity) = IdentityOf(j, identity) => Owner(i, identity) = Owner(j, identity)
<1> DEFINE Sharing(k) == {m \in 1..k : IdentityOf(m, identity) = IdentityOf(k, identity)}
<1>1. ASSUME NEW k \in Examples
      PROVE  /\ Owner(k, identity) \in Sharing(k) /\ Owner(k, identity) \in Examples
             /\ \A m \in Sharing(k) : Owner(k, identity) <= m
  <2>1. k \in Sharing(k) /\ Sharing(k) \subseteq Examples /\ Sharing(k) \subseteq Nat
    BY Numbered
  <2>2. Min(Sharing(k)) \in Sharing(k) /\ \A m \in Sharing(k) : Min(Sharing(k)) <= m
    <3> HIDE DEF Sharing
    <3> QED  BY <2>1, MinOfNaturals
  <2>3. Owner(k, identity) = Min(Sharing(k))
    BY DEF Owner
  <2> HIDE DEF Sharing
  <2> QED  BY <2>1, <2>2, <2>3
<1>2. ASSUME IdentityOf(i, identity) = IdentityOf(j, identity)
      PROVE  Owner(i, identity) = Owner(j, identity)
  <2>1. i \in Nat /\ j \in Nat /\ Owner(i, identity) \in 1..i /\ Owner(j, identity) \in 1..j
    BY <1>1, Numbered
  <2>2. Owner(i, identity) <= i /\ Owner(j, identity) <= j /\ i <= i /\ j <= j
    BY <2>1
  <2>3. Owner(i, identity) \in Sharing(j) \/ Owner(i, identity) > j
    BY <1>1, <1>2, <2>1
  <2>4. Owner(j, identity) \in Sharing(i) \/ Owner(j, identity) > i
    BY <1>1, <1>2, <2>1
  <2>5. i <= j => i \in Sharing(j)
    BY <1>2, <2>1, Numbered
  <2>6. j <= i => j \in Sharing(i)
    BY <1>2, <2>1, Numbered
  <2> HIDE DEF Sharing
  <2>7. i <= j \/ j <= i
    BY <2>1
  <2> QED  BY <1>1, <2>1, <2>2, <2>3, <2>4, <2>5, <2>6, <2>7
<1> QED  BY <1>1, <1>2

-----------------------------------------------------------------------------
Joined(i) == \A identity \in Identities : Root(parent, i) = Root(parent, Owner(i, identity))

\* Every example so far has been joined to the owners of its identities, and what
\* has been dealt are whole components of all the examples.
Grouping ==
  /\ training = "idle" => dataset = <<>> /\ joined = 0
  /\ training # "idle" => dataset \in Datasets /\ \E R, h : Forest(parent, R, h)
  /\ joined \in 0..Len(dataset) /\ \A i \in 1..joined : Joined(i)
  /\ training \in {"idle", "joining"} => dealt = {}
  /\ training = "dealing" \/ dealt # {} => joined = Len(dataset)
  /\ dealt \subseteq Components /\ DOMAIN part = UNION dealt
  /\ \A group \in dealt : \A i, j \in group : part[i] = part[j]

\* Examples that share an identity share an owner, so a root, so a component, so
\* a part.
LEMMA GroupingSplits == Grouping => SplitLeakFree
<1> SUFFICES ASSUME Grouping, NEW i \in DOMAIN part, NEW j \in DOMAIN part, NEW identity \in Identities,
                    IdentityOf(i, identity) = IdentityOf(j, identity)
             PROVE  part[i] = part[j]
  BY DEF SplitLeakFree
<1>1. PICK group \in dealt : i \in group
  BY DEF Grouping
<1>2. dealt # {} /\ joined = Len(dataset)
  BY <1>1 DEF Grouping
<1>3. \A g \in dealt : g \subseteq Examples
  BY DEF Grouping, Components
<1>4. i \in Examples /\ j \in Examples
  BY <1>3 DEF Grouping
<1>5. dataset \in Datasets
  <2>1. CASE training = "idle"
    BY <1>2, <2>1 DEF Grouping
  <2> QED  BY <2>1 DEF Grouping
<1>6. Joined(i) /\ Joined(j)
  BY <1>2, <1>4, <1>5, Numbered DEF Grouping
<1>7. Root(parent, i) = Root(parent, j)
  <2>1. Owner(i, identity) = Owner(j, identity)
    BY <1>4, <1>5, OneOwner
  <2> QED  BY <1>6, <2>1 DEF Joined
<1>8. j \in group
  BY <1>1, <1>4, <1>7 DEF Grouping, Components
<1> QED  BY <1>1, <1>8 DEF Grouping

\* The next example and the owners of its identities get one root.
LEMMA JoinGroups == ASSUME Grouping, JoinExample PROVE Grouping'
<1> DEFINE i == joined + 1
           one == Union(parent, i, Owner(i, "seed"))
           two == Union(one, i, Owner(i, "entity"))
<1>1. /\ training = "joining" /\ joined' = i /\ UNCHANGED <<dataset, training, dealt, part>>
      /\ parent' = Union(two, i, Owner(i, "scenario")) /\ dataset \in Datasets /\ joined < Len(dataset)
  BY DEF JoinExample, Grouping
<1>2. i \in Examples /\ i \in Nat /\ joined \in Nat /\ Len(dataset) \in Nat
  BY <1>1, Numbered DEF Grouping
<1>3. \A identity \in Identities, k \in Examples : Owner(k, identity) \in Examples
  BY <1>1, OneOwner
<1>4. Owner(i, "seed") \in Examples /\ Owner(i, "entity") \in Examples /\ Owner(i, "scenario") \in Examples
  BY <1>2, <1>3 DEF Identities
<1>5. PICK R0, h0 : Forest(parent, R0, h0)
  BY <1>1 DEF Grouping
<1>6. /\ \E R, h : Forest(one, R, h)
      /\ Root(one, i) = Root(one, Owner(i, "seed"))
      /\ \A j, k \in Examples : Root(parent, j) = Root(parent, k) => Root(one, j) = Root(one, k)
  BY <1>1, <1>2, <1>4, <1>5, UnionJoins
<1> HIDE DEF one
<1>7. PICK R1, h1 : Forest(one, R1, h1)
  BY <1>6
<1>8. /\ \E R, h : Forest(two, R, h)
      /\ Root(two, i) = Root(two, Owner(i, "entity"))
      /\ \A j, k \in Examples : Root(one, j) = Root(one, k) => Root(two, j) = Root(two, k)
  BY <1>1, <1>2, <1>4, <1>7, UnionJoins
<1> HIDE DEF two
<1>9. PICK R2, h2 : Forest(two, R2, h2)
  BY <1>8
<1>10. /\ \E R, h : Forest(parent', R, h)
       /\ Root(parent', i) = Root(parent', Owner(i, "scenario"))
       /\ \A j, k \in Examples : Root(two, j) = Root(two, k) => Root(parent', j) = Root(parent', k)
  BY <1>1, <1>2, <1>4, <1>9, UnionJoins
<1>11. \A k : Joined(k)' <=> \A identity \in Identities : Root(parent', k) = Root(parent', Owner(k, identity))
  BY <1>1 DEF Joined, Root, Owner, IdentityOf, Identities
<1>12. ASSUME NEW R, NEW h, Forest(parent', R, h) PROVE Forest(parent, R, h)'
  BY <1>1, <1>12 DEF Forest, NotRoots, Examples
<1>13. ASSUME NEW k \in 1..joined' PROVE Joined(k)'
  <2>1. CASE k \in 1..joined
    <3>1. Joined(k) /\ k \in Examples
      BY <1>1, <1>2, <2>1, Numbered DEF Grouping
    <3>2. ASSUME NEW identity \in Identities PROVE Root(parent', k) = Root(parent', Owner(k, identity))
      <4>1. Root(parent, k) = Root(parent, Owner(k, identity)) /\ Owner(k, identity) \in Examples
        BY <1>3, <3>1 DEF Joined
      <4> QED  BY <1>6, <1>8, <1>10, <3>1, <4>1
    <3> QED  BY <1>11, <3>2
  <2>2. CASE k = i
    <3>1. Root(parent', i) = Root(parent', Owner(i, "seed"))
      BY <1>2, <1>4, <1>6, <1>8, <1>10
    <3>2. Root(parent', i) = Root(parent', Owner(i, "entity"))
      BY <1>2, <1>4, <1>8, <1>10
    <3> QED  BY <1>10, <1>11, <2>2, <3>1, <3>2 DEF Identities
  <2> QED  BY <1>1, <1>2, <2>1, <2>2
<1>14. dealt' = {} /\ dealt = {} /\ DOMAIN part' = UNION dealt'
  BY <1>1 DEF Grouping
<1>15. \E R, h : Forest(parent, R, h)'
  BY <1>10, <1>12
<1> QED  BY <1>1, <1>2, <1>13, <1>14, <1>15 DEF Grouping

\* Components are disjoint: what is dealt next is not in any part.
LEMMA DealGroups == ASSUME Grouping, DealComponent PROVE Grouping'
<1>1. PICK group \in Components \ dealt :
        /\ \E p : part' = [i \in (DOMAIN part) \cup group |-> IF i \in group THEN p ELSE part[i]]
        /\ dealt' = dealt \cup {group}
  BY DEF DealComponent
<1>2. PICK p : part' = [i \in (DOMAIN part) \cup group |-> IF i \in group THEN p ELSE part[i]]
  BY <1>1
<1>3. training = "dealing" /\ UNCHANGED <<dataset, training, parent, joined>>
  BY DEF DealComponent
<1>4. ASSUME NEW g \in dealt PROVE g \cap group = {}
  <2>1. PICK i \in Examples : g = {j \in Examples : Root(parent, j) = Root(parent, i)}
    BY DEF Grouping, Components
  <2>2. PICK k \in Examples : group = {j \in Examples : Root(parent, j) = Root(parent, k)}
    BY <1>1 DEF Components
  <2>3. g # group
    BY <1>1
  <2>4. Root(parent, i) # Root(parent, k)
    BY <2>1, <2>2, <2>3
  <2> QED  BY <2>1, <2>2, <2>4
<1>5. DOMAIN part' = UNION dealt'
  BY <1>1, <1>2 DEF Grouping
<1>6. ASSUME NEW g \in dealt', NEW i \in g, NEW j \in g PROVE part'[i] = part'[j]
  <2>1. i \in DOMAIN part' /\ j \in DOMAIN part'
    BY <1>5
  <2>2. CASE g = group
    BY <1>2, <2>1, <2>2
  <2>3. CASE g \in dealt
    <3>1. i \notin group /\ j \notin group /\ part[i] = part[j]
      BY <1>4, <2>3 DEF Grouping
    <3> QED  BY <1>2, <2>1, <3>1
  <2> QED  BY <1>1, <2>2, <2>3
<1>7. Components' = Components /\ (\A i : Joined(i)' <=> Joined(i))
  BY <1>3 DEF Components, Joined, Root, Owner, IdentityOf, Examples, Identities
<1>8. \A R, h : Forest(parent, R, h)' <=> Forest(parent, R, h)
  BY <1>3 DEF Forest, NotRoots, Examples
<1> QED  BY <1>1, <1>3, <1>5, <1>6, <1>7, <1>8 DEF Grouping

\* When the cases are loaded each example is its own root.
LEMMA LoadGroups == ASSUME Grouping, LoadExamples PROVE Grouping'
<1>1. /\ dataset' \in Datasets /\ parent' = [i \in DOMAIN dataset' |-> i]
      /\ training = "idle" /\ training' \in {"joining", "refused"}
      /\ UNCHANGED <<joined, dealt, part>>
  BY DEF LoadExamples
<1>2. joined' = 0 /\ dealt' = {} /\ DOMAIN part' = UNION dealt'
  BY <1>1 DEF Grouping
<1>3. Forest(parent, [i \in Examples |-> i], [i \in Examples |-> 0])'
  <2>1. NotRoots(parent)' = {}
    BY <1>1 DEF NotRoots, Examples
  <2>2. Cardinality(NotRoots(parent)') = 0
    BY <2>1, FS_EmptySet
  <2> QED  BY <1>1, <2>1, <2>2 DEF Forest, Examples
<1>4. Len(dataset)' \in Nat
  BY <1>1, DatasetsAssumption
<1>5. \E R, h : Forest(parent, R, h)'
  BY <1>3
<1>6. joined' \in 0..Len(dataset)' /\ \A i \in 1..joined' : Joined(i)'
  BY <1>2, <1>4
<1> QED  BY <1>1, <1>2, <1>5, <1>6 DEF Grouping

LEMMA GroupingAtFirst == TrainInit => Grouping
BY DEF TrainInit, Grouping

\* Every step keeps what is joined together, and what is dealt in one part.
LEMMA GroupingInductive == Grouping /\ [TrainNext]_trainVars => Grouping'
<1> SUFFICES ASSUME Grouping, [TrainNext]_trainVars PROVE Grouping'
  OBVIOUS
<1>1. CASE LoadExamples
  BY <1>1, LoadGroups
<1>2. CASE JoinExample
  BY <1>2, JoinGroups
<1>3. CASE DealComponent
  BY <1>3, DealGroups
<1>4. CASE StartDealing \/ TrainBaselines \/ ScoreValidation \/ Calibrate \/ ScoreTest \/ Save \/ UNCHANGED trainVars
  <2>1. UNCHANGED <<dataset, parent, joined, dealt, part>>
    BY <1>4 DEF StartDealing, TrainBaselines, ScoreValidation, Calibrate, ScoreTest, Save, trainVars
  <2>2. /\ training' = "idle" <=> training = "idle"
        /\ training' = "joining" => training = "joining"
        /\ training' = "dealing" => training = "dealing" \/ joined = Len(dataset)
    BY <1>4 DEF StartDealing, TrainBaselines, ScoreValidation, Calibrate, ScoreTest, Save, SaveArtifact, trainVars
  <2>3. Components' = Components /\ (\A i : Joined(i)' <=> Joined(i))
    BY <2>1 DEF Components, Joined, Root, Owner, IdentityOf, Examples, Identities
  <2>4. \A R, h : Forest(parent, R, h)' <=> Forest(parent, R, h)
    BY <2>1 DEF Forest, NotRoots, Examples
  <2> QED  BY <2>1, <2>2, <2>3, <2>4 DEF Grouping
<1> QED  BY <1>1, <1>2, <1>3, <1>4 DEF TrainNext

\* _validate_no_group_overlap of services/ml/training.py has nothing to find:
\* whatever the cases share and in whatever order they are dealt, no two examples
\* of one world, entity or scenario are in different parts.
THEOREM PartsShareNothing == TrainSpec => []SplitLeakFree
BY GroupingAtFirst, GroupingInductive, GroupingSplits, PTL DEF TrainSpec

-----------------------------------------------------------------------------
(* Type correctness.                                                          *)

\* The thresholds are scores the model gave, the parts are of the three.
TrainTyped ==
  /\ training \in {"idle", "joining", "dealing", "split", "scored", "calibrated", "tested", "saved", "refused", "invalid"}
  /\ training = "idle" => parent = <<>>
  /\ \A i \in DOMAIN part : part[i] \in {"train", "validation", "test"}
  /\ training = "scored" => \A i \in In("validation") : probability[i] \in Probabilities
  /\ \A tier \in DOMAIN thresholds : thresholds[tier] \in Probabilities \cup {NoThreshold}
  /\ passed \in BOOLEAN

LEMMA TrainTypedAtFirst == TrainInit => TrainTyped
<1> SUFFICES ASSUME TrainInit PROVE TrainTyped
  OBVIOUS
<1>1. /\ training = "idle" /\ parent = <<>> /\ passed = FALSE
      /\ thresholds = [auto |-> NoThreshold, review |-> NoThreshold, unresolved |-> NoThreshold]
  BY DEF TrainInit, NoThresholds
<1>2. DOMAIN part = {}
  BY DEF TrainInit
<1>3. \A tier \in DOMAIN thresholds : thresholds[tier] = NoThreshold
  BY <1>1
<1> QED  BY <1>1, <1>2, <1>3 DEF TrainTyped

\* A threshold is the score of a validation example.
LEMMA ThresholdsTyped ==
  ASSUME Known, TrainTyped, Calibrate
  PROVE  \A tier \in DOMAIN thresholds' : thresholds'[tier] \in Probabilities \cup {NoThreshold}
<1> DEFINE auto == AutoThreshold
           review == ReviewThreshold(auto)
           unresolved == UnresolvedThreshold(review)
           possible == {t \in Feasible(ReviewConstraint) : auto # NoThreshold => t <= auto}
           below == {probability[i] : i \in {j \in In("validation") : review # NoThreshold /\ probability[j] < review}}
<1>1. /\ thresholds' = [auto |-> auto, review |-> review, unresolved |-> unresolved]
      /\ training = "scored" /\ Probabilities \subseteq 0..100
  BY TrainingAssumption DEF Calibrate
<1>2. \A constraint : Feasible(constraint) \subseteq Probabilities
  BY <1>1 DEF Feasible, TrainTyped
<1>3. possible \subseteq Probabilities /\ below \subseteq Probabilities
  BY <1>1, <1>2 DEF TrainTyped
<1>4. auto \in Probabilities \cup {NoThreshold}
  BY <1>1, <1>2, ScoresBounded DEF AutoThreshold
<1>5. review \in Probabilities \cup {NoThreshold}
  BY <1>1, <1>3, ScoresBounded DEF ReviewThreshold
<1>6. unresolved \in Probabilities \cup {NoThreshold}
  BY <1>1, <1>3, ScoresBounded DEF UnresolvedThreshold
<1> HIDE DEF auto, review, unresolved
<1> QED  BY <1>1, <1>4, <1>5, <1>6

LEMMA TrainTypedInductive == Known /\ TrainTyped /\ [TrainNext]_trainVars => TrainTyped'
<1> SUFFICES ASSUME Known, TrainTyped, [TrainNext]_trainVars PROVE TrainTyped'
  OBVIOUS
<1>1. CASE LoadExamples
  BY <1>1 DEF LoadExamples, TrainTyped
<1>2. CASE JoinExample
  BY <1>2 DEF JoinExample, TrainTyped
<1>3. CASE StartDealing \/ TrainBaselines
  BY <1>3 DEF StartDealing, TrainBaselines, TrainTyped
<1>4. CASE DealComponent
  <2>1. PICK group \in Components \ dealt, p \in {"train", "validation", "test"} :
          part' = [i \in (DOMAIN part) \cup group |-> IF i \in group THEN p ELSE part[i]]
    BY <1>4 DEF DealComponent
  <2>2. \A i \in DOMAIN part' : part'[i] \in {"train", "validation", "test"}
    BY <2>1 DEF TrainTyped
  <2> QED  BY <1>4, <2>2 DEF DealComponent, TrainTyped
<1>5. CASE ScoreValidation
  <2>1. PICK f \in [In("validation") -> Probabilities] : probability' = Scored(In("validation"), f)
    BY <1>5 DEF ScoreValidation
  <2>2. In("validation")' = In("validation")
    BY <1>5 DEF ScoreValidation, In
  <2>3. \A i \in In("validation")' : probability'[i] \in Probabilities
    BY <2>1, <2>2 DEF Scored
  <2> QED  BY <1>5, <2>3 DEF ScoreValidation, TrainTyped
<1>6. CASE Calibrate
  BY <1>6, ThresholdsTyped DEF Calibrate, TrainTyped
<1>7. CASE ScoreTest
  BY <1>7 DEF ScoreTest, TrainTyped
<1>8. CASE Save
  <2>1. Gate \in BOOLEAN
    BY DEF Gate, Passes, Within
  <2> QED  BY <1>8, <2>1 DEF Save, SaveArtifact, TrainTyped
<1>9. CASE UNCHANGED trainVars
  BY <1>9 DEF trainVars, TrainTyped, In
<1> QED  BY <1>1, <1>2, <1>3, <1>4, <1>5, <1>6, <1>7, <1>8, <1>9 DEF TrainNext

\* A forest is a function on the examples, and what has been dealt is sets of
\* them.
LEMMA TrainTypedOK == Grouping /\ TrainTyped => TrainTypeOK
<1> SUFFICES ASSUME Grouping, TrainTyped PROVE TrainTypeOK
  OBVIOUS
<1>1. parent \in [Examples -> Examples]
  <2>1. CASE training = "idle"
    <3>1. Examples = {} /\ parent = <<>>
      BY <2>1 DEF Grouping, TrainTyped, Examples
    <3> QED  BY <3>1
  <2> QED  BY <2>1 DEF Grouping, Forest
<1>2. dealt \subseteq SUBSET Examples
  BY DEF Grouping, Components
<1> QED  BY <1>1, <1>2 DEF Grouping, TrainTyped, TrainTypeOK
==============================================================================

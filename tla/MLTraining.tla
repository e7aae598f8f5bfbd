------------------------------- MODULE MLTraining -------------------------------
(* train_ml_pipeline of evaluation/train_ml/pipeline.py, with the grouped     *)
(* split of services/ml/training.py and the thresholds of                     *)
(* services/ml/calibration.py and artifact.py.                                *)
(*                                                                            *)
(* A case is [seed, entities, scenario, match, exposure], its entities in a   *)
(* sequence; what the fitted model makes of its example is any probability of *)
(* Probabilities, in hundredths.  A constraint is [rate, exposure], the rate  *)
(* in hundredths.                                                             *)
EXTENDS Integers, Sequences, FiniteSetsExt, Functions

CONSTANTS Datasets,      \* the sequences of cases there may be
          Probabilities,
          AutoConstraint, ReviewConstraint,
          NoThreshold

ASSUME TrainingAssumption ==
  /\ Probabilities \subseteq 0..100 /\ NoThreshold \notin Int
  /\ {AutoConstraint.rate, ReviewConstraint.rate} \subseteq 0..100
  /\ {AutoConstraint.exposure, ReviewConstraint.exposure} \subseteq Nat

\* _amount of calibration.py refuses an exposure that is negative.
ASSUME DatasetsAssumption ==
  \A cases \in Datasets :
    /\ cases \in Seq({cases[i] : i \in DOMAIN cases})
    /\ \A i \in DOMAIN cases : cases[i].exposure \in Nat

VARIABLES dataset,
          training,   \* the stage of the pipeline
          parent,     \* of _DisjointSet
          joined,     \* the examples of the first loop of _connected_groups
          dealt,      \* the components the loop of grouped_split has placed
          part,       \* where each example of them is
          probability, \* of the examples scored so far
          thresholds, \* auto, review and unresolved
          passed      \* review_gate_passed

trainVars == <<dataset, training, parent, joined, dealt, part, probability, thresholds, passed>>

NoThresholds == [auto |-> NoThreshold, review |-> NoThreshold, unresolved |-> NoThreshold]

TrainInit ==
  /\ dataset = <<>> /\ training = "idle" /\ parent = <<>> /\ joined = 0
  /\ dealt = {} /\ part = <<>> /\ probability = <<>> /\ thresholds = NoThresholds /\ passed = FALSE

-----------------------------------------------------------------------------
(* _connected_groups: a disjoint set over the examples; find also shortens    *)
(* the chains it follows, which moves no root.                                *)

Examples == DOMAIN dataset

Root(up, i) ==
  LET climb[k \in 0..Len(dataset)] == IF k = 0 THEN i ELSE up[climb[k - 1]]
  IN climb[Len(dataset)]

Union(up, left, right) ==
  IF Root(up, left) = Root(up, right) THEN up ELSE [up EXCEPT ![Root(up, right)] = Root(up, left)]

Identities == {"seed", "entity", "scenario"}

\* _example_from_case: of the entities of a case, the example keeps the first.
IdentityOf(i, identity) ==
  IF identity = "entity" THEN dataset[i].entities[1] ELSE dataset[i][identity]

\* Mutant: the scenario is no identity.
OwnerForgetful(i, identity) ==
  IF identity = "scenario" THEN i ELSE Min({j \in 1..i : IdentityOf(j, identity) = IdentityOf(i, identity)})

\* The first example of an identity owns it.
Owner(i, identity) == Min({j \in 1..i : IdentityOf(j, identity) = IdentityOf(i, identity)})

\* load_custom_benchmark, as to the entities.
WellFormed(case) == case.entities # <<>> /\ IsInjective(case.entities)

LoadExamples ==
  /\ training = "idle"
  /\ \E cases \in Datasets :
       /\ dataset' = cases
       /\ parent' = [i \in DOMAIN cases |-> i]
       /\ training' = IF \A i \in DOMAIN cases : WellFormed(cases[i]) THEN "joining" ELSE "refused"
  /\ UNCHANGED <<joined, dealt, part, probability, thresholds, passed>>

JoinExample ==
  /\ training = "joining" /\ joined < Len(dataset)
  /\ LET i == joined + 1 IN
       parent' = Union(Union(Union(parent, i, Owner(i, "seed")), i, Owner(i, "entity")), i, Owner(i, "scenario"))
  /\ joined' = joined + 1
  /\ UNCHANGED <<dataset, training, dealt, part, probability, thresholds, passed>>

Components == {{j \in Examples : Root(parent, j) = Root(parent, i)} : i \in Examples}

StartDealing ==
  /\ training = "joining" /\ joined = Len(dataset)
  /\ training' = IF Cardinality(Components) < 3 THEN "refused" ELSE "dealing"
  /\ UNCHANGED <<dataset, parent, joined, dealt, part, probability, thresholds, passed>>

-----------------------------------------------------------------------------
(* grouped_split and train_baselines.                                         *)

In(p) == {i \in DOMAIN part : part[i] = p}

\* max(1, round(total * 0.2)), for validation and test alike.
Target == Max({1, (2 * Len(dataset) + 5) \div 10})

\* The shuffle may put the components in any order.
DealComponent ==
  /\ training = "dealing"
  /\ \E group \in Components \ dealt :
       LET p == IF Cardinality(In("validation")) < Target THEN "validation"
                ELSE IF Cardinality(In("test")) < Target THEN "test" ELSE "train"
       IN /\ part' = [i \in (DOMAIN part) \cup group |-> IF i \in group THEN p ELSE part[i]]
          /\ dealt' = dealt \cup {group}
  /\ UNCHANGED <<dataset, training, parent, joined, probability, thresholds, passed>>

\* A model is fitted on, and compared over, examples of both classes.
BothClasses(p) == {dataset[i].match : i \in In(p)} = BOOLEAN

TrainBaselines ==
  /\ training = "dealing" /\ dealt = Components
  /\ training' = IF \A p \in {"train", "validation", "test"} : BothClasses(p) THEN "split" ELSE "refused"
  /\ UNCHANGED <<dataset, parent, joined, dealt, part, probability, thresholds, passed>>

-----------------------------------------------------------------------------
(* calibrate_held_out.                                                        *)

Selected(p, threshold) == {i \in In(p) : threshold # NoThreshold /\ probability[i] >= threshold}
FalsePositives(p, threshold) == {i \in Selected(p, threshold) : ~dataset[i].match}
Exposure(cases, G) == MapThenSumSet(LAMBDA i : cases[i].exposure, G)

Within(p, threshold, constraint) ==
  /\ 100 * Cardinality(FalsePositives(p, threshold)) <= constraint.rate * Cardinality(Selected(p, threshold))
  /\ Exposure(dataset, FalsePositives(p, threshold)) <= constraint.exposure

Feasible(constraint) ==
  {t \in {probability[i] : i \in In("validation")} : Within("validation", t, constraint)}

AutoThreshold == IF Feasible(AutoConstraint) = {} THEN NoThreshold ELSE Min(Feasible(AutoConstraint))

\* Mutant: the automatic threshold is no upper bound.
ReviewUnbounded(auto) ==
  IF Feasible(ReviewConstraint) = {} THEN NoThreshold ELSE Max(Feasible(ReviewConstraint))

\* With review_prefer_precision, the highest that is not above the automatic one.
ReviewThreshold(auto) ==
  LET feasible == {t \in Feasible(ReviewConstraint) : auto # NoThreshold => t <= auto}
  IN IF feasible = {} THEN NoThreshold ELSE Max(feasible)

\* _unresolved_boundary
UnresolvedThreshold(review) ==
  LET below == {probability[i] : i \in {j \in In("validation") : review # NoThreshold /\ probability[j] < review}}
  IN IF below = {} THEN NoThreshold ELSE Max(below)

Scored(G, f) == [i \in (DOMAIN probability) \cup G |-> IF i \in G THEN f[i] ELSE probability[i]]

ScoreValidation ==
  /\ training = "split"
  /\ \E f \in [In("validation") -> Probabilities] : probability' = Scored(In("validation"), f)
  /\ training' = "scored"
  /\ UNCHANGED <<dataset, parent, joined, dealt, part, thresholds, passed>>

Calibrate ==
  /\ training = "scored"
  /\ LET review == ReviewThreshold(AutoThreshold) IN
       thresholds' = [auto |-> AutoThreshold, review |-> review, unresolved |-> UnresolvedThreshold(review)]
  /\ training' = "calibrated"
  /\ UNCHANGED <<dataset, parent, joined, dealt, part, probability, passed>>

-----------------------------------------------------------------------------
(* evaluate_generalization, then save_model_artifact.                         *)

ScoreTest ==
  /\ training = "calibrated"
  /\ \E f \in [In("test") -> Probabilities] : probability' = Scored(In("test"), f)
  /\ training' = "tested"
  /\ UNCHANGED <<dataset, parent, joined, dealt, part, thresholds, passed>>

Passes ==
  /\ thresholds.auto # NoThreshold =>
       FalsePositives("test", thresholds.auto) = {} /\ Within("test", thresholds.auto, AutoConstraint)
  /\ Within("test", thresholds.review, ReviewConstraint)

\* _validate_thresholds of artifact.py
ValidThresholds ==
  /\ NoThreshold \notin {thresholds.auto, thresholds.review} => thresholds.auto >= thresholds.review
  /\ thresholds.unresolved # NoThreshold =>
       thresholds.review # NoThreshold /\ thresholds.unresolved < thresholds.review

\* review_gate_passed
Gate == thresholds.review # NoThreshold /\ Passes

\* save_model_artifact: nothing is written of thresholds it refuses.
SaveArtifact(gate) ==
  IF ValidThresholds
  THEN training' = "saved" /\ passed' = gate
  ELSE training' = "invalid" /\ UNCHANGED passed

Save ==
  /\ training = "tested"
  /\ \E require_generalization \in BOOLEAN :
       \/ require_generalization /\ ~Gate /\ training' = "refused" /\ UNCHANGED passed
       \/ (require_generalization => Gate) /\ SaveArtifact(Gate)
  /\ UNCHANGED <<dataset, parent, joined, dealt, part, probability, thresholds>>

TrainNext ==
  \/ LoadExamples \/ JoinExample \/ StartDealing \/ DealComponent \/ TrainBaselines
  \/ ScoreValidation \/ Calibrate \/ ScoreTest \/ Save

TrainSpec == TrainInit /\ [][TrainNext]_trainVars

-----------------------------------------------------------------------------
TrainTypeOK ==
  /\ training \in {"idle", "joining", "dealing", "split", "scored", "calibrated", "tested", "saved", "refused", "invalid"}
  /\ parent \in [Examples -> Examples] /\ joined \in 0..Len(dataset)
  /\ dealt \subseteq SUBSET Examples
  /\ DOMAIN part = UNION dealt /\ \A i \in DOMAIN part : part[i] \in {"train", "validation", "test"}
  /\ \A tier \in DOMAIN thresholds : thresholds[tier] \in Probabilities \cup {NoThreshold}
  /\ passed \in BOOLEAN

\* _validate_no_group_overlap never fires: in whatever order examples arrive and
\* components are dealt, two examples that share a world, an entity or a scenario
\* are never in two parts.
SplitLeakFree ==
  \A i, j \in DOMAIN part :
    (\E identity \in Identities : IdentityOf(i, identity) = IdentityOf(j, identity)) => part[i] = part[j]

\* The thresholds a training ends with are of use: the artifact never refuses
\* them, each keeps its constraint on the validation examples, and, the automatic
\* constraint being the stricter, a review tier beside an automatic tier has the
\* same threshold.  The gate is passed only on what the test examples confirm.
ThresholdsUsable ==
  /\ training # "invalid"
  /\ thresholds.auto # NoThreshold => Within("validation", thresholds.auto, AutoConstraint)
  /\ thresholds.review # NoThreshold => Within("validation", thresholds.review, ReviewConstraint)
  /\ (/\ AutoConstraint.rate <= ReviewConstraint.rate
      /\ AutoConstraint.exposure <= ReviewConstraint.exposure
      /\ thresholds.auto # NoThreshold) => thresholds.review = thresholds.auto
  /\ passed => FalsePositives("test", thresholds.auto) = {} /\ thresholds.review # NoThreshold
==============================================================================

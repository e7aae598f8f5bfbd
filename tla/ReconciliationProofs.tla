------------------------- MODULE ReconciliationProofs --------------------------
(* Theorems of the two engines, for any records, windows and limits: the      *)
(* deterministic matching (DeterministicMatch) and the graph reconciliation   *)
(* (GraphReconciliation); and that the sum of them with the parsers and the   *)
(* training (MCBatch) is typed.                                               *)
EXTENDS MCBatch, ParsingProofs, MLTrainingProofs, InductionLemmas

(* DeterministicMatch. *)

-----------------------------------------------------------------------------
(* The operators.                                                             *)

\* What match_pair can answer.  Only a rejected pair and a foreign currency
\* have no confidence, and no pair has the confidence of an allocation.
LEMMA PairAnswers ==
  ASSUME NEW s, NEW t
  PROVE  /\ Pair(s, t).status \in {"MATCHED", "EXCEPTION", "UNMATCHED"}
         /\ Pair(s, t).confidence \in {0, 90, 95, 100}
         /\ Pair(s, t).status = "UNMATCHED" => Pair(s, t).confidence = 0
BY DEF Pair, MatchPair, ByAmount, Verdict

\* Fewer records make fewer groups.
LEMMA GroupsMonotone ==
  ASSUME NEW one, NEW recs, NEW free, NEW fewer \in SUBSET free
  PROVE  Groups(one, recs, fewer) \subseteq Groups(one, recs, free)
BY DEF Groups

\* Records are named by their positions.
LEMMA Positions ==
  ASSUME TypeOK
  PROVE  /\ Sources = 1..Len(sid) /\ Targets = 1..Len(tid)
         /\ Len(sid) \in Nat /\ Len(tid) \in Nat /\ i \in Nat \ {0}
         /\ FreeSources \subseteq Sources /\ FreeTargets \subseteq Targets
BY MatchAssumption DEF TypeOK, Sources, Targets, FreeSources, FreeTargets

-----------------------------------------------------------------------------
(* Type correctness.                                                          *)

\* Nothing is matched at first.
LEMMA TypeAtFirst == Init => TypeOK
BY DEF Init, TypeOK, Phases

\* Every iteration keeps its loop on the positions of its side.
LEMMA TypeInductive == TypeOK /\ [Next]_vars => TypeOK'
<1> SUFFICES ASSUME TypeOK, [Next]_vars PROVE TypeOK'
  OBVIOUS
<1> USE DEF TypeOK, Sources, Targets, input
<1>1. CASE PairSource
  <2>1. CASE Skip
    BY <1>1, <2>1 DEF PairSource, Iterate, Skip
  <2>2. CASE \E t \in Targets : Report(Result({i}, {t}, Pair(i, t).status, Pair(i, t).confidence))
    BY <1>1, <2>2, PairAnswers DEF PairSource, Iterate, Report, Result
  <2> QED BY <1>1, <2>1, <2>2 DEF PairSource
<1>2. CASE AllocateSource
  BY <1>2 DEF AllocateSource, Iterate, Skip, Report, Result
<1>3. CASE AllocateTarget
  BY <1>3 DEF AllocateTarget, Iterate, Skip, Report, Result
<1>4. CASE AllocationRaises
  BY <1>4 DEF AllocationRaises, Phases
<1>5. CASE EmitSource
  BY <1>5 DEF EmitSource, Iterate, Skip, Emit, Result
<1>6. CASE EmitTarget
  BY <1>6 DEF EmitTarget, Iterate, Skip, Emit, Result
<1>7. ASSUME NEW from, NEW dom, NEW to \in Phases, NextLoop(from, dom, to) PROVE TypeOK'
  BY <1>7 DEF NextLoop
<1>8. CASE UNCHANGED vars
  BY <1>8 DEF vars
<1> QED BY <1>1, <1>2, <1>3, <1>4, <1>5, <1>6, <1>7, <1>8 DEF Next, Phases

\* The ids remembered are ids of the input, the loops stay on their positions and
\* every result is made of records of the input.
THEOREM TypeCorrect == Spec => []TypeOK
BY TypeAtFirst, TypeInductive, PTL DEF Spec

-----------------------------------------------------------------------------
(* What every step leaves alone.                                              *)

\* The input stays, nothing reported is taken back, and no record is freed.
LEMMA Monotone ==
  ASSUME TypeOK, [Next]_vars
  PROVE  /\ UNCHANGED input
         /\ matched \subseteq matched' /\ used \subseteq used' /\ results \subseteq results'
         /\ FreeSources' \subseteq FreeSources /\ FreeTargets' \subseteq FreeTargets
<1>1. /\ UNCHANGED input
      /\ matched \subseteq matched' /\ used \subseteq used' /\ results \subseteq results'
  <2> USE DEF Iterate, Report, Skip, Emit
  <2>1. CASE PairSource
    BY <2>1 DEF PairSource
  <2>2. CASE AllocateSource
    BY <2>2 DEF AllocateSource
  <2>3. CASE AllocateTarget
    BY <2>3 DEF AllocateTarget
  <2>4. CASE EmitSource
    BY <2>4 DEF EmitSource
  <2>5. CASE EmitTarget
    BY <2>5 DEF EmitTarget
  <2> QED BY <2>1, <2>2, <2>3, <2>4, <2>5 DEF Next, NextLoop, AllocationRaises, vars, input
<1> QED BY <1>1 DEF FreeSources, FreeTargets, Sources, Targets, input

-----------------------------------------------------------------------------
(* Who is taken: the two sets of ids agree with the results.                  *)

Emitting == {"emit_sources", "emit_targets", "done"}

\* What is paired or allocated is in the sets.
TakenRecorded ==
  \A r \in results : ~Unmatched(r) =>
    (\A s \in r.sources : sid[s] \in matched) /\ (\A t \in r.targets : tid[t] \in used)

\* What is reported unmatched is one free record the emitting loops have passed.
LeftFree ==
  \A r \in results : Unmatched(r) =>
    /\ pc \in Emitting
    /\ \/ \E s \in FreeSources :
            /\ r = Result({s}, {}, "UNMATCHED", 0)
            /\ pc = "emit_sources" => s < i
       \/ \E t \in FreeTargets :
            /\ r = Result({}, {t}, "UNMATCHED", 0)
            /\ pc # "emit_sources"
            /\ pc = "emit_targets" => t < i

\* During the pairs, the matched ids are ids of positions already visited.
PairsInOrder ==
  pc = "pairs" => \A x \in matched : \E s \in Sources : s < i /\ sid[s] = x

\* A matched or used id is the id of a record some result speaks of.
TakenReported ==
  /\ \A x \in matched : \E r \in results : \E s \in r.sources : sid[s] = x
  /\ \A x \in used : \E r \in results : \E t \in r.targets : tid[t] = x

\* The emitting loops report every free record they pass.
PassedReported ==
  /\ \A s \in FreeSources :
       (pc \in {"emit_targets", "done"} \/ (pc = "emit_sources" /\ s < i))
         => \E r \in results : s \in r.sources
  /\ \A t \in FreeTargets :
       (pc = "done" \/ (pc = "emit_targets" /\ t < i)) => \E r \in results : t \in r.targets

Bookkeeping == TypeOK /\ TakenRecorded /\ LeftFree /\ PairsInOrder /\ TakenReported /\ PassedReported

\* A step of the three matching passes: it skips, or reports records that were
\* free until then, the source of a pair excepted: it is only known to be the
\* one the loop is at.
LEMMA MatchingStep ==
  ASSUME TypeOK, PairSource \/ AllocateSource \/ AllocateTarget
  PROVE  /\ pc \notin Emitting /\ UNCHANGED <<input, pc>> /\ i' = i + 1
         /\ \/ Skip
            \/ \E r : /\ r \in [sources : SUBSET Sources, targets : SUBSET FreeTargets,
                                status : {"MATCHED", "EXCEPTION"}, confidence : {0, 88, 90, 95, 100}]
                      /\ pc = "pairs" => r.sources = {i}
                      /\ pc # "pairs" => r.sources \subseteq FreeSources
                      /\ Report(r)
<1> USE DEF Emitting, Iterate, TypeOK
<1>1. CASE PairSource
  <2>1. CASE Skip
    BY <1>1, <2>1 DEF PairSource
  <2>2. ASSUME NEW t \in Targets, IsBest(i, t),
               Report(Result({i}, {t}, Pair(i, t).status, Pair(i, t).confidence))
        PROVE  \E r : /\ r \in [sources : SUBSET Sources, targets : SUBSET FreeTargets,
                                status : {"MATCHED", "EXCEPTION"}, confidence : {0, 88, 90, 95, 100}]
                      /\ r.sources = {i} /\ Report(r)
    BY <1>1, <2>2, PairAnswers DEF PairSource, IsBest, Viable, Result
  <2> QED BY <1>1, <2>1, <2>2 DEF PairSource
<1>2. CASE AllocateSource
  <2>1. CASE Skip
    BY <1>2, <2>1 DEF AllocateSource
  <2>2. ASSUME NEW G \in SUBSET Targets, IsFirst(G, TargetGroups), sid[i] \notin matched,
               Report(Result({i}, G, "MATCHED", 88))
        PROVE  \E r : /\ r \in [sources : SUBSET Sources, targets : SUBSET FreeTargets,
                                status : {"MATCHED", "EXCEPTION"}, confidence : {0, 88, 90, 95, 100}]
                      /\ r.sources \subseteq FreeSources /\ Report(r)
    BY <1>2, <2>2 DEF AllocateSource, IsFirst, TargetGroups, Groups, Result, FreeSources
  <2> QED BY <1>2, <2>1, <2>2 DEF AllocateSource
<1>3. CASE AllocateTarget
  <2>1. CASE Skip
    BY <1>3, <2>1 DEF AllocateTarget
  <2>2. ASSUME NEW G \in SUBSET Sources, IsFirst(G, SourceGroups), tid[i] \notin used,
               Report(Result(G, {i}, "MATCHED", 88))
        PROVE  \E r : /\ r \in [sources : SUBSET Sources, targets : SUBSET FreeTargets,
                                status : {"MATCHED", "EXCEPTION"}, confidence : {0, 88, 90, 95, 100}]
                      /\ r.sources \subseteq FreeSources /\ Report(r)
    BY <1>3, <2>2 DEF AllocateTarget, IsFirst, SourceGroups, Groups, Result, FreeTargets, FreeSources
  <2> QED BY <1>3, <2>1, <2>2 DEF AllocateTarget
<1> QED BY <1>1, <1>2, <1>3

\* A step of a matching pass keeps the books.
LEMMA MatchingBooks ==
  ASSUME Bookkeeping, PairSource \/ AllocateSource \/ AllocateTarget
  PROVE  TakenRecorded' /\ LeftFree' /\ PairsInOrder' /\ TakenReported' /\ PassedReported'
<1> USE DEF Bookkeeping
<1>0. pc \notin Emitting /\ UNCHANGED <<input, pc>> /\ i' = i + 1 /\ i \in Nat
  BY MatchingStep DEF TypeOK
<1>1. \A r \in results : ~Unmatched(r)
  BY <1>0 DEF LeftFree
<1>2. PassedReported'
  BY <1>0 DEF PassedReported, Emitting
<1>3. CASE Skip
  <2>1. PairsInOrder'
    <3>1. ASSUME pc = "pairs", NEW x \in matched PROVE \E s \in Sources : s < i + 1 /\ sid[s] = x
      BY <1>0, <3>1, Positions DEF PairsInOrder
    <3> QED BY <1>0, <1>3, <3>1 DEF Skip, PairsInOrder, input, Sources
  <2> QED BY <1>0, <1>1, <1>2, <1>3, <2>1
          DEF Skip, input, TakenRecorded, LeftFree, TakenReported
<1>4. ASSUME NEW r \in [sources : SUBSET Sources, targets : SUBSET FreeTargets,
                        status : {"MATCHED", "EXCEPTION"}, confidence : {0, 88, 90, 95, 100}],
             pc = "pairs" => r.sources = {i}, Report(r)
      PROVE  TakenRecorded' /\ LeftFree' /\ PairsInOrder' /\ TakenReported' /\ PassedReported'
  <2> USE DEF Report, input
  <2>1. TakenRecorded'
    BY <1>0, <1>4 DEF TakenRecorded, Unmatched
  <2>2. LeftFree'
    BY <1>1, <1>4 DEF LeftFree, Unmatched
  <2>3. PairsInOrder'
    <3>1. Sources' = Sources
      BY <1>0 DEF Sources
    <3>2. ASSUME pc = "pairs", NEW x \in matched' PROVE \E s \in Sources : s < i' /\ sid[s] = x
      <4>1. CASE x \in matched
        BY <1>0, <3>2, <4>1, Positions DEF PairsInOrder
      <4>2. CASE x \notin matched
        BY <1>0, <1>4, <3>2, <4>2, Positions, MatchingStep
      <4> QED BY <4>1, <4>2
    <3> QED BY <1>0, <3>1, <3>2 DEF PairsInOrder
  <2>4. TakenReported'
    BY <1>0, <1>4 DEF TakenReported
  <2> QED BY <1>2, <2>1, <2>2, <2>3, <2>4
<1> QED BY <1>3, <1>4, MatchingStep

\* So does a step of an emitting loop.
LEMMA EmittingBooks ==
  ASSUME Bookkeeping, EmitSource \/ EmitTarget
  PROVE  TakenRecorded' /\ LeftFree' /\ PairsInOrder' /\ TakenReported' /\ PassedReported'
<1> USE DEF Bookkeeping, Iterate, Emitting, Unmatched
<1>1. /\ pc \in {"emit_sources", "emit_targets"} /\ UNCHANGED <<input, pc, matched, used>>
      /\ i \in Nat /\ i' = i + 1 /\ results \subseteq results'
      /\ FreeSources' = FreeSources /\ FreeTargets' = FreeTargets
  BY Positions DEF EmitSource, EmitTarget, Emit, Skip, input, FreeSources, FreeTargets, Sources, Targets
<1>p. FreeSources \subseteq Nat /\ FreeTargets \subseteq Nat
  BY Positions
<1>2. PairsInOrder'
  BY <1>1 DEF PairsInOrder
<1>3. TakenReported'
  BY <1>1 DEF TakenReported, input
<1>4. CASE EmitSource
  <2>1. TakenRecorded'
    BY <1>1, <1>4 DEF EmitSource, Emit, Skip, Result, TakenRecorded, input
  <2>2. LeftFree'
    BY <1>1, <1>4 DEF EmitSource, Emit, Skip, Result, LeftFree, FreeSources
  <2>3. PassedReported'
    <3>1. ASSUME NEW s \in FreeSources, s < i + 1 PROVE \E r \in results' : s \in r.sources
      <4>1. CASE s = i
        <5>1. Result({i}, {}, "UNMATCHED", 0) \in results'
          BY <1>4, <3>1, <4>1 DEF EmitSource, Emit, Skip, FreeSources
        <5>2. i \in Result({i}, {}, "UNMATCHED", 0).sources
          BY DEF Result
        <5> QED BY <4>1, <5>1, <5>2
      <4>2. CASE s < i
        BY <1>1, <1>4, <3>1, <4>2 DEF EmitSource, PassedReported
      <4> QED BY <1>1, <1>p, <3>1, <4>1, <4>2
    <3> QED BY <1>1, <1>4, <3>1 DEF EmitSource, PassedReported
  <2> QED BY <1>2, <1>3, <2>1, <2>2, <2>3
<1>5. CASE EmitTarget
  <2>1. TakenRecorded'
    BY <1>1, <1>5 DEF EmitTarget, Emit, Skip, Result, TakenRecorded, input
  <2>2. LeftFree'
    BY <1>1, <1>5 DEF EmitTarget, Emit, Skip, Result, LeftFree, FreeTargets
  <2>3. PassedReported'
    <3>1. ASSUME NEW t \in FreeTargets, t < i + 1 PROVE \E r \in results' : t \in r.targets
      <4>1. CASE t = i
        <5>1. Result({}, {i}, "UNMATCHED", 0) \in results'
          BY <1>5, <3>1, <4>1 DEF EmitTarget, Emit, Skip, FreeTargets
        <5>2. i \in Result({}, {i}, "UNMATCHED", 0).targets
          BY DEF Result
        <5> QED BY <4>1, <5>1, <5>2
      <4>2. CASE t < i
        BY <1>1, <1>5, <3>1, <4>2 DEF EmitTarget, PassedReported
      <4> QED BY <1>1, <1>p, <3>1, <4>1, <4>2
    <3>2. ASSUME NEW s \in FreeSources PROVE \E r \in results' : s \in r.sources
      BY <1>1, <1>5, <3>2 DEF EmitTarget, PassedReported
    <3> QED BY <1>1, <1>5, <3>1, <3>2 DEF EmitTarget, PassedReported
  <2> QED BY <1>2, <1>3, <2>1, <2>2, <2>3
<1> QED BY <1>4, <1>5

\* The books are kept by every behaviour.
LEMMA BooksKept == Spec => []Bookkeeping
<1>1. Init => Bookkeeping
  BY DEF Init, Bookkeeping, TypeOK, Phases, TakenRecorded, LeftFree, PairsInOrder,
         TakenReported, PassedReported
<1>2. Bookkeeping /\ TypeOK' /\ [Next]_vars => Bookkeeping'
  <2> SUFFICES ASSUME Bookkeeping, TypeOK', [Next]_vars PROVE Bookkeeping'
    OBVIOUS
  <2> USE DEF Bookkeeping
  <2>1. CASE PairSource \/ AllocateSource \/ AllocateTarget
    BY <2>1, MatchingBooks
  <2>2. CASE EmitSource \/ EmitTarget
    BY <2>2, EmittingBooks
  <2>3. CASE AllocationRaises
    BY <2>3 DEF AllocationRaises, input, Emitting, TakenRecorded, LeftFree, PairsInOrder,
                TakenReported, PassedReported
  <2> DEFINE Loops == \/ NextLoop("pairs", Sources, "one_to_many")
                      \/ NextLoop("one_to_many", Sources, "many_to_one")
                      \/ NextLoop("many_to_one", Targets, "emit_sources")
                      \/ NextLoop("emit_sources", Sources, "emit_targets")
                      \/ NextLoop("emit_targets", Targets, "done")
  <2>4. CASE Loops
    <3>1. /\ UNCHANGED <<input, matched, used, results>>
          /\ FreeSources' = FreeSources /\ FreeTargets' = FreeTargets
      BY <2>4 DEF NextLoop, input, FreeSources, FreeTargets, Sources, Targets
    <3>2. TakenRecorded' /\ PairsInOrder' /\ TakenReported'
      BY <2>4, <3>1 DEF NextLoop, input, TakenRecorded, PairsInOrder, TakenReported
    <3>3. LeftFree'
      BY <2>4, <3>1 DEF NextLoop, Emitting, LeftFree
    <3>4. PassedReported'
      <4>1. \A s \in FreeSources : s \in Sources
        BY Positions
      <4>2. \A t \in FreeTargets : t \in Targets
        BY Positions
      <4>3. CASE i' = 1 /\ pc' \notin {"emit_targets", "done"}
        BY <3>1, <4>1, <4>2, <4>3, Positions DEF PassedReported
      <4>4. CASE NextLoop("emit_sources", Sources, "emit_targets")
        BY <3>1, <4>1, <4>2, <4>4, Positions DEF NextLoop, PassedReported
      <4>5. CASE NextLoop("emit_targets", Targets, "done")
        BY <3>1, <4>1, <4>2, <4>5, Positions DEF NextLoop, PassedReported
      <4> QED BY <2>4, <4>3, <4>4, <4>5 DEF NextLoop
    <3> QED BY <3>2, <3>3, <3>4
  <2>5. CASE UNCHANGED vars
    <3>1. FreeSources' = FreeSources /\ FreeTargets' = FreeTargets /\ UNCHANGED vars
      BY <2>5 DEF vars, FreeSources, FreeTargets, Sources, Targets
    <3>2. TakenRecorded' /\ PairsInOrder'
      BY <3>1 DEF vars, Unmatched, Sources, TakenRecorded, PairsInOrder
    <3>3. TakenReported'
      BY <3>1 DEF vars, input, TakenReported
    <3>4. LeftFree' /\ PassedReported'
      BY <3>1 DEF vars, LeftFree, PassedReported
    <3> QED BY <3>2, <3>3, <3>4
  <2> QED BY <2>1, <2>2, <2>3, <2>4, <2>5 DEF Next
<1> QED BY <1>1, <1>2, TypeCorrect, PTL DEF Spec

-----------------------------------------------------------------------------
\* Whatever the records, no record is consumed by two results.  The books are
\* the strengthening: a new result takes only free records, and what older
\* results hold is not free.
THEOREM ConsumedOnce == Spec => []UsedOnce
<1>1. Init => UsedOnce
  BY DEF Init, UsedOnce
<1>2. Bookkeeping /\ UsedOnce /\ [Next]_vars => UsedOnce'
  <2> SUFFICES ASSUME Bookkeeping, UsedOnce, [Next]_vars, DistinctIds'
               PROVE  \A r, q \in results' :
                        r # q => r.sources \cap q.sources = {} /\ r.targets \cap q.targets = {}
    BY DEF UsedOnce
  <2>0. TypeOK /\ UNCHANGED input
    BY Monotone DEF Bookkeeping
  <2>1. DistinctIds
    BY <2>0 DEF DistinctIds, Sources, Targets, input
  <2> DEFINE Disjoint(r, q) == r.sources \cap q.sources = {} /\ r.targets \cap q.targets = {}
  <2>2. \A r, q \in results : r # q => Disjoint(r, q)
    BY <2>1 DEF UsedOnce
  <2>3. ASSUME NEW r, results' = results \cup {r}, \A q \in results : Disjoint(r, q)
        PROVE  \A u, q \in results' : u # q => Disjoint(u, q)
    BY <2>2, <2>3
  <2>4. CASE PairSource \/ AllocateSource \/ AllocateTarget
    <3>1. \A q \in results : ~Unmatched(q) /\ q.sources \cap FreeSources = {} /\ q.targets \cap FreeTargets = {}
      BY <2>0, <2>4, MatchingStep DEF Bookkeeping, LeftFree, TakenRecorded, FreeSources, FreeTargets
    <3>2. CASE Skip
      BY <2>2, <3>2 DEF Skip
    <3>3. ASSUME NEW r, r.targets \subseteq FreeTargets, Report(r),
                 pc = "pairs" => r.sources = {i}, pc # "pairs" => r.sources \subseteq FreeSources
          PROVE  \A q \in results : Disjoint(r, q)
      <4>1. ASSUME NEW q \in results, pc = "pairs" PROVE i \notin q.sources
        <5>1. SUFFICES ASSUME i \in q.sources PROVE FALSE
          OBVIOUS
        <5>2. sid[i] \in matched /\ i \in Sources
          BY <2>4, <3>1, <4>1, <5>1 DEF Bookkeeping, TakenRecorded, PairSource, AllocateSource, AllocateTarget, Iterate
        <5>3. PICK s \in Sources : s < i /\ sid[s] = sid[i]
          BY <4>1, <5>2 DEF Bookkeeping, PairsInOrder
        <5> QED BY <2>0, <2>1, <5>2, <5>3, Positions DEF DistinctIds
      <4> QED BY <3>1, <3>3, <4>1
    <3> QED
      BY <2>0, <2>3, <2>4, <3>2, <3>3, MatchingStep DEF Report
  <2>5. CASE EmitSource \/ EmitTarget
    <3>1. CASE Skip
      BY <2>2, <3>1 DEF Skip
    <3>2. ASSUME EmitSource, i \in FreeSources, Emit(Result({i}, {}, "UNMATCHED", 0))
          PROVE  \A q \in results : Disjoint(Result({i}, {}, "UNMATCHED", 0), q)
      BY <2>0, <3>2, Positions
         DEF EmitSource, Iterate, Result, Bookkeeping, LeftFree, TakenRecorded, FreeSources
    <3>3. ASSUME EmitTarget, i \in FreeTargets, Emit(Result({}, {i}, "UNMATCHED", 0))
          PROVE  \A q \in results : Disjoint(Result({}, {i}, "UNMATCHED", 0), q)
      BY <2>0, <3>3, Positions
         DEF EmitTarget, Iterate, Result, Bookkeeping, LeftFree, TakenRecorded, FreeTargets
    <3> QED BY <2>3, <2>5, <3>1, <3>2, <3>3
            DEF EmitSource, EmitTarget, Iterate, Emit, FreeSources, FreeTargets
  <2>6. CASE UNCHANGED results
    BY <2>2, <2>6
  <2> QED BY <2>4, <2>5, <2>6 DEF Next, NextLoop, AllocationRaises, vars
<1> QED BY <1>1, <1>2, BooksKept, PTL DEF Spec

\* An input whose ids are distinct is reported whole: at the end a record is
\* either in one of the two sets, and some result speaks of its id, or free and
\* past the loop that emits it.
THEOREM ReportedWhole == Spec => []DistinctReported
<1>1. Bookkeeping => DistinctReported
  <2> SUFFICES ASSUME Bookkeeping, DistinctIds, pc = "done" PROVE AllReported
    BY DEF DistinctReported, AllReported, Returned
  <2> USE DEF Bookkeeping, TypeOK
  <2>1. ASSUME NEW s \in Sources PROVE \E r \in results : s \in r.sources
    <3>1. CASE s \in FreeSources
      BY <3>1 DEF PassedReported
    <3>2. CASE s \notin FreeSources
      <4>1. PICK r \in results : \E u \in r.sources : sid[u] = sid[s]
        BY <3>2 DEF TakenReported, FreeSources
      <4> QED BY <4>1 DEF DistinctIds
    <3> QED BY <3>1, <3>2
  <2>2. ASSUME NEW t \in Targets PROVE \E r \in results : t \in r.targets
    <3>1. CASE t \in FreeTargets
      BY <3>1 DEF PassedReported
    <3>2. CASE t \notin FreeTargets
      <4>1. PICK r \in results : \E u \in r.targets : tid[u] = tid[t]
        BY <3>2 DEF TakenReported, FreeTargets
      <4> QED BY <4>1 DEF DistinctIds
    <3> QED BY <3>1, <3>2
  <2> QED BY <2>1, <2>2 DEF AllReported
<1> QED BY <1>1, BooksKept, PTL

-----------------------------------------------------------------------------
(* What a pass could not match stays unmatchable: the records only get fewer. *)

AfterSplits == {"many_to_one", "emit_sources", "emit_targets", "done"}
AfterMerges == {"emit_sources", "emit_targets", "done"}

PairsExhausted ==
  \A s \in FreeSources : (pc # "pairs" \/ s < i) =>
    \A t \in FreeTargets : Pair(s, t).status = "UNMATCHED"

SplitsExhausted ==
  \A s \in FreeSources : (pc \in AfterSplits \/ (pc = "one_to_many" /\ s < i)) =>
    Groups(src[s], tgt, FreeTargets) = {}

MergesExhausted ==
  \A t \in FreeTargets : (pc \in AfterMerges \/ (pc = "many_to_one" /\ t < i)) =>
    Groups(tgt[t], src, FreeSources) = {}

\* A pair is at least as good as what its source could still have.
BestKept ==
  \A r \in results : r.confidence \in {90, 95} =>
    \A s \in r.sources, t \in FreeTargets : Pair(s, t).confidence <= r.confidence

Exhausted == PairsExhausted /\ SplitsExhausted /\ MergesExhausted

\* The loops never come back: what a step has passed, it has just passed or had
\* passed before.
LEMMA LoopsAdvance ==
  ASSUME Bookkeeping, [Next]_vars
  PROVE  /\ \A s \in Sources :
              /\ (pc' # "pairs" \/ s < i') => (pc # "pairs" \/ s < i) \/ (s = i /\ PairSource)
              /\ (pc' \in AfterSplits \/ (pc' = "one_to_many" /\ s < i')) =>
                   pc \in AfterSplits \/ (pc = "one_to_many" /\ s < i) \/ (s = i /\ AllocateSource)
         /\ \A t \in Targets :
              (pc' \in AfterMerges \/ (pc' = "many_to_one" /\ t < i')) =>
                pc \in AfterMerges \/ (pc = "many_to_one" /\ t < i) \/ (t = i /\ AllocateTarget)
<1> USE DEF AfterSplits, AfterMerges
<1>0. /\ Sources = 1..Len(sid) /\ Targets = 1..Len(tid) /\ i \in Nat \ {0}
      /\ Len(sid) \in Nat /\ Len(tid) \in Nat
  BY Positions DEF Bookkeeping
<1>a. CASE PairSource
  <2>1. pc = "pairs" /\ pc' = pc /\ i' = i + 1
    BY <1>a DEF PairSource, Iterate
  <2> QED BY <1>0, <1>a, <2>1
<1>b. CASE AllocateSource
  <2>1. pc = "one_to_many" /\ pc' = pc /\ i' = i + 1
    BY <1>b DEF AllocateSource, Iterate
  <2> QED BY <1>0, <1>b, <2>1
<1>c. CASE AllocateTarget
  <2>1. pc = "many_to_one" /\ pc' = pc /\ i' = i + 1
    BY <1>c DEF AllocateTarget, Iterate
  <2> QED BY <1>0, <1>c, <2>1
<1>d. CASE EmitSource \/ EmitTarget
  BY <1>0, <1>d DEF EmitSource, EmitTarget, Iterate
<1>2. CASE AllocationRaises
  BY <1>0, <1>2 DEF AllocationRaises
<1>3. ASSUME NEW from, NEW dom, NEW to, NextLoop(from, dom, to) PROVE pc = from /\ pc' = to /\ i' = 1 /\ i \notin dom
  BY <1>3 DEF NextLoop
<1>4. CASE UNCHANGED vars
  BY <1>4 DEF vars
<1> QED BY <1>0, <1>a, <1>b, <1>c, <1>d, <1>2, <1>3, <1>4 DEF Next

\* Exhausted is an invariant: with a pair or a group, its records leave the free
\* ones, and without one there is none among fewer records.
LEMMA ExhaustedKept == Spec => []Exhausted
<1>1. Init => Exhausted
  BY MatchAssumption DEF Init, Exhausted, PairsExhausted, SplitsExhausted, MergesExhausted,
     AfterSplits, AfterMerges, FreeSources, FreeTargets, Sources, Targets
<1>2. Bookkeeping /\ Exhausted /\ [Next]_vars => Exhausted'
  <2> SUFFICES ASSUME Bookkeeping, Exhausted, [Next]_vars PROVE Exhausted'
    OBVIOUS
  <2> USE DEF Exhausted
  <2>0. /\ UNCHANGED input /\ FreeSources' \subseteq FreeSources /\ FreeTargets' \subseteq FreeTargets
        /\ FreeSources \subseteq Sources /\ FreeTargets \subseteq Targets
    BY Monotone, Positions DEF Bookkeeping
  <2>1. PairsExhausted'
    <3> SUFFICES ASSUME NEW s \in FreeSources', pc' # "pairs" \/ s < i', NEW t \in FreeTargets'
                 PROVE  Pair(s, t)'.status = "UNMATCHED"
      BY DEF PairsExhausted
    <3>1. Pair(s, t)' = Pair(s, t)
      BY <2>0 DEF Pair, input
    <3>2. CASE pc # "pairs" \/ s < i
      BY <2>0, <3>1, <3>2 DEF PairsExhausted
    <3>3. CASE s = i /\ PairSource
      <4>1. Viable(i) = {} \/ sid[i] \in matched'
        BY <3>3 DEF PairSource, Report, Result
      <4>2. sid[i] \notin matched'
        BY <2>0, <3>3 DEF FreeSources, input
      <4> QED BY <2>0, <3>1, <3>3, <4>1, <4>2 DEF Viable
    <3> QED BY <2>0, <3>2, <3>3, LoopsAdvance
  <2>2. SplitsExhausted'
    <3> SUFFICES ASSUME NEW s \in FreeSources',
                        pc' \in AfterSplits \/ (pc' = "one_to_many" /\ s < i')
                 PROVE  Groups(src[s], tgt, FreeTargets)' = {}
      BY DEF SplitsExhausted
    <3>1. Groups(src[s], tgt, FreeTargets)' \subseteq Groups(src[s], tgt, FreeTargets)
      BY <2>0, GroupsMonotone DEF input
    <3>2. CASE pc \in AfterSplits \/ (pc = "one_to_many" /\ s < i)
      BY <2>0, <3>1, <3>2 DEF SplitsExhausted
    <3>3. CASE s = i /\ AllocateSource
      <4>1. sid[i] \notin matched /\ sid[i] \notin matched'
        BY <2>0, <3>3 DEF FreeSources, input
      <4>2. TargetGroups = {}
        BY <3>3, <4>1 DEF AllocateSource, Report, Result
      <4> QED BY <3>1, <3>3, <4>2 DEF TargetGroups
    <3> QED BY <2>0, <3>2, <3>3, LoopsAdvance
  <2>3. MergesExhausted'
    <3> SUFFICES ASSUME NEW t \in FreeTargets',
                        pc' \in AfterMerges \/ (pc' = "many_to_one" /\ t < i')
                 PROVE  Groups(tgt[t], src, FreeSources)' = {}
      BY DEF MergesExhausted
    <3>1. Groups(tgt[t], src, FreeSources)' \subseteq Groups(tgt[t], src, FreeSources)
      BY <2>0, GroupsMonotone DEF input
    <3>2. CASE pc \in AfterMerges \/ (pc = "many_to_one" /\ t < i)
      BY <2>0, <3>1, <3>2 DEF MergesExhausted
    <3>3. CASE t = i /\ AllocateTarget
      <4>1. tid[i] \notin used /\ tid[i] \notin used'
        BY <2>0, <3>3 DEF FreeTargets, input
      <4>2. SourceGroups = {}
        BY <3>3, <4>1 DEF AllocateTarget, Report, Result
      <4> QED BY <3>1, <3>3, <4>2 DEF SourceGroups
    <3> QED BY <2>0, <3>2, <3>3, LoopsAdvance
  <2> QED BY <2>1, <2>2, <2>3
<1> QED BY <1>1, <1>2, BooksKept, PTL DEF Spec

\* Greedy, yet exhaustive: at the end no two unmatched records would pair and no
\* unmatched record is the total of unmatched others.
THEOREM NothingLeft == Spec => []NothingLeftToMatch
<1>1. Bookkeeping /\ Exhausted => NothingLeftToMatch
  <2> SUFFICES ASSUME Bookkeeping, Exhausted, pc = "done"
               PROVE  /\ \A s \in LeftSources, t \in LeftTargets : Pair(s, t).status = "UNMATCHED"
                      /\ \A s \in LeftSources : Groups(src[s], tgt, LeftTargets) = {}
                      /\ \A t \in LeftTargets : Groups(tgt[t], src, LeftSources) = {}
    BY DEF NothingLeftToMatch, Returned
  <2>1. LeftSources \subseteq FreeSources /\ LeftTargets \subseteq FreeTargets
    BY DEF Bookkeeping, LeftFree, LeftSources, LeftTargets, Result
  <2>2. \A s \in FreeSources, t \in FreeTargets : Pair(s, t).status = "UNMATCHED"
    BY DEF Exhausted, PairsExhausted
  <2>3. /\ \A s \in FreeSources : Groups(src[s], tgt, FreeTargets) = {}
        /\ \A t \in FreeTargets : Groups(tgt[t], src, FreeSources) = {}
    BY DEF Exhausted, SplitsExhausted, MergesExhausted, AfterSplits, AfterMerges
  <2>4. /\ \A s \in FreeSources : Groups(src[s], tgt, LeftTargets) = {}
        /\ \A t \in FreeTargets : Groups(tgt[t], src, LeftSources) = {}
    BY <2>1, <2>3, GroupsMonotone
  <2> QED BY <2>1, <2>2, <2>4
<1> QED BY <1>1, BooksKept, ExhaustedKept, PTL

\* What every pair was when it was reported stays true of it.
LEMMA BestKeptAlways == Spec => []BestKept
<1>1. Init => BestKept
  BY DEF Init, BestKept
<1>2. Bookkeeping /\ BestKept /\ [Next]_vars => BestKept'
  <2> SUFFICES ASSUME Bookkeeping, BestKept, [Next]_vars, NEW r \in results', r.confidence \in {90, 95},
                      NEW s \in r.sources, NEW u \in FreeTargets'
               PROVE  Pair(s, u)'.confidence <= r.confidence
    BY DEF BestKept
  <2>0. UNCHANGED input /\ FreeTargets' \subseteq FreeTargets /\ Pair(s, u)' = Pair(s, u)
    BY Monotone DEF Bookkeeping, Pair, input
  <2>1. CASE r \in results
    BY <2>0, <2>1 DEF BestKept
  <2>2. CASE PairSource /\ r \notin results
    <3>1. PICK t \in Targets : IsBest(i, t) /\ r = Result({i}, {t}, Pair(i, t).status, Pair(i, t).confidence)
      BY <2>2 DEF PairSource, Skip, Report
    <3>2. s = i /\ u \in FreeTargets /\ r.confidence = Pair(i, t).confidence
      BY <2>0, <3>1 DEF Result
    <3>3. CASE u \in Viable(i)
      BY <2>0, <3>1, <3>2, <3>3, PairAnswers DEF IsBest, Better
    <3>4. CASE u \notin Viable(i)
      BY <2>0, <3>2, <3>4, PairAnswers DEF Viable
    <3> QED  BY <3>3, <3>4
  <2>3. CASE ~PairSource /\ r \notin results
    BY <2>3 DEF Next, AllocateSource, AllocateTarget, EmitSource, EmitTarget, NextLoop, AllocationRaises,
            Skip, Report, Emit, Result, vars
  <2> QED BY <2>1, <2>2, <2>3
<1> QED BY <1>1, <1>2, BooksKept, PTL DEF Spec

\* A pair is the best its source could have had, as far as targets that stay
\* unmatched go.
THEOREM BestTaken == Spec => []NoBetterLeftOver
<1>1. Bookkeeping /\ BestKept => NoBetterLeftOver
  <2>1. Bookkeeping => LeftTargets \subseteq FreeTargets
    BY DEF Bookkeeping, LeftFree, LeftTargets, Result
  <2> QED BY <2>1 DEF BestKept, NoBetterLeftOver
<1> QED BY <1>1, BestKeptAlways, BooksKept, PTL

-----------------------------------------------------------------------------
(* Sums of money.                                                             *)

\* The total of a group is a sum, in whatever order it is made up.
LEMMA TotalAdds ==
  ASSUME NEW recs, NEW P, IsFiniteSet(P)
  PROVE  \E g : Adds(g, [p \in P |-> recs[p].amount], P) /\ Total(recs, P) = g[P]
<1> DEFINE worth == [p \in P |-> recs[p].amount]
           pick == [T \in SUBSET P |-> CHOOSE x \in T : TRUE]
           iter[T \in SUBSET P] ==
             IF T = {} THEN 0 ELSE recs[CHOOSE x \in T : TRUE].amount + iter[T \ {CHOOSE x \in T : TRUE}]
<1>1. \A T \in SUBSET P : T # {} => pick[T] \in T
  OBVIOUS
<1>2. \A T \in SUBSET P : pick[T] = CHOOSE x \in T : TRUE
  OBVIOUS
<1>3. PICK g : IsFold(g, worth, pick, P)
  <2> HIDE DEF worth, pick
  <2> QED  BY <1>1, FoldExists
<1>4. g = [T \in SUBSET P |-> IF T = {} THEN 0 ELSE recs[CHOOSE x \in T : TRUE].amount + g[T \ {CHOOSE x \in T : TRUE}]]
  BY <1>1, <1>2, <1>3 DEF IsFold
<1>5. iter = [T \in SUBSET P |-> IF T = {} THEN 0 ELSE recs[CHOOSE x \in T : TRUE].amount + iter[T \ {CHOOSE x \in T : TRUE}]]
  BY <1>4
<1>6. Total(recs, P) = iter[P]
  BY DEF Total, MapThenSumSet, MapThenFoldSet
<1> HIDE DEF iter
<1>7. Adds(iter, worth, P)
  BY <1>1, <1>2, <1>5 DEF Adds
<1> QED  BY <1>6, <1>7

\* And so is the money of one currency.
LEMMA MoneyAdds ==
  ASSUME NEW recs, NEW c, NEW P, IsFiniteSet(P)
  PROVE  \E g : Adds(g, [p \in P |-> InCurrency(recs, p, c)], P) /\ MoneyIn(recs, P, c) = g[P]
<1> DEFINE worth == [p \in P |-> InCurrency(recs, p, c)]
           pick == [T \in SUBSET P |-> CHOOSE x \in T : TRUE]
           iter[T \in SUBSET P] ==
             IF T = {} THEN 0 ELSE InCurrency(recs, CHOOSE x \in T : TRUE, c) + iter[T \ {CHOOSE x \in T : TRUE}]
<1>1. \A T \in SUBSET P : T # {} => pick[T] \in T
  OBVIOUS
<1>2. \A T \in SUBSET P : pick[T] = CHOOSE x \in T : TRUE
  OBVIOUS
<1>3. PICK g : IsFold(g, worth, pick, P)
  <2> HIDE DEF worth, pick
  <2> QED  BY <1>1, FoldExists
<1>4. g = [T \in SUBSET P |-> IF T = {} THEN 0 ELSE InCurrency(recs, CHOOSE x \in T : TRUE, c) + g[T \ {CHOOSE x \in T : TRUE}]]
  BY <1>1, <1>2, <1>3 DEF IsFold
<1>5. iter = [T \in SUBSET P |-> IF T = {} THEN 0 ELSE InCurrency(recs, CHOOSE x \in T : TRUE, c) + iter[T \ {CHOOSE x \in T : TRUE}]]
  BY <1>4
<1>6. MoneyIn(recs, P, c) = iter[P]
  BY DEF MoneyIn, MapThenSumSet, MapThenFoldSet
<1> HIDE DEF iter
<1>7. Adds(iter, worth, P)
  BY <1>1, <1>2, <1>5 DEF Adds
<1> QED  BY <1>6, <1>7

\* One record is worth its amount, in its currency.
LEMMA MoneyOfOne ==
  ASSUME NEW recs, NEW c, NEW p, InCurrency(recs, p, c) \in Int
  PROVE  MoneyIn(recs, {p}, c) = InCurrency(recs, p, c)
<1>1. IsFiniteSet({p})
  BY FS_Singleton
<1>2. PICK g : Adds(g, [x \in {p} |-> InCurrency(recs, x, c)], {p}) /\ MoneyIn(recs, {p}, c) = g[{p}]
  BY <1>1, MoneyAdds
<1>3. g[{p}] = InCurrency(recs, p, c) + g[{}] /\ g[{}] = 0
  <2>1. \E x \in {p} : g[{p}] = [y \in {p} |-> InCurrency(recs, y, c)][x] + g[{p} \ {x}]
    BY <1>2 DEF Adds
  <2>2. {p} \ {p} = {}
    OBVIOUS
  <2> QED  BY <1>2, <2>1, <2>2 DEF Adds
<1> QED  BY <1>2, <1>3

\* No records are worth nothing.
LEMMA MoneyOfNone == \A recs, c : MoneyIn(recs, {}, c) = 0
<1> TAKE recs, c
<1>1. PICK g : Adds(g, [x \in {} |-> InCurrency(recs, x, c)], {}) /\ MoneyIn(recs, {}, c) = g[{}]
  BY FS_EmptySet, MoneyAdds
<1> QED  BY <1>1 DEF Adds

\* A group of one currency is worth its total.
LEMMA MoneyOfGroup ==
  ASSUME NEW recs, NEW c, NEW own, NEW G, IsFiniteSet(G),
         \A p \in G : recs[p].amount \in Int /\ recs[p].currency = own
  PROVE  MoneyIn(recs, G, c) = IF c = own THEN Total(recs, G) ELSE 0
<1> DEFINE worth == [p \in G |-> InCurrency(recs, p, c)]
           amount == [p \in G |-> recs[p].amount]
<1>1. PICK g : Adds(g, worth, G) /\ MoneyIn(recs, G, c) = g[G]
  BY MoneyAdds
<1>2. PICK h : Adds(h, amount, G) /\ Total(recs, G) = h[G]
  BY TotalAdds
<1>3. CASE c = own
  <2>1. \A p \in G : worth[p] = amount[p] /\ amount[p] \in Int
    BY <1>3 DEF InCurrency
  <2> HIDE DEF worth, amount
  <2>2. g[G] = h[G]
    BY <1>1, <1>2, <2>1, SumUnique
  <2> QED  BY <1>1, <1>2, <1>3, <2>2
<1>4. CASE c # own
  <2>1. \A p \in G : worth[p] = 0 /\ worth[p] \in Nat
    BY <1>4 DEF InCurrency
  <2> HIDE DEF worth
  <2>2. g[G] = 0
    BY <1>1, <2>1, SumBounds
  <2> QED  BY <1>1, <1>4, <2>2
<1> QED  BY <1>3, <1>4

\* What two groups that share nothing are worth.
LEMMA MoneyOfUnion ==
  ASSUME NEW recs, NEW c, NEW A, NEW B, IsFiniteSet(A), IsFiniteSet(B), A \cap B = {},
         \A p \in A \cup B : InCurrency(recs, p, c) \in Int
  PROVE  MoneyIn(recs, A \cup B, c) = MoneyIn(recs, A, c) + MoneyIn(recs, B, c)
<1> DEFINE S == A \cup B
           whole == [p \in S |-> InCurrency(recs, p, c)]
<1>1. IsFiniteSet(S) /\ A \in SUBSET S /\ B \in SUBSET S
  BY FS_Union
<1>2. \A p \in S : whole[p] = InCurrency(recs, p, c) /\ whole[p] \in Int
  OBVIOUS
<1>3. PICK g : Adds(g, whole, S) /\ MoneyIn(recs, S, c) = g[S]
  <2> HIDE DEF S
  <2> QED  BY <1>1, MoneyAdds
<1> HIDE DEF S, whole
<1>4. ASSUME NEW P \in {A, B} PROVE MoneyIn(recs, P, c) = g[P]
  <2> DEFINE worth == [p \in P |-> InCurrency(recs, p, c)]
  <2>1. IsFiniteSet(P) /\ P \in SUBSET S
    BY <1>1
  <2>2. PICK h : Adds(h, worth, P) /\ MoneyIn(recs, P, c) = h[P]
    BY <2>1, MoneyAdds
  <2>3. Adds(g, whole, P)
    BY <1>3, <2>1 DEF Adds
  <2>4. \A p \in P : whole[p] = worth[p] /\ worth[p] \in Int
    BY <1>2, <2>1
  <2> HIDE DEF worth
  <2>5. g[P] = h[P]
    BY <2>1, <2>2, <2>3, <2>4, SumUnique
  <2> QED  BY <2>2, <2>5
<1>5. g[A \cup B] = g[A] + g[B]
  <2>1. \A p \in S : whole[p] \in Int
    BY <1>2
  <2>2. \A D \in SUBSET S : A \cap D = {} => g[A \cup D] = g[A] + g[D]
    BY <1>1, <1>3, <2>1, SumOfUnion
  <2> QED  BY <1>1, <2>2
<1> QED  BY <1>3, <1>4, <1>5 DEF S

\* The records of either side are finitely many and have integer amounts.
LEMMA RecordsFinite ==
  ASSUME TypeOK
  PROVE  /\ IsFiniteSet(Sources) /\ IsFiniteSet(Targets)
         /\ \A s \in Sources : src[s].amount \in Int
         /\ \A t \in Targets : tgt[t].amount \in Int
<1>1. \A shape \in Shapes : shape.amount \in Int
  BY MatchAssumption DEF ShapeType
<1>2. IsFiniteSet(1..Len(sid)) /\ IsFiniteSet(1..Len(tid))
  BY Positions, FS_Interval
<1> QED  BY <1>1, <1>2, Positions DEF TypeOK

\* A result matched on its amount is worth the same on both sides: a pair of one
\* amount and one currency, or a record and the group that adds up to it.
LEMMA ReportedEven ==
  ASSUME TypeOK, [Next]_vars, NEW r \in results', r \notin results,
         r.status = "MATCHED", r.confidence # 100, NEW c
  PROVE  MoneyIn(src, r.sources, c) = MoneyIn(tgt, r.targets, c)
<1>0. /\ IsFiniteSet(Sources) /\ IsFiniteSet(Targets)
      /\ \A s \in Sources : src[s].amount \in Int /\ InCurrency(src, s, c) \in Int
      /\ \A t \in Targets : tgt[t].amount \in Int /\ InCurrency(tgt, t, c) \in Int
  BY RecordsFinite DEF InCurrency
<1>1. CASE PairSource
  <2>1. PICK t \in Targets : r = Result({i}, {t}, Pair(i, t).status, Pair(i, t).confidence)
    BY <1>1 DEF PairSource, Skip, Report
  <2>2. i \in Sources
    BY <1>1 DEF PairSource, Iterate
  <2>3. Pair(i, t).status = "MATCHED" /\ Pair(i, t).confidence # 100
    BY <2>1 DEF Result
  <2>4. src[i].currency = tgt[t].currency /\ Abs(src[i].amount - tgt[t].amount) = 0
    BY <2>3 DEF Pair, MatchPair, ByAmount, Verdict
  <2>5. src[i].amount = tgt[t].amount
    BY <1>0, <2>2, <2>4 DEF Abs
  <2>6. InCurrency(src, i, c) = InCurrency(tgt, t, c)
    BY <2>4, <2>5 DEF InCurrency
  <2> QED  BY <1>0, <2>1, <2>2, <2>6, MoneyOfOne DEF Result
<1>2. CASE AllocateSource
  <2>1. PICK G \in SUBSET Targets : IsFirst(G, TargetGroups) /\ r = Result({i}, G, "MATCHED", 88)
    BY <1>2 DEF AllocateSource, Skip, Report
  <2>2. i \in Sources
    BY <1>2 DEF AllocateSource, Iterate
  <2>3. /\ \A t \in G : tgt[t].currency = src[i].currency
        /\ Total(tgt, G) = src[i].amount
    BY <2>1 DEF IsFirst, TargetGroups, Groups, Fits
  <2>4. MoneyIn(tgt, G, c) = IF c = src[i].currency THEN Total(tgt, G) ELSE 0
    <3>1. IsFiniteSet(G)
      BY <1>0, FS_Subset
    <3>2. PICK own : own = src[i].currency
      OBVIOUS
    <3>3. \A t \in G : tgt[t].amount \in Int /\ tgt[t].currency = own
      BY <1>0, <2>3, <3>2
    <3>4. MoneyIn(tgt, G, c) = IF c = own THEN Total(tgt, G) ELSE 0
      BY <3>1, <3>3, MoneyOfGroup
    <3> QED  BY <3>2, <3>4
  <2> QED  BY <1>0, <2>1, <2>2, <2>3, <2>4, MoneyOfOne DEF Result, InCurrency
<1>3. CASE AllocateTarget
  <2>1. PICK G \in SUBSET Sources : IsFirst(G, SourceGroups) /\ r = Result(G, {i}, "MATCHED", 88)
    BY <1>3 DEF AllocateTarget, Skip, Report
  <2>2. i \in Targets
    BY <1>3 DEF AllocateTarget, Iterate
  <2>3. /\ \A s \in G : src[s].currency = tgt[i].currency
        /\ Total(src, G) = tgt[i].amount
    BY <2>1 DEF IsFirst, SourceGroups, Groups, Fits
  <2>4. MoneyIn(src, G, c) = IF c = tgt[i].currency THEN Total(src, G) ELSE 0
    <3>1. IsFiniteSet(G)
      BY <1>0, FS_Subset
    <3>2. PICK own : own = tgt[i].currency
      OBVIOUS
    <3>3. \A s \in G : src[s].amount \in Int /\ src[s].currency = own
      BY <1>0, <2>3, <3>2
    <3>4. MoneyIn(src, G, c) = IF c = own THEN Total(src, G) ELSE 0
      BY <3>1, <3>3, MoneyOfGroup
    <3> QED  BY <3>2, <3>4
  <2> QED  BY <1>0, <2>1, <2>2, <2>3, <2>4, MoneyOfOne DEF Result, InCurrency
<1>4. CASE EmitSource \/ EmitTarget
  BY <1>4 DEF EmitSource, EmitTarget, Emit, Skip, Result
<1> QED  BY <1>1, <1>2, <1>3, <1>4 DEF Next, NextLoop, AllocationRaises, vars

\* A step adds at most one result.
LEMMA OneResult ==
  ASSUME [Next]_vars
  PROVE  results' = results \/ \E r : results' = results \cup {r}
BY DEF Next, PairSource, AllocateSource, AllocateTarget, EmitSource, EmitTarget, NextLoop, AllocationRaises,
   Skip, Report, Emit, vars

\* In every currency, what was matched on its amount adds up to the same on either
\* side: a new result is worth the same on both, and shares no record with those
\* before it, so what it adds to the one side it adds to the other.
THEOREM BooksAlwaysBalance == Spec => []BooksBalance
<1> DEFINE From(R) == UNION {r.sources : r \in R}
           Into(R) == UNION {r.targets : r \in R}
<1>1. Init => BooksBalance
  <2> SUFFICES ASSUME Init, NEW c PROVE MoneyIn(src, From(OnAmount), c) = MoneyIn(tgt, Into(OnAmount), c)
    BY DEF BooksBalance
  <2>1. From(OnAmount) = {} /\ Into(OnAmount) = {}
    BY DEF Init, OnAmount
  <2>2. MoneyIn(src, {}, c) = 0 /\ MoneyIn(tgt, {}, c) = 0
    BY MoneyOfNone
  <2> QED  BY <2>1, <2>2
<1>2. Bookkeeping /\ TypeOK' /\ UsedOnce' /\ BooksBalance /\ [Next]_vars => BooksBalance'
  <2> SUFFICES ASSUME Bookkeeping, TypeOK', UsedOnce', BooksBalance, [Next]_vars
               PROVE  BooksBalance'
    OBVIOUS
  <2>0. TypeOK /\ UNCHANGED <<sid, tid, src, tgt>> /\ Sources' = Sources /\ Targets' = Targets
    BY Monotone DEF Bookkeeping, input, Sources, Targets
  <2> SUFFICES ASSUME DistinctIds',
                      NEW c \in {src[s].currency : s \in Sources} \cup {tgt[t].currency : t \in Targets}
               PROVE  MoneyIn(src, From(OnAmount'), c) = MoneyIn(tgt, Into(OnAmount'), c)
    BY <2>0 DEF BooksBalance
  <2>1. MoneyIn(src, From(OnAmount), c) = MoneyIn(tgt, Into(OnAmount), c)
    <3>1. DistinctIds
      BY <2>0 DEF DistinctIds
    <3> QED  BY <3>1 DEF BooksBalance
  <2>2. CASE OnAmount' = OnAmount
    BY <2>1, <2>2
  <2>3. CASE OnAmount' # OnAmount
    <3>1. PICK r : results' = results \cup {r}
      BY <2>3, OneResult DEF OnAmount
    <3>2. /\ r \notin results /\ r \in results' /\ r.status = "MATCHED" /\ r.confidence # 100
          /\ OnAmount' = OnAmount \cup {r}
      BY <2>3, <3>1 DEF OnAmount
    <3>3. MoneyIn(src, r.sources, c) = MoneyIn(tgt, r.targets, c)
      BY <2>0, <3>2, ReportedEven
    <3>4. /\ From(OnAmount') = From(OnAmount) \cup r.sources /\ From(OnAmount) \cap r.sources = {}
          /\ Into(OnAmount') = Into(OnAmount) \cup r.targets /\ Into(OnAmount) \cap r.targets = {}
      <4>1. \A q \in OnAmount : q.sources \cap r.sources = {} /\ q.targets \cap r.targets = {}
        BY <3>1, <3>2 DEF UsedOnce, OnAmount
      <4> QED  BY <3>2, <4>1
    <3>5. /\ r.sources \subseteq Sources /\ r.targets \subseteq Targets
          /\ From(OnAmount) \subseteq Sources /\ Into(OnAmount) \subseteq Targets
      <4>1. \A q \in results' : q.sources \subseteq Sources /\ q.targets \subseteq Targets
        BY <2>0 DEF TypeOK
      <4> QED  BY <3>1, <3>2, <4>1 DEF OnAmount
    <3>6. /\ IsFiniteSet(Sources) /\ IsFiniteSet(Targets)
          /\ \A s \in Sources : InCurrency(src, s, c) \in Int
          /\ \A t \in Targets : InCurrency(tgt, t, c) \in Int
      BY <2>0, RecordsFinite DEF InCurrency
    <3> HIDE DEF From, Into
    <3>7. /\ IsFiniteSet(r.sources) /\ IsFiniteSet(From(OnAmount))
          /\ IsFiniteSet(r.targets) /\ IsFiniteSet(Into(OnAmount))
      BY <3>5, <3>6, FS_Subset
    <3>8. MoneyIn(src, From(OnAmount'), c) = MoneyIn(src, From(OnAmount), c) + MoneyIn(src, r.sources, c)
      BY <3>4, <3>5, <3>6, <3>7, MoneyOfUnion
    <3>9. MoneyIn(tgt, Into(OnAmount'), c) = MoneyIn(tgt, Into(OnAmount), c) + MoneyIn(tgt, r.targets, c)
      BY <3>4, <3>5, <3>6, <3>7, MoneyOfUnion
    <3> QED  BY <2>1, <3>3, <3>8, <3>9
  <2> QED  BY <2>2, <2>3
<1> QED  BY <1>1, <1>2, BooksKept, TypeCorrect, ConsumedOnce, PTL DEF Spec

-----------------------------------------------------------------------------
(* GraphReconciliation. *)

\* The used nodes are the members of the paths, and the paths are apart.
UsedAreMembers ==
  /\ taken = UNION {path.members : path \in paths}
  /\ \A path, other \in paths : path # other => path.members \cap other.members = {}

\* Before the end nothing is unmatched; at the end everything in no path is.
RestUnmatched ==
  stage = "done" => unmatched = (DOMAIN node) \ UNION {path.members : path \in paths}

MembersAccounted == UsedAreMembers /\ RestUnmatched

-----------------------------------------------------------------------------
\* Selecting a path none of whose records is used keeps the paths apart.
LEMMA SelectApart ==
  ASSUME NEW path, UsedAreMembers, path.members \cap taken = {}, Select(path)
  PROVE  UsedAreMembers'
<1>1. paths' = paths \cup {path} /\ taken' = taken \cup path.members
  BY DEF Select
<1>2. ASSUME NEW other \in paths PROVE path.members \cap other.members = {}
  BY DEF UsedAreMembers
<1>3. taken' = UNION {p.members : p \in paths'}
  BY <1>1 DEF UsedAreMembers
<1>4. \A p, q \in paths' : p # q => p.members \cap q.members = {}
  BY <1>1, <1>2 DEF UsedAreMembers
<1> QED  BY <1>3, <1>4 DEF UsedAreMembers

\* An allocation is a free anchor and a group of free records.
LEMMA AllocatedFree ==
  ASSUME NEW kind, NEW u, u \notin taken, NEW G \in AllocationGroups(kind, u)
  PROVE  Allocated(kind, u, G).members \cap taken = {}
<1>1. G \subseteq Free(kind, u)
  BY DEF AllocationGroups
<1>2. G \cap taken = {}
  BY <1>1 DEF Free
<1>3. Allocated(kind, u, G).members = {u} \cup G
  BY DEF Allocated, GraphPath
<1> QED  BY <1>2, <1>3

\* One iteration of either allocation pass.
LEMMA AllocateApart ==
  ASSUME NEW kind \in {"one_to_many", "many_to_one"}, MembersAccounted, Allocate(kind)
  PROVE  MembersAccounted'
<1>1. stage = kind /\ stage' \in {kind, "raised"}
  BY DEF Allocate
<1>2. RestUnmatched'
  BY <1>1 DEF RestUnmatched
<1>3. CASE UNCHANGED <<taken, paths>>
  BY <1>2, <1>3 DEF MembersAccounted, UsedAreMembers
<1>4. CASE ~UNCHANGED <<taken, paths>>
  <2>1. /\ Head(todo) \notin taken
        /\ \E G \in AllocationGroups(kind, Head(todo)) : Select(Allocated(kind, Head(todo), G))
    BY <1>4 DEF Allocate
  <2>2. PICK G \in AllocationGroups(kind, Head(todo)) : Select(Allocated(kind, Head(todo), G))
    BY <2>1
  <2>3. Allocated(kind, Head(todo), G).members \cap taken = {}
    BY <2>1, AllocatedFree
  <2>4. UsedAreMembers'
    BY <2>2, <2>3, SelectApart DEF MembersAccounted
  <2> QED  BY <1>2, <2>4 DEF MembersAccounted
<1> QED  BY <1>3, <1>4

\* One pop of the search.
LEMMA PopApart == ASSUME MembersAccounted, Pop PROVE MembersAccounted'
<1>1. stage = "paths" /\ stage' = stage
  BY DEF Pop
<1>2. RestUnmatched'
  BY <1>1 DEF RestUnmatched
<1>3. CASE UNCHANGED <<taken, paths>>
  BY <1>2, <1>3 DEF MembersAccounted, UsedAreMembers
<1>4. CASE ~UNCHANGED <<taken, paths>>
  <2>1. \E p \in frontier : Acceptable(p) /\ Select(GraphPath("chain", p[1], Nodes(p), Score(p)))
    BY <1>4 DEF Pop
  <2>2. PICK p \in frontier : Acceptable(p) /\ Select(GraphPath("chain", p[1], Nodes(p), Score(p)))
    BY <2>1
  <2>3. GraphPath("chain", p[1], Nodes(p), Score(p)).members \cap taken = {}
    BY <2>2 DEF GraphPath, Acceptable
  <2>4. UsedAreMembers'
    BY <2>2, <2>3, SelectApart DEF MembersAccounted
  <2> QED  BY <1>2, <2>4 DEF MembersAccounted
<1> QED  BY <1>3, <1>4

\* The steps that select no path.
LEMMA RestApart ==
  ASSUME MembersAccounted,
         BuildGraph \/ AllocateTargets \/ BeginSearch \/ StartSearch \/ FinishGraph \/ UNCHANGED graphVars
  PROVE  MembersAccounted'
<1>1. UNCHANGED <<taken, paths>>
  BY DEF BuildGraph, AllocateTargets, BeginSearch, StartSearch, FinishGraph, graphVars
<1>2. UsedAreMembers'
  BY <1>1 DEF MembersAccounted, UsedAreMembers
<1>3. RestUnmatched'
  <2>1. ASSUME FinishGraph PROVE RestUnmatched'
    BY <2>1 DEF FinishGraph, RestUnmatched, records
  <2>2. ASSUME UNCHANGED graphVars PROVE RestUnmatched'
    BY <2>2 DEF graphVars, RestUnmatched, MembersAccounted
  <2>3. ASSUME StartSearch PROVE RestUnmatched'
    BY <2>3 DEF StartSearch, RestUnmatched
  <2>4. ASSUME BuildGraph \/ AllocateTargets \/ BeginSearch PROVE RestUnmatched'
    BY <2>4 DEF BuildGraph, AllocateTargets, BeginSearch, RestUnmatched
  <2> QED  BY <2>1, <2>2, <2>3, <2>4
<1> QED  BY <1>2, <1>3 DEF MembersAccounted

\* A selection takes what is free and takes all of it.
LEMMA AccountedInductive == MembersAccounted /\ [GraphNext]_graphVars => MembersAccounted'
<1> SUFFICES ASSUME MembersAccounted, [GraphNext]_graphVars PROVE MembersAccounted'
  OBVIOUS
<1>1. CASE Allocate("one_to_many")
  BY <1>1, AllocateApart
<1>2. CASE Allocate("many_to_one")
  BY <1>2, AllocateApart
<1>3. CASE Pop
  BY <1>3, PopApart
<1>4. CASE BuildGraph \/ AllocateTargets \/ BeginSearch \/ StartSearch \/ FinishGraph \/ UNCHANGED graphVars
  BY <1>4, RestApart
<1> QED  BY <1>1, <1>2, <1>3, <1>4 DEF GraphNext

\* What is accounted for is in one path, or unmatched.
LEMMA AccountedOnce == MembersAccounted => OnePathPerRecord
BY DEF MembersAccounted, UsedAreMembers, RestUnmatched, OnePathPerRecord

\* No record is in two of the selected paths, whichever pass selected them, and
\* at the end exactly the records of no path are unmatched.
THEOREM UsedInOnePath == GraphSpec => []OnePathPerRecord
<1>1. GraphInit => MembersAccounted
  BY DEF GraphInit, MembersAccounted, UsedAreMembers, RestUnmatched
<1> QED  BY <1>1, AccountedInductive, AccountedOnce, PTL DEF GraphSpec

-----------------------------------------------------------------------------
\* What GroupsBalance says of one path that is an allocation.
Balances(shape, path) ==
  LET u == path.anchor
      G == path.members \ {u}
  IN /\ \A v \in G : shape[v].amount > 0
     /\ \A v, w \in G : shape[v].type = shape[w].type /\ shape[v].currency = shape[u].currency
     /\ IF path.kind = "one_to_many"
        THEN shape[u].amount - AmountsOf(shape, G) \in {0, FeesOf(shape, G \cup {u})}
        ELSE AmountsOf(shape, G) - shape[u].amount \in {0, FeesOf(shape, G \cup {u})}

\* While there are allocations to find, an edge joins two different records, of
\* finitely many.
EdgesApart ==
  /\ stage = "idle" => paths = {}
  /\ stage \in {"one_to_many", "many_to_one"} =>
       IsFiniteSet(DOMAIN node) /\ \A e \in edges : e[1] # e[2]

InBalance == EdgesApart /\ \A path \in paths : path.kind # "chain" => Balances(node, path)

\* An edge joins two different records.
LEMMA NoLoops ==
  ASSUME NEW order \in Arrivals, NEW shape \in [1..Len(order) -> GraphShapes]
  PROVE  IsFiniteSet(DOMAIN shape) /\ \A e \in CandidateEdges(shape) : e[1] # e[2]
<1>1. Len(order) \in Nat
  BY GraphAssumption
<1>2. IsFiniteSet(DOMAIN shape)
  BY <1>1, FS_Interval
<1>3. \A type : Rank(type) \in Int
  BY DEF Rank, TypeOrder
<1>4. \A u \in DOMAIN shape : ~Directed(shape, u, u)
  BY <1>1, <1>3 DEF Directed
<1> QED  BY <1>2, <1>4 DEF CandidateEdges

\* The records of a group have one type.
LEMMA OneType ==
  ASSUME NEW G, IsFiniteSet(G), Cardinality({node[v].type : v \in G}) = 1
  PROVE  \A v, w \in G : node[v].type = node[w].type
<1> DEFINE types == {node[v].type : v \in G}
           typeOf == [v \in G |-> node[v].type]
<1>1. typeOf \in Surjection(G, types)
  BY DEF Surjection
<1>2. IsFiniteSet(types)
  BY <1>1, FS_Surjection
<1>3. PICK type : types = {type}
  BY <1>2, FS_Singleton
<1> QED  BY <1>3

\* An allocation that is selected balances.
LEMMA AllocatedBalances ==
  ASSUME NEW kind \in {"one_to_many", "many_to_one"}, EdgesApart, stage = kind,
         NEW u, NEW G \in AllocationGroups(kind, u), Payable(G)
  PROVE  Balances(node, Allocated(kind, u, G))
<1> DEFINE path == Allocated(kind, u, G)
<1>1. G \subseteq Free(kind, u)
  BY DEF AllocationGroups
<1>2. u \notin G
  BY <1>1 DEF Free, EdgesApart
<1>3. IsFiniteSet(G)
  BY <1>1, FS_Subset DEF Free, EdgesApart
<1>4. path.kind = kind /\ path.anchor = u /\ path.members = {u} \cup G
  BY DEF Allocated, GraphPath
<1>5. path.members \ {path.anchor} = G
  BY <1>2, <1>4
<1>6. \A v, w \in G : node[v].type = node[w].type
  BY <1>3, OneType DEF AllocationGroups
<1>7. \A v \in G : node[v].currency = node[u].currency /\ node[v].amount > 0
  BY DEF AllocationGroups, Payable
<1>8. Missing(kind, u, G) \in {0, Fees(G \cup {u})}
  BY DEF AllocationGroups, Balanced
<1> HIDE DEF path
<1>9. Balances(node, path)
  BY <1>4, <1>5, <1>6, <1>7, <1>8 DEF Balances, Missing, Amounts, Fees
<1> QED  BY <1>9 DEF path

\* A group is balanced when it is selected, and no record changes.
LEMMA InBalanceInductive == InBalance /\ [GraphNext]_graphVars => InBalance'
<1> SUFFICES ASSUME InBalance, [GraphNext]_graphVars PROVE InBalance'
  OBVIOUS
<1>1. CASE BuildGraph
  <2>1. paths' = {} /\ stage' = "one_to_many"
    BY <1>1 DEF BuildGraph, InBalance, EdgesApart
  <2>2. IsFiniteSet(DOMAIN node') /\ \A e \in edges' : e[1] # e[2]
    BY <1>1, NoLoops DEF BuildGraph
  <2> QED  BY <2>1, <2>2 DEF InBalance, EdgesApart
<1>2. ASSUME NEW kind \in {"one_to_many", "many_to_one"}, Allocate(kind)
      PROVE  InBalance'
  <2>1. stage = kind /\ stage' \in {kind, "raised"} /\ UNCHANGED <<node, edges>>
    BY <1>2 DEF Allocate, records
  <2>2. EdgesApart'
    BY <2>1 DEF InBalance, EdgesApart
  <2>3. CASE UNCHANGED paths
    BY <2>1, <2>2, <2>3 DEF InBalance
  <2>4. CASE ~UNCHANGED paths
    <3>1. PICK G \in AllocationGroups(kind, Head(todo)) : Payable(G) /\ Select(Allocated(kind, Head(todo), G))
      BY <1>2, <2>4 DEF Allocate
    <3>2. Balances(node, Allocated(kind, Head(todo), G))
      BY <2>1, <3>1, AllocatedBalances DEF InBalance
    <3>3. paths' = paths \cup {Allocated(kind, Head(todo), G)}
      BY <3>1 DEF Select
    <3> QED  BY <2>1, <2>2, <3>2, <3>3 DEF InBalance
  <2> QED  BY <2>3, <2>4
<1>3. CASE Pop
  <2>1. stage = "paths" /\ stage' = "paths" /\ UNCHANGED node
    BY <1>3 DEF Pop, records
  <2>2. \A path \in paths' : path \in paths \/ path.kind = "chain"
    BY <1>3 DEF Pop, Select, GraphPath
  <2> QED  BY <2>1, <2>2 DEF InBalance, EdgesApart
<1>4. CASE AllocateTargets \/ BeginSearch \/ StartSearch \/ FinishGraph \/ UNCHANGED graphVars
  <2>1. UNCHANGED <<node, paths>>
    BY <1>4 DEF AllocateTargets, BeginSearch, StartSearch, FinishGraph, records, graphVars
  <2>2. EdgesApart'
    BY <1>4 DEF AllocateTargets, BeginSearch, StartSearch, FinishGraph, records, graphVars, InBalance, EdgesApart
  <2> QED  BY <2>1, <2>2 DEF InBalance
<1> QED  BY <1>1, <1>2, <1>3, <1>4 DEF GraphNext

\* Balanced groups, as the property has it.
LEMMA InBalanceBalances == InBalance => GroupsBalance
BY DEF InBalance, Balances, GroupsBalance, Chains, Payable, Amounts, Fees

\* An allocation conserves money: its members are positive, of one type and one
\* currency, and differ from their anchor by nothing or by exactly their fees.
THEOREM AllocationsBalance == GraphSpec => []GroupsBalance
<1>1. GraphInit => InBalance
  BY DEF GraphInit, InBalance, EdgesApart
<1> QED  BY <1>1, InBalanceInductive, InBalanceBalances, PTL DEF GraphSpec

-----------------------------------------------------------------------------
\* 100 hundredths, as the score of a path counts them.
Unit == 100^(MaxHops - 2)

\* The powers of a hundred that a score may be a fraction of.
LEMMA HundredTimes ==
  ASSUME NEW n \in 0..3
  PROVE  100^n \in Nat /\ 100^n > 0 /\ 100^(n + 1) \in Nat /\ 100^(n + 1) = 100 * 100^n
<1>1. /\ 100^0 = 1 /\ 100^1 = 100 /\ 100^2 = 10000 /\ 100^3 = 1000000 /\ 100^4 = 100000000
  BY SMT
<1>2. CASE n = 0
  <2>1. n + 1 = 1
    BY <1>2
  <2> QED  BY SMT, <1>1, <1>2, <2>1
<1>3. CASE n = 1
  <2>1. n + 1 = 2
    BY <1>3
  <2> QED  BY SMT, <1>1, <1>3, <2>1
<1>4. CASE n = 2
  <2>1. n + 1 = 3
    BY <1>4
  <2> QED  BY SMT, <1>1, <1>4, <2>1
<1>5. CASE n = 3
  <2>1. n + 1 = 4
    BY <1>5
  <2> QED  BY SMT, <1>1, <1>5, <2>1
<1> QED  BY SMT, <1>2, <1>3, <1>4, <1>5

\* The unit of a score is a positive number.
LEMMA Hundreds ==
  /\ Unit \in Nat /\ Unit > 0
  /\ 100^(MaxHops - 1) = 100 * Unit
  /\ MaxHops \in 2..5
<1>1. MaxHops \in 2..5
  BY GraphAssumption
<1>2. MaxHops - 2 \in 0..3 /\ MaxHops - 1 = (MaxHops - 2) + 1
  BY <1>1
<1> QED  BY <1>1, <1>2, HundredTimes DEF Unit

\* The scores an edge can have.
LEMMA EdgeScores ==
  ASSUME NEW a, NEW b
  PROVE  /\ EdgeScore(a, b) \in {50, 80, 90, 95}
         /\ EdgeScore(a, b) >= 90 <=> a.amount = b.amount
         /\ EdgeScore(a, b) = 95 <=> a.amount = b.amount /\ a.date = b.date
BY DEF EdgeScore

\* The recursion a score is computed with.
Multiplies(product, p) ==
  /\ product[1] = 100^(MaxHops - Len(p))
  /\ \A k \in 2..Len(p) : product[k] = EdgeScore(node[p[k - 1]], node[p[k]]) * product[k - 1]
  /\ Score(p) = product[Len(p)]

\* The score of a path one edge longer is the score so far times that of the
\* edge.
LEMMA ScoreMultiplies ==
  ASSUME NEW p, Len(p) \in Nat, Len(p) >= 1, DOMAIN p = 1..Len(p)
  PROVE  \E product : Multiplies(product, p)
<1> DEFINE product[k \in DOMAIN p] ==
             IF k = 1 THEN 100^(MaxHops - Len(p)) ELSE EdgeScore(node[p[k - 1]], node[p[k]]) * product[k - 1]
           weight == [k \in DOMAIN p |-> EdgeScore(node[p[k - 1]], node[p[k]])]
<1>1. Len(p) \in Nat /\ DOMAIN p = 1..Len(p)
  OBVIOUS
<1>2. PICK f : IsProduct(f, 100^(MaxHops - Len(p)), weight, Len(p))
  <2> HIDE DEF weight
  <2> QED  BY <1>1, ProductExists
<1>3. f = [k \in DOMAIN p |->
             IF k = 1 THEN 100^(MaxHops - Len(p)) ELSE EdgeScore(node[p[k - 1]], node[p[k]]) * f[k - 1]]
  BY <1>1, <1>2 DEF IsProduct
<1>4. product = [k \in DOMAIN p |->
             IF k = 1 THEN 100^(MaxHops - Len(p)) ELSE EdgeScore(node[p[k - 1]], node[p[k]]) * product[k - 1]]
  BY <1>3
<1>5. Score(p) = product[Len(p)]
  BY DEF Score
<1> HIDE DEF product
<1>6. Multiplies(product, p)
  BY <1>1, <1>4, <1>5 DEF Multiplies
<1> QED  BY <1>6

\* A path of one record is certain.
LEMMA ScoreOfStart ==
  ASSUME NEW u \in DOMAIN node
  PROVE  Score(<<u>>) = 100 * Unit
<1>1. PICK product : Multiplies(product, <<u>>)
  BY ScoreMultiplies, Len(<<u>>) = 1, DOMAIN <<u>> = 1..1
<1> QED  BY <1>1, Hundreds, Len(<<u>>) = 1 DEF Multiplies

\* One more edge multiplies the score by that of the edge.
LEMMA ScoreOfAppend ==
  ASSUME NEW p \in Seq(DOMAIN node), Len(p) \in 1..(MaxHops - 1), NEW v \in DOMAIN node
  PROVE  /\ Score(p) \in Nat /\ Score(Append(p, v)) \in Nat
         /\ 100 * Score(Append(p, v)) = EdgeScore(node[End(p)], node[v]) * Score(p)
<1> DEFINE q == Append(p, v)
           n == Len(p)
<1>1. /\ q \in Seq(DOMAIN node) /\ Len(q) = n + 1 /\ n \in Nat /\ n >= 1
      /\ \A k \in 1..n : q[k] = p[k]
      /\ q[n + 1] = v /\ n \in 1..(MaxHops - 1) /\ DOMAIN p = 1..n /\ DOMAIN q = 1..(n + 1)
  OBVIOUS
<1>2. PICK f : Multiplies(f, p)
  BY <1>1, ScoreMultiplies
<1>3. PICK g : Multiplies(g, q)
  <2> HIDE DEF q
  <2>1. Len(q) \in Nat /\ Len(q) >= 1 /\ DOMAIN q = 1..Len(q)
    BY <1>1
  <2> QED  BY <2>1, ScoreMultiplies
<1>4. f[1] \in Nat /\ g[1] \in Nat /\ f[1] = 100 * g[1]
  <2> HIDE DEF n
  <2>1. MaxHops - n \in 0..4 /\ MaxHops - (n + 1) \in 0..3 /\ MaxHops - n = (MaxHops - (n + 1)) + 1
    BY <1>1, Hundreds
  <2>2. f[1] = 100^(MaxHops - n) /\ g[1] = 100^(MaxHops - (n + 1))
    BY <1>1, <1>2, <1>3 DEF Multiplies, n
  <2>3. PICK m \in 0..3 : m = MaxHops - (n + 1)
    BY <2>1
  <2>4. f[1] = 100^(m + 1) /\ g[1] = 100^m
    BY <2>1, <2>2, <2>3
  <2>5. 100^(m + 1) = 100 * 100^m /\ 100^m \in Nat
    BY HundredTimes
  <2> QED  BY <2>4, <2>5
<1> DEFINE Reached == {k \in Nat : k + 1 \in 1..n => f[k + 1] \in Nat /\ g[k + 1] \in Nat /\ f[k + 1] = 100 * g[k + 1]}
<1>5. 0 \in Reached
  BY <1>4
<1>6. ASSUME NEW k \in Nat, k \in Reached PROVE k + 1 \in Reached
  <2> SUFFICES ASSUME (k + 1) + 1 \in 1..n
               PROVE  f[(k + 1) + 1] \in Nat /\ g[(k + 1) + 1] \in Nat /\ f[(k + 1) + 1] = 100 * g[(k + 1) + 1]
    OBVIOUS
  <2> DEFINE m == (k + 1) + 1
             s == EdgeScore(node[p[k + 1]], node[p[m]])
  <2>1. k + 1 \in 1..n /\ m \in 2..n /\ m \in 2..(n + 1) /\ m - 1 = k + 1
    BY <1>1
  <2>2. f[k + 1] \in Nat /\ g[k + 1] \in Nat /\ f[k + 1] = 100 * g[k + 1]
    BY <1>6, <2>1
  <2>3. f[m] = s * f[k + 1] /\ g[m] = s * g[k + 1]
    <3>1. q[m] = p[m] /\ q[k + 1] = p[k + 1]
      BY <1>1, <2>1
    <3> HIDE DEF m, n, q
    <3> QED  BY <1>1, <1>2, <1>3, <2>1, <3>1 DEF Multiplies, n
  <2>4. s \in Nat
    BY EdgeScores
  <2> HIDE DEF s, m, n
  <2> QED  BY <2>2, <2>3, <2>4 DEF m
<1>7. f[n] \in Nat /\ g[n] \in Nat /\ f[n] = 100 * g[n]
  <2>1. Nat \subseteq Reached
    <3> HIDE DEF Reached
    <3> QED  BY <1>5, <1>6, Counting
  <2>2. n - 1 \in Reached
    BY <1>1, <2>1
  <2> QED  BY <1>1, <2>2
<1>8. Score(p) = f[n] /\ Score(q) = g[n + 1] /\ g[n + 1] = EdgeScore(node[p[n]], node[v]) * g[n]
  <2>1. n + 1 \in 2..(n + 1) /\ (n + 1) - 1 = n
    BY <1>1
  <2> HIDE DEF n, q
  <2> QED  BY <1>1, <1>2, <1>3, <2>1 DEF Multiplies, n
<1>9. EdgeScore(node[p[n]], node[v]) \in Nat
  BY EdgeScores
<1> HIDE DEF q, n
<1> QED  BY <1>7, <1>8, <1>9 DEF End, q, n

\* A score is of the records of its path.
LEMMA ScoreKept == ASSUME UNCHANGED node, NEW CONSTANT p PROVE Score(p)' = Score(p)
BY DEF Score

\* An amount has between one and nine digits.
LEMMA DigitsNatural == ASSUME NEW a \in Int, a > 0, a < 10^MaxDigits PROVE Digits(a) \in 1..9
<1>1. /\ 10^0 = 1 /\ 10^1 = 10 /\ 10^2 = 100 /\ 10^3 = 1000 /\ 10^4 = 10000 /\ 10^5 = 100000
      /\ 10^6 = 1000000 /\ 10^7 = 10000000 /\ 10^8 = 100000000 /\ 10^9 = 1000000000
  BY SMT
<1>2. /\ 1 - 1 = 0 /\ 2 - 1 = 1 /\ 3 - 1 = 2 /\ 4 - 1 = 3 /\ 5 - 1 = 4
      /\ 6 - 1 = 5 /\ 7 - 1 = 6 /\ 8 - 1 = 7 /\ 9 - 1 = 8
  BY SMT
<1> DEFINE Has(d) == 10^(d - 1) <= a /\ a < 10^d
<1>3. a < 1000000000
  BY SMT, <1>1 DEF MaxDigits
<1>4. \E d \in 1..9 : Has(d)
  <2>1. CASE a < 10
    BY SMT, <1>1, <1>2, <2>1, Has(1)
  <2>2. CASE 10 <= a /\ a < 100
    BY SMT, <1>1, <1>2, <2>2, Has(2)
  <2>3. CASE 100 <= a /\ a < 1000
    BY SMT, <1>1, <1>2, <2>3, Has(3)
  <2>4. CASE 1000 <= a /\ a < 10000
    BY SMT, <1>1, <1>2, <2>4, Has(4)
  <2>5. CASE 10000 <= a /\ a < 100000
    BY SMT, <1>1, <1>2, <2>5, Has(5)
  <2>6. CASE 100000 <= a /\ a < 1000000
    BY SMT, <1>1, <1>2, <2>6, Has(6)
  <2>7. CASE 1000000 <= a /\ a < 10000000
    BY SMT, <1>1, <1>2, <2>7, Has(7)
  <2>8. CASE 10000000 <= a /\ a < 100000000
    BY SMT, <1>1, <1>2, <2>8, Has(8)
  <2>9. CASE 100000000 <= a
    BY SMT, <1>1, <1>2, <1>3, <2>9, Has(9)
  <2> QED  BY SMT, <1>3, <2>1, <2>2, <2>3, <2>4, <2>5, <2>6, <2>7, <2>8, <2>9
<1>5. Digits(a) = CHOOSE d \in 1..9 : Has(d)
  BY SMT DEF Digits, MaxDigits
<1> HIDE DEF Has
<1> QED  BY <1>4, <1>5

\* A gap is one whichever end it is measured from.
LEMMA GapSymmetric == ASSUME NEW x \in Int, NEW y \in Int PROVE Gap(x, y) = Gap(y, x) /\ Gap(x, y) \in Nat
BY DEF Gap

\* Which two records may belong together, and how likely, does not depend on
\* which is named first.
LEMMA EitherWay ==
  ASSUME NEW a \in GraphShapes, NEW b \in GraphShapes
  PROVE  (Blocked(a, b) <=> Blocked(b, a)) /\ EdgeScore(a, b) = EdgeScore(b, a)
<1>1. \A s \in GraphShapes : s.amount \in Int /\ s.amount < 10^MaxDigits /\ s.date \in Int
  BY GraphAssumption
<1>2. \A s \in GraphShapes : Bucket(s.amount) \in Int
  <2> TAKE s \in GraphShapes
  <2>1. s.amount > 0 => Digits(s.amount) \in 1..9
    BY <1>1, DigitsNatural
  <2> QED  BY <1>1, <2>1 DEF Bucket
<1>3. /\ Gap(a.date, b.date) = Gap(b.date, a.date)
      /\ Gap(a.amount, b.amount) = Gap(b.amount, a.amount)
      /\ Gap(Bucket(a.amount), Bucket(b.amount)) = Gap(Bucket(b.amount), Bucket(a.amount))
  BY <1>1, <1>2, GapSymmetric
<1>4. Blocked(a, b) <=> Blocked(b, a)
  BY <1>3 DEF Blocked
<1>5. EdgeScore(a, b) = EdgeScore(b, a)
  BY <1>3 DEF EdgeScore
<1> QED  BY <1>4, <1>5

-----------------------------------------------------------------------------
\* What is left of a score, of Unit parts, after two edges or more between
\* records a and b: they agree no better than the worst of those edges.
Detour(a, b, score) ==
  \/ 100 * score <= 7600 * Unit
  \/ a.amount = b.amount /\ 100 * score <= 8550 * Unit
  \/ a.amount = b.amount /\ a.date = b.date /\ 100 * score <= 9025 * Unit

\* Two edges are a detour.
LEMMA DetourBegins ==
  ASSUME NEW a, NEW b, NEW c, NEW score \in Nat, 100 * score = EdgeScore(b, c) * (EdgeScore(a, b) * Unit)
  PROVE  Detour(a, c, score)
<1>1. Unit \in Nat /\ Unit > 0
  BY Hundreds
<1>2. /\ EdgeScore(a, b) \in {50, 80, 90, 95} /\ EdgeScore(b, c) \in {50, 80, 90, 95}
      /\ EdgeScore(a, b) >= 90 => a.amount = b.amount
      /\ EdgeScore(b, c) >= 90 => b.amount = c.amount
      /\ EdgeScore(a, b) = 95 => a.date = b.date
      /\ EdgeScore(b, c) = 95 => b.date = c.date
  BY EdgeScores
<1> DEFINE s == EdgeScore(a, b)
           t == EdgeScore(b, c)
<1>3. CASE s <= 80
  <2>1. s = 50 \/ s = 80
    BY <1>2, <1>3
  <2>2. t = 50 \/ t = 80 \/ t = 90 \/ t = 95
    BY <1>2
  <2> HIDE DEF s, t
  <2>3. 100 * score = t * (s * Unit)
    BY DEF s, t
  <2>4. 100 * score <= 7600 * Unit
    BY <1>1, <2>1, <2>2, <2>3
  <2> QED  BY <2>4 DEF Detour
<1>4. CASE t <= 80
  <2>1. t = 50 \/ t = 80
    BY <1>2, <1>4
  <2>2. s = 50 \/ s = 80 \/ s = 90 \/ s = 95
    BY <1>2
  <2> HIDE DEF s, t
  <2>3. 100 * score = t * (s * Unit)
    BY DEF s, t
  <2>4. 100 * score <= 7600 * Unit
    BY <1>1, <2>1, <2>2, <2>3
  <2> QED  BY <2>4 DEF Detour
<1>5. CASE s >= 90 /\ t >= 90
  <2>1. a.amount = c.amount
    BY <1>2, <1>5
  <2>2. (s = 90 \/ s = 95) /\ (t = 90 \/ t = 95)
    BY <1>2, <1>5
  <2>3. s = 95 /\ t = 95 => a.date = c.date
    BY <1>2
  <2> HIDE DEF s, t
  <2>4. 100 * score = t * (s * Unit)
    BY DEF s, t
  <2>5. IF s = 95 /\ t = 95 THEN 100 * score <= 9025 * Unit ELSE 100 * score <= 8550 * Unit
    BY <1>1, <2>2, <2>4
  <2> QED  BY <2>1, <2>3, <2>5 DEF Detour
<1> QED  BY <1>2, <1>3, <1>4, <1>5

\* A detour one edge longer is a detour.
LEMMA DetourGoesOn ==
  ASSUME NEW a, NEW b, NEW c, NEW score \in Nat, NEW longer \in Nat,
         Detour(a, b, score), 100 * longer = EdgeScore(b, c) * score
  PROVE  Detour(a, c, longer) /\ 100 * longer <= 95 * score
<1>1. Unit \in Nat /\ Unit > 0
  BY Hundreds
<1> DEFINE t == EdgeScore(b, c)
<1>2. /\ t = 50 \/ t = 80 \/ t = 90 \/ t = 95
      /\ t >= 90 => b.amount = c.amount
      /\ t = 95 => b.date = c.date
  BY EdgeScores
<1>3. 100 * longer = t * score
  OBVIOUS
<1>4. 100 * score <= 9025 * Unit
  BY <1>1 DEF Detour
<1> HIDE DEF t
<1>5. 100 * longer <= 95 * score
  BY <1>2, <1>3
<1>6. CASE t <= 80
  <2>1. 100 * longer <= 80 * score
    BY <1>2, <1>3, <1>6
  <2> QED  BY <1>1, <1>4, <1>5, <2>1 DEF Detour
<1>7. CASE t = 90
  <2>1. b.amount = c.amount /\ 100 * longer = 90 * score
    BY <1>2, <1>3, <1>7
  <2> QED  BY <1>1, <1>4, <1>5, <2>1 DEF Detour
<1>8. CASE t = 95
  <2>1. b.amount = c.amount /\ b.date = c.date
    BY <1>2, <1>8
  <2>2. longer <= score
    BY <1>5
  <2> QED  BY <1>1, <1>5, <2>1, <2>2 DEF Detour
<1> QED  BY <1>2, <1>6, <1>7, <1>8

\* So no detour between two records that nearly agree scores as their edge does.
LEMMA DetourWorse ==
  ASSUME NEW a, NEW b, NEW score \in Nat, Detour(a, b, score), EdgeScore(a, b) >= 80
  PROVE  score < EdgeScore(a, b) * Unit
<1>1. Unit \in Nat /\ Unit > 0
  BY Hundreds
<1> DEFINE s == EdgeScore(a, b)
<1>2. /\ s = 80 \/ s = 90 \/ s = 95
      /\ a.amount = b.amount => s >= 90
      /\ a.amount = b.amount /\ a.date = b.date => s = 95
  BY EdgeScores
<1>3. (s = 80 /\ 100 * score <= 7600 * Unit) \/ (s = 90 /\ 100 * score <= 8550 * Unit) \/ (s = 95 /\ 100 * score <= 9025 * Unit)
  <2> HIDE DEF s
  <2> QED BY <1>1, <1>2 DEF Detour
<1> HIDE DEF s
<1>4. score < s * Unit
  BY <1>1, <1>3
<1> QED  BY <1>4 DEF s

-----------------------------------------------------------------------------
\* What the search knows of a path on its heap: beyond two nodes it is a detour,
\* and the edge it began with was passed over.
Explored(p) ==
  /\ p \in Seq(DOMAIN node) /\ Len(p) \in 1..MaxHops /\ Score(p) \in Nat
  /\ Len(p) = 1 => Score(p) = 100 * Unit
  /\ Len(p) = 2 => <<p[1], p[2]>> \in edges /\ Score(p) = EdgeScore(node[p[1]], node[p[2]]) * Unit
  /\ Len(p) > 2 => /\ Detour(node[p[1]], node[End(p)], Score(p))
                   /\ Score(p) < minScore * Unit \/ Nodes(p) \cap taken # {}

\* A search begins with one record.
LEMMA ExploredStart == ASSUME NEW u \in DOMAIN node PROVE Explored(<<u>>)
<1>1. <<u>> \in Seq(DOMAIN node) /\ Len(<<u>>) = 1 /\ 1 \in 1..MaxHops
  BY Hundreds
<1>2. Score(<<u>>) = 100 * Unit /\ 100 * Unit \in Nat
  BY ScoreOfStart, Hundreds
<1> QED  BY <1>1, <1>2 DEF Explored

\* What the search extends a path to, it has explored.
LEMMA ExploredFurther ==
  ASSUME NEW p, Explored(p), ~ Acceptable(p), Len(p) < MaxHops, minScore \in 0..100,
         NEW v \in DOMAIN node, <<End(p), v>> \in edges
  PROVE  Explored(Append(p, v))
<1> DEFINE q == Append(p, v)
           n == Len(p)
<1>1. /\ p \in Seq(DOMAIN node) /\ n \in 1..(MaxHops - 1) /\ n \in Nat /\ Score(p) \in Nat
      /\ Unit \in Nat /\ MaxHops \in 2..5
  BY Hundreds DEF Explored
<1>2. /\ q \in Seq(DOMAIN node) /\ Len(q) = n + 1 /\ n + 1 \in 1..MaxHops
      /\ \A k \in 1..n : q[k] = p[k]
      /\ q[n + 1] = v /\ End(q) = v /\ End(p) = p[n]
      /\ DOMAIN p = 1..n /\ DOMAIN q = 1..(n + 1)
  BY <1>1 DEF End
<1>3. /\ Score(q) \in Nat
      /\ 100 * Score(q) = EdgeScore(node[End(p)], node[v]) * Score(p)
  BY <1>1, ScoreOfAppend
<1>4. Nodes(p) \subseteq Nodes(q)
  BY <1>2 DEF Nodes
<1> HIDE DEF q
<1>5. CASE n = 1
  <2>1. Score(p) = 100 * Unit /\ End(p) = q[1] /\ Len(q) = 2 /\ q[2] = v
    BY <1>2, <1>5 DEF Explored
  <2>2. EdgeScore(node[End(p)], node[v]) \in Nat
    BY EdgeScores
  <2> DEFINE s == EdgeScore(node[End(p)], node[v])
  <2>3. Score(q) = s * Unit
    <3>1. 100 * Score(q) = s * (100 * Unit) /\ s \in Nat
      BY <1>3, <2>1, <2>2
    <3> HIDE DEF s
    <3>2. s * (100 * Unit) = 100 * (s * Unit) /\ s * Unit \in Nat
      BY <1>1, <3>1
    <3> QED  BY <1>3, <3>1, <3>2
  <2>4. Explored(q)
    BY <1>2, <1>3, <2>1, <2>3 DEF Explored
  <2> QED  BY <2>4 DEF q
<1>6. CASE n >= 2
  <2>1. Score(p) < minScore * Unit \/ Nodes(p) \cap taken # {}
    BY <1>1, <1>6 DEF Acceptable, Unit
  <2>2. q[1] = p[1] /\ Len(q) > 2
    BY <1>2, <1>6
  <2>3. Detour(node[q[1]], node[v], Score(q)) /\ 100 * Score(q) <= 95 * Score(p)
    <3>1. CASE n = 2
      <4>1. Score(p) = EdgeScore(node[p[1]], node[p[2]]) * Unit /\ End(p) = p[2]
        BY <1>2, <3>1 DEF Explored
      <4>2. Detour(node[p[1]], node[v], Score(q))
        BY <1>3, <4>1, DetourBegins
      <4>3. EdgeScore(node[End(p)], node[v]) \in {50, 80, 90, 95}
        BY EdgeScores
      <4>4. 100 * Score(q) <= 95 * Score(p)
        BY <1>1, <1>3, <4>3
      <4> QED  BY <2>2, <4>2, <4>4
    <3>2. CASE n > 2
      <4>1. Detour(node[p[1]], node[End(p)], Score(p))
        BY <1>2, <3>2 DEF Explored
      <4> QED  BY <1>1, <1>3, <2>2, <4>1, DetourGoesOn
    <3> QED  BY <1>1, <1>6, <3>1, <3>2
  <2>4. Score(q) < minScore * Unit \/ Nodes(q) \cap taken # {}
    <3>1. Score(q) <= Score(p)
      BY <1>1, <1>3, <2>3
    <3>2. minScore * Unit \in Nat
      BY <1>1
    <3> QED  BY <1>1, <1>3, <1>4, <2>1, <3>1, <3>2
  <2>5. Explored(q)
    BY <1>2, <1>3, <2>2, <2>3, <2>4 DEF Explored
  <2> QED  BY <2>5 DEF q
<1>7. n = 1 \/ n >= 2
  <2> HIDE DEF n
  <2> QED  BY <1>1
<1> QED  BY <1>5, <1>6, <1>7

\* A step that leaves records, edges and used nodes alone leaves what is
\* explored.
LEMMA ExploredKept ==
  ASSUME NEW CONSTANT p, Explored(p), UNCHANGED <<records, edges, taken>>
  PROVE  Explored(p)'
<1>1. Score(p)' = Score(p)
  BY ScoreKept DEF records
<1> QED  BY <1>1 DEF Explored, records, Nodes, End

-----------------------------------------------------------------------------
\* Two records that agree on the amount, or nearly, and well enough to be a path,
\* in the direction of an edge.
Strong(u, v) ==
  /\ <<u, v>> \in CandidateEdges(node)
  /\ EdgeScore(node[u], node[v]) >= 80 /\ EdgeScore(node[u], node[v]) >= minScore

\* The search from u has not come to v yet, but it will.
Ahead(u, v) == (<<u>> \in frontier /\ visited = {}) \/ (<<u, v>> \in frontier /\ v \notin visited)

\* The search from u is still to begin.
Waiting(u) == (\E k \in DOMAIN todo : todo[k] = u) /\ \A p \in frontier : p[1] # u

Pending(u) == \A v \in DOMAIN node : Strong(u, v) /\ v \notin taken => Ahead(u, v)

\* What there is to search.
Loaded ==
  /\ stage = "idle" => paths = {}
  /\ stage \in {"idle", "one_to_many", "many_to_one", "done"} => frontier = {}
  /\ stage # "idle" => arrival \in Arrivals /\ node \in [1..Len(arrival) -> GraphShapes]
  /\ minScore \in 0..100
  /\ edges \subseteq CandidateEdges(node)
  /\ stage \in {"one_to_many", "many_to_one"} => edges = CandidateEdges(node)
  /\ stage = "paths" => /\ todo \in Seq(DOMAIN node)
                        /\ \A e \in CandidateEdges(node) : e[1] \notin taken /\ e[2] \notin taken => e \in edges
  /\ stage = "done" => todo = <<>>

\* The heap holds paths from one record; before its first pop, only that record.
OneSearch ==
  /\ \A p \in frontier : Explored(p)
  /\ \A p, q \in frontier : p[1] = q[1]
  /\ visited = {} => \A p \in frontier : Len(p) = 1

\* Nothing that should be found is behind the search.
NoneMissed ==
  stage \in {"paths", "done"} => \A u \in (DOMAIN node) \ taken : Waiting(u) \/ Pending(u)

PairChains ==
  \A path \in Chains :
    \E v : <<path.anchor, v>> \in CandidateEdges(node) /\ path.members = {path.anchor, v}

\* A record that is free would not have been a better end of a path.
BestEnds ==
  \A path \in Chains : \A w \in (DOMAIN node) \ taken :
    <<path.anchor, w>> \in CandidateEdges(node) => EdgeScore(node[path.anchor], node[w]) * Unit <= path.score

Searched == Loaded /\ OneSearch /\ NoneMissed /\ PairChains /\ BestEnds

\* An edge joins two different records there are.
LEMMA DirectedApart ==
  ASSUME NEW u, NEW v, <<u, v>> \in CandidateEdges(node), Loaded, stage # "idle"
  PROVE  u # v /\ u \in DOMAIN node /\ v \in DOMAIN node
<1>1. \A type : Rank(type) \in Int
  BY DEF Rank, TypeOrder
<1>2. DOMAIN node \subseteq Int
  <2>1. Len(arrival) \in Nat /\ node \in [1..Len(arrival) -> GraphShapes]
    BY GraphAssumption DEF Loaded
  <2> QED  BY <2>1
<1> QED  BY <1>1, <1>2 DEF CandidateEdges, Directed

LEMMA SearchedAtFirst == GraphInit => Searched
BY DEF GraphInit, Searched, Loaded, OneSearch, NoneMissed, PairChains, BestEnds, Chains, CandidateEdges

LEMMA BuildSearched == Searched /\ BuildGraph => Searched'
<1> SUFFICES ASSUME Searched, BuildGraph PROVE Searched'
  OBVIOUS
<1>1. /\ stage = "idle" /\ stage' = "one_to_many" /\ paths = {} /\ paths' = {}
      /\ frontier = {} /\ frontier' = {}
  BY DEF BuildGraph, Searched, Loaded, search
<1>2. /\ arrival' \in Arrivals /\ node' \in [1..Len(arrival') -> GraphShapes]
      /\ minScore' \in 0..100 /\ edges' = CandidateEdges(node')
  BY GraphAssumption DEF BuildGraph
<1>3. Loaded'
  BY <1>1, <1>2 DEF Loaded
<1> QED  BY <1>1, <1>3 DEF Searched, OneSearch, NoneMissed, PairChains, BestEnds, Chains

LEMMA AllocateSearched ==
  ASSUME NEW kind \in {"one_to_many", "many_to_one"}, Searched, Allocate(kind)
  PROVE  Searched'
<1>1. /\ stage = kind /\ stage' \in {kind, "raised"}
      /\ UNCHANGED <<records, edges, frontier, visited>> /\ frontier = {}
  BY DEF Allocate, search, Searched, Loaded
<1>2. \A path \in paths' : path \in paths \/ path.kind = kind
  BY DEF Allocate, Select, Allocated, GraphPath
<1>3. Chains' \subseteq Chains
  BY <1>2 DEF Chains
<1>4. Loaded'
  BY <1>1 DEF Loaded, records, Searched
<1>5. OneSearch'
  BY <1>1 DEF OneSearch
<1>6. NoneMissed'
  BY <1>1 DEF NoneMissed
<1>7. PairChains'
  BY <1>1, <1>3 DEF PairChains, Searched, records
<1>8. BestEnds'
  <2>1. taken \subseteq taken'
    BY DEF Allocate, Select
  <2> QED  BY <1>1, <1>3, <2>1 DEF BestEnds, Searched, records
<1> QED  BY <1>4, <1>5, <1>6, <1>7, <1>8 DEF Searched

LEMMA BeginSearched == Searched /\ BeginSearch => Searched'
<1> SUFFICES ASSUME Searched, BeginSearch PROVE Searched'
  OBVIOUS
<1>1. /\ stage = "many_to_one" /\ stage' = "paths" /\ todo' = arrival
      /\ edges' = {e \in edges : e[1] \notin taken /\ e[2] \notin taken}
      /\ UNCHANGED <<node, arrival, minScore, taken, paths, frontier, visited>>
      /\ frontier = {} /\ edges = CandidateEdges(node)
      /\ arrival \in Arrivals /\ node \in [1..Len(arrival) -> GraphShapes]
  BY DEF BeginSearch, search, records, Searched, Loaded
<1>2. /\ arrival \in Seq(DOMAIN node)
      /\ \A u \in DOMAIN node : \E k \in DOMAIN arrival : arrival[k] = u
  <2>1. DOMAIN node = 1..Len(arrival)
    BY <1>1
  <2> QED  BY <1>1, <2>1, GraphAssumption
<1>3. Loaded'
  BY <1>1, <1>2 DEF Loaded, Searched
<1>4. OneSearch'
  BY <1>1 DEF OneSearch
<1>5. NoneMissed'
  BY <1>1, <1>2 DEF NoneMissed, Waiting
<1>6. PairChains' /\ BestEnds'
  BY <1>1 DEF PairChains, BestEnds, Searched, Chains
<1> QED  BY <1>3, <1>4, <1>5, <1>6 DEF Searched

LEMMA FinishSearched == Searched /\ FinishGraph => Searched'
<1> SUFFICES ASSUME Searched, FinishGraph PROVE Searched'
  OBVIOUS
<1>1. /\ stage = "paths" /\ stage' = "done" /\ frontier = {} /\ todo = <<>>
      /\ UNCHANGED <<node, arrival, minScore, edges, todo, taken, paths, frontier, visited>>
  BY DEF FinishGraph, search, records
<1>2. Loaded'
  BY <1>1 DEF Loaded, Searched
<1>3. OneSearch'
  BY <1>1 DEF OneSearch
<1>4. NoneMissed'
  BY <1>1 DEF NoneMissed, Searched, Waiting, Pending, Strong, Ahead
<1>5. PairChains' /\ BestEnds'
  BY <1>1 DEF PairChains, BestEnds, Searched, Chains
<1> QED  BY <1>2, <1>3, <1>4, <1>5 DEF Searched

LEMMA StartSearched == Searched /\ StartSearch => Searched'
<1> SUFFICES ASSUME Searched, StartSearch PROVE Searched'
  OBVIOUS
<1> DEFINE first == Head(todo)
<1>1. /\ stage = "paths" /\ stage' = "paths" /\ frontier = {} /\ todo # <<>>
      /\ frontier' = IF first \in taken THEN {} ELSE {<<first>>}
      /\ visited' = {} /\ todo' = Tail(todo)
      /\ UNCHANGED <<node, arrival, minScore, edges, taken, paths>>
  BY DEF StartSearch, records
<1>2. /\ todo \in Seq(DOMAIN node) /\ first \in DOMAIN node /\ Tail(todo) \in Seq(DOMAIN node)
      /\ \A k \in DOMAIN todo : todo[k] = first \/ \E j \in DOMAIN Tail(todo) : Tail(todo)[j] = todo[k]
  <2>1. todo \in Seq(DOMAIN node)
    BY <1>1 DEF Searched, Loaded
  <2>2. /\ first = todo[1] /\ first \in DOMAIN node /\ Tail(todo) \in Seq(DOMAIN node)
        /\ DOMAIN todo = 1..Len(todo) /\ Len(todo) \in Nat
        /\ DOMAIN Tail(todo) = 1..(Len(todo) - 1)
        /\ \A j \in 1..(Len(todo) - 1) : Tail(todo)[j] = todo[j + 1]
    BY <1>1, <2>1
  <2>3. \A k \in 1..Len(todo) : k = 1 \/ (k - 1 \in 1..(Len(todo) - 1) /\ (k - 1) + 1 = k)
    BY <2>2
  <2> QED  BY <2>1, <2>2, <2>3
<1>3. Loaded'
  BY <1>1, <1>2 DEF Loaded, Searched
<1>4. OneSearch'
  <2>1. \A u \in DOMAIN node' : Explored(<<u>>)'
    <3> TAKE u \in DOMAIN node'
    <3>1. Explored(<<u>>)
      BY <1>1, ExploredStart
    <3> QED  BY <1>1, <3>1, ExploredKept DEF records
  <2>2. \A p \in frontier' : Explored(p)'
    BY <1>1, <1>2, <2>1
  <2>3. \A p \in frontier' : p = <<first>> /\ Len(p) = 1
    BY <1>1
  <2> QED  BY <2>2, <2>3 DEF OneSearch
<1>5. NoneMissed'
  <2> SUFFICES ASSUME NEW u \in (DOMAIN node) \ taken
               PROVE  Waiting(u)' \/ Pending(u)'
    BY <1>1 DEF NoneMissed
  <2>1. CASE u = first
    BY <1>1, <2>1 DEF Pending, Ahead
  <2>2. CASE u # first /\ Waiting(u)
    <3>1. \E j \in DOMAIN todo' : todo'[j] = u
      BY <1>1, <1>2, <2>2 DEF Waiting
    <3>2. \A p \in frontier' : p[1] # u
      BY <1>1, <2>2
    <3> QED  BY <3>1, <3>2 DEF Waiting
  <2>3. CASE Pending(u)
    BY <1>1, <2>3, <2>1 DEF Pending, Ahead, Strong
  <2> QED  BY <1>1, <2>1, <2>2, <2>3 DEF NoneMissed, Searched
<1>6. PairChains' /\ BestEnds'
  BY <1>1 DEF PairChains, BestEnds, Searched, Chains
<1> QED  BY <1>3, <1>4, <1>5, <1>6 DEF Searched

\* A path of one record, and of one edge.
LEMMA AppendToOne ==
  ASSUME NEW u, NEW v PROVE Len(<<u>>) = 1 /\ <<u>>[1] = u /\ Append(<<u>>, v) = <<u, v>>
<1> DEFINE p == <<u>>
           q == Append(p, v)
<1>1. p \in Seq({u, v}) /\ Len(p) = 1 /\ p[1] = u
  OBVIOUS
<1>2. q \in Seq({u, v}) /\ Len(q) = 2 /\ q[1] = u /\ q[2] = v
  <2> DEFINE S == {u, v}
  <2>1. v \in S /\ p \in Seq(S)
    BY <1>1
  <2> HIDE DEF p, S
  <2>2. q \in Seq(S)
    BY <2>1
  <2>3. Len(q) = 2
    BY <1>1, <2>1
  <2>4. q[1] = p[1] /\ q[2] = v
    <3>1. (\A k \in 1..Len(p) : q[k] = p[k]) /\ q[Len(p) + 1] = v
      BY <2>1
    <3>2. Len(p) + 1 = 2 /\ 1 \in 1..Len(p)
      BY <1>1
    <3> HIDE DEF q
    <3> QED  BY <3>1, <3>2
  <2> QED  BY <1>1, <2>2, <2>3, <2>4 DEF S
<1>3. q = <<u, v>>
  <2> HIDE DEF q
  <2> QED  BY <1>2
<1> QED  BY <1>1, <1>3

\* The path popped does not hide a record it is not the edge to.
LEMMA PoppedElsewhere ==
  ASSUME Loaded, OneSearch, stage = "paths",
         NEW p \in frontier, \A q \in frontier \ {p} : Sooner(p, q),
         NEW u, NEW v, Strong(u, v), <<u, v>> \in frontier, p # <<u, v>>
  PROVE  End(p) # v
<1> SUFFICES ASSUME End(p) = v PROVE FALSE
  OBVIOUS
<1> DEFINE q == <<u, v>>
<1>1. u # v
  BY DirectedApart DEF Strong
<1>2. p[1] = u /\ Explored(p) /\ Explored(q)
  BY DEF OneSearch
<1>3. /\ p \in Seq(DOMAIN node) /\ Len(p) \in Nat /\ Len(p) >= 1 /\ Score(p) \in Nat /\ Score(q) \in Nat
      /\ Score(q) = EdgeScore(node[u], node[v]) * Unit
  BY <1>2, Hundreds DEF Explored
<1>4. Len(p) # 1
  BY <1>1, <1>2, <1>3 DEF End
<1>5. Len(p) # 2
  <2> SUFFICES ASSUME Len(p) = 2 PROVE FALSE
    OBVIOUS
  <2>1. p[2] = v
    BY DEF End
  <2>2. p = <<p[1], p[2]>>
    BY <1>3
  <2> QED  BY <1>2, <2>1, <2>2
<1>6. Detour(node[u], node[v], Score(p))
  <2> DEFINE n == Len(p)
  <2>1. n \in Nat /\ n >= 1 /\ n # 1 /\ n # 2
    BY <1>3, <1>4, <1>5
  <2>2. n > 2
    <3> HIDE DEF n
    <3> QED  BY <2>1
  <2> QED  BY <1>2, <2>2 DEF Explored
<1>7. Score(p) < Score(q)
  BY <1>3, <1>6, DetourWorse DEF Strong
<1>8. Sooner(p, q)
  OBVIOUS
<1> QED  BY <1>3, <1>7, <1>8 DEF Sooner

LEMMA PopSearched == Searched /\ Pop => Searched'
<1> SUFFICES ASSUME Searched, Pop PROVE Searched'
  OBVIOUS
<1>1. /\ stage = "paths" /\ stage' = "paths"
      /\ UNCHANGED <<node, arrival, minScore, edges, todo>>
      /\ Loaded /\ OneSearch /\ NoneMissed /\ PairChains /\ BestEnds
  BY DEF Pop, records, Searched
<1>2. PICK p \in frontier :
       /\ \A q \in frontier \ {p} : Sooner(p, q)
       /\ \/ /\ End(p) \in visited
             /\ frontier' = frontier \ {p}
             /\ UNCHANGED <<visited, taken, paths>>
          \/ /\ End(p) \notin visited /\ Acceptable(p)
             /\ frontier' = {} /\ visited' = {}
             /\ Select(GraphPath("chain", p[1], Nodes(p), Score(p)))
          \/ /\ End(p) \notin visited /\ ~Acceptable(p)
             /\ visited' = visited \cup {End(p)}
             /\ frontier' = (frontier \ {p}) \cup Extensions(p)
             /\ UNCHANGED <<taken, paths>>
  BY DEF Pop
<1>3. Explored(p)
  BY <1>1 DEF OneSearch
<1>4. taken \subseteq taken'
  BY <1>2 DEF Select
<1>5. Loaded'
  BY <1>1, <1>4 DEF Loaded
<1>6. minScore \in 0..100 /\ DOMAIN node' = DOMAIN node
  BY <1>1 DEF Loaded
\* A path that ends where the search has been.
<1>7. CASE End(p) \in visited /\ frontier' = frontier \ {p} /\ UNCHANGED <<visited, taken, paths>>
  <2>1. OneSearch'
    <3>1. \A q \in frontier' : Explored(q)'
      <4> TAKE q \in frontier'
      <4>1. Explored(q)
        BY <1>1, <1>7 DEF OneSearch
      <4> QED  BY <1>1, <1>7, <4>1, ExploredKept DEF records
    <3> QED  BY <1>1, <1>7, <3>1 DEF OneSearch
  <2>2. ASSUME NEW u, NEW v, Ahead(u, v) PROVE Ahead(u, v)'
    BY <1>7, <2>2 DEF Ahead, End
  <2>3. NoneMissed'
    BY <1>1, <1>7, <2>2 DEF NoneMissed, Waiting, Pending, Strong
  <2>4. PairChains' /\ BestEnds'
    BY <1>1, <1>7 DEF PairChains, BestEnds, Chains
  <2> QED  BY <1>5, <2>1, <2>3, <2>4 DEF Searched
\* A path that is selected: an edge, and no record that is left is behind it.
<1>8. CASE /\ Acceptable(p) /\ frontier' = {} /\ visited' = {}
           /\ Select(GraphPath("chain", p[1], Nodes(p), Score(p)))
  <2> DEFINE chain == GraphPath("chain", p[1], Nodes(p), Score(p))
  <2>1. /\ chain.kind = "chain" /\ chain.anchor = p[1] /\ chain.members = Nodes(p)
        /\ chain.score = Score(p)
    BY DEF GraphPath
  <2>2. paths' = paths \cup {chain} /\ taken' = taken \cup Nodes(p)
    BY <1>8, <2>1 DEF Select
  <2> HIDE DEF chain
  <2>3. Len(p) = 2
    <3>1. Len(p) \in Nat /\ Len(p) >= 2 /\ ~ (Len(p) > 2)
      BY <1>3, <1>8, <1>6, Hundreds DEF Acceptable, Explored, Unit
    <3> QED  BY <3>1
  <2>4. <<p[1], p[2]>> \in edges /\ Nodes(p) = {p[1], p[2]}
    BY <1>3, <2>3 DEF Explored, Nodes
  <2>5. <<chain.anchor, p[2]>> \in CandidateEdges(node) /\ chain.members = {chain.anchor, p[2]}
    BY <1>1, <2>1, <2>4 DEF Loaded
  <2>6. PairChains'
    <3>1. Chains' = Chains \cup {chain}
      BY <2>1, <2>2 DEF Chains
    <3> QED  BY <1>1, <2>5, <3>1 DEF PairChains
  <2>7. OneSearch'
    BY <1>8 DEF OneSearch
  <2>8. NoneMissed'
    <3> SUFFICES ASSUME NEW u \in (DOMAIN node) \ taken', ~ Waiting(u)'
                 PROVE  Pending(u)'
      BY <1>1 DEF NoneMissed
    <3>1. Pending(u)
      BY <1>1, <1>4, <1>8 DEF NoneMissed, Waiting
    <3> SUFFICES ASSUME NEW v \in DOMAIN node, Strong(u, v), v \notin taken'
                 PROVE  FALSE
      BY <1>1 DEF Pending, Strong
    <3>2. Ahead(u, v)
      BY <1>4, <3>1 DEF Pending
    <3>3. p[1] = u
      BY <1>1, <3>2 DEF Ahead, OneSearch
    <3> QED  BY <2>2, <2>4, <3>3
  <2>9. ASSUME NEW w \in (DOMAIN node) \ taken', <<p[1], w>> \in CandidateEdges(node)
        PROVE  EdgeScore(node[p[1]], node[w]) * Unit <= Score(p)
    <3> DEFINE s == EdgeScore(node[p[1]], node[w])
    <3>1. /\ s \in {50, 80, 90, 95} /\ EdgeScore(node[p[1]], node[p[2]]) \in {50, 80, 90, 95}
          /\ Score(p) = EdgeScore(node[p[1]], node[p[2]]) * Unit /\ Unit \in Nat
      BY <1>3, <2>3, EdgeScores, Hundreds DEF Explored
    <3>2. CASE s = 50
      BY <3>1, <3>2
    <3>3. CASE s < minScore
      <4>1. Score(p) >= minScore * Unit
        BY <1>8 DEF Acceptable, Unit
      <4> HIDE DEF s
      <4>2. s * Unit <= minScore * Unit /\ s * Unit \in Nat /\ minScore * Unit \in Nat /\ Score(p) \in Nat
        BY <1>6, <3>1, <3>3
      <4> QED  BY <4>1, <4>2 DEF s
    <3>4. CASE s >= 80 /\ s >= minScore
      <4>1. p[1] \in (DOMAIN node) \ taken /\ w \notin taken /\ w \in DOMAIN node
        BY <1>4, <1>8, <2>4, <2>9 DEF Acceptable, CandidateEdges
      <4>2. Pending(p[1])
        BY <1>1, <4>1 DEF NoneMissed, Waiting
      <4>3. Ahead(p[1], w)
        BY <2>9, <3>4, <4>1, <4>2 DEF Pending, Strong
      <4>4. <<p[1], w>> \in frontier
        BY <1>1, <2>3, <4>3 DEF Ahead, OneSearch
      <4>5. p # <<p[1], w>>
        <5>1. p[2] # w
          BY <2>2, <2>4, <2>9
        <5> QED  BY <5>1
      <4>6. Score(<<p[1], w>>) = s * Unit
        <5>1. Explored(<<p[1], w>>)
          BY <1>1, <4>4 DEF OneSearch
        <5> QED  BY <5>1 DEF Explored
      <4>7. Sooner(p, <<p[1], w>>)
        BY <1>2, <4>4, <4>5
      <4> QED  BY <3>1, <4>6, <4>7 DEF Sooner
    <3> QED  BY <1>6, <3>1, <3>2, <3>3, <3>4
  <2>10. BestEnds'
    <3>1. Chains' = Chains \cup {chain}
      BY <2>1, <2>2 DEF Chains
    <3> QED  BY <1>1, <1>4, <2>1, <2>9, <3>1 DEF BestEnds
  <2> QED  BY <1>5, <2>6, <2>7, <2>8, <2>10 DEF Searched
\* A path that is extended.
<1>9. CASE /\ End(p) \notin visited /\ ~Acceptable(p)
           /\ visited' = visited \cup {End(p)}
           /\ frontier' = (frontier \ {p}) \cup Extensions(p)
           /\ UNCHANGED <<taken, paths>>
  <2>1. /\ p \in Seq(DOMAIN node) /\ Len(p) \in Nat /\ Len(p) >= 1
    BY <1>3, Hundreds DEF Explored
  <2>2. ASSUME NEW q \in Extensions(p)
        PROVE  Explored(q) /\ q[1] = p[1]
    <3>1. PICK v \in DOMAIN node : q = Append(p, v) /\ Len(p) < MaxHops /\ <<End(p), v>> \in edges
      BY DEF Extensions
    <3>2. Explored(q)
      BY <1>3, <1>6, <1>9, <3>1, ExploredFurther
    <3>3. q[1] = p[1]
      BY <2>1, <3>1
    <3> QED  BY <3>2, <3>3
  <2>3. OneSearch'
    <3>1. \A q \in frontier' : Explored(q)'
      <4> TAKE q \in frontier'
      <4>1. Explored(q)
        BY <1>1, <1>9, <2>2 DEF OneSearch
      <4> QED  BY <1>1, <1>9, <4>1, ExploredKept DEF records
    <3>2. \A q \in frontier' : q[1] = p[1]
      BY <1>1, <1>9, <2>2 DEF OneSearch
    <3>3. visited' # {}
      BY <1>9
    <3> QED  BY <3>1, <3>2, <3>3 DEF OneSearch
  <2>4. NoneMissed'
    <3> SUFFICES ASSUME NEW u \in (DOMAIN node) \ taken, ~ Waiting(u)'
                 PROVE  Pending(u)'
      BY <1>1, <1>9 DEF NoneMissed
    <3>1. Pending(u)
      <4>1. \A q \in frontier' : q[1] = p[1]
        BY <1>1, <1>9, <2>2 DEF OneSearch
      <4>2. Waiting(u) => Waiting(u)'
        BY <1>1, <4>1 DEF Waiting
      <4> QED  BY <1>1, <4>2 DEF NoneMissed
    <3> SUFFICES ASSUME NEW v \in DOMAIN node, Strong(u, v), v \notin taken
                 PROVE  Ahead(u, v)'
      BY <1>1, <1>9 DEF Pending, Strong
    <3>2. Ahead(u, v) /\ u # v
      BY <1>1, <3>1, DirectedApart DEF Pending, Strong
    <3>3. <<u, v>> \in edges
      BY <1>1 DEF Loaded, Strong
    <3>4. CASE <<u>> \in frontier /\ visited = {}
      <4>1. p = <<u>>
        <5>1. Len(p) = 1 /\ p[1] = u
          BY <1>1, <3>4 DEF OneSearch
        <5> QED  BY <2>1, <5>1
      <4>2. Len(p) = 1 /\ End(p) = u /\ Append(p, v) = <<u, v>> /\ 1 < MaxHops
        <5>1. Len(<<u>>) = 1 /\ <<u>>[1] = u /\ Append(<<u>>, v) = <<u, v>>
          BY AppendToOne
        <5>2. 1 < MaxHops
          BY Hundreds
        <5> QED  BY <4>1, <5>1, <5>2 DEF End
      <4>3. <<u, v>> \in Extensions(p)
        BY <3>2, <3>3, <3>4, <4>2 DEF Extensions
      <4> QED  BY <1>9, <3>2, <3>4, <4>2, <4>3 DEF Ahead
    <3>5. CASE <<u, v>> \in frontier /\ v \notin visited
      <4>1. p # <<u, v>>
        <5> SUFFICES ASSUME p = <<u, v>> PROVE FALSE
          OBVIOUS
        <5>1. Len(p) = 2 /\ p[1] = u /\ p[2] = v
          OBVIOUS
        <5>2. Score(p) = EdgeScore(node[u], node[v]) * Unit
          BY <1>3, <5>1 DEF Explored
        <5>3. EdgeScore(node[u], node[v]) \in {80, 90, 95} /\ EdgeScore(node[u], node[v]) >= minScore
          BY EdgeScores DEF Strong
        <5>4. Score(p) >= minScore * Unit
          BY <1>6, <5>2, <5>3, Hundreds
        <5>5. Nodes(p) \cap taken = {}
          BY <5>1 DEF Nodes
        <5> QED  BY <1>9, <5>1, <5>4, <5>5 DEF Acceptable, Unit
      <4>2. End(p) # v
        BY <1>1, <1>2, <3>5, <4>1, PoppedElsewhere
      <4> QED  BY <1>9, <3>5, <4>1, <4>2 DEF Ahead
    <3> QED  BY <3>2, <3>4, <3>5 DEF Ahead
  <2>5. PairChains' /\ BestEnds'
    BY <1>1, <1>9 DEF PairChains, BestEnds, Chains
  <2> QED  BY <1>5, <2>3, <2>4, <2>5 DEF Searched
<1> QED  BY <1>2, <1>7, <1>8, <1>9

\* Every step keeps what the search knows.
LEMMA SearchedInductive == Searched /\ [GraphNext]_graphVars => Searched'
<1> SUFFICES ASSUME Searched, [GraphNext]_graphVars PROVE Searched'
  OBVIOUS
<1>1. CASE Allocate("one_to_many") \/ Allocate("many_to_one")
  BY <1>1, AllocateSearched
<1>2. CASE AllocateTargets
  <2>1. /\ stage = "one_to_many" /\ stage' = "many_to_one"
        /\ UNCHANGED <<node, arrival, minScore, edges, taken, paths, frontier, visited>>
    BY <1>2 DEF AllocateTargets, records, search
  <2>2. Loaded' /\ OneSearch' /\ NoneMissed' /\ PairChains' /\ BestEnds'
    BY <2>1 DEF Searched, Loaded, OneSearch, NoneMissed, PairChains, BestEnds, Chains
  <2> QED  BY <2>2 DEF Searched
<1>3. CASE UNCHANGED graphVars
  <2>1. UNCHANGED <<node, arrival, minScore, edges, stage, todo, taken, paths, frontier, visited>>
    BY <1>3 DEF graphVars
  <2>2. OneSearch'
    <3>1. \A q \in frontier' : Explored(q)'
      <4> TAKE q \in frontier'
      <4>1. Explored(q)
        BY <2>1 DEF OneSearch, Searched
      <4> QED  BY <2>1, <4>1, ExploredKept DEF records
    <3> QED  BY <2>1, <3>1 DEF OneSearch, Searched
  <2>3. Loaded' /\ PairChains' /\ BestEnds'
    BY <2>1 DEF Searched, Loaded, PairChains, BestEnds, Chains
  <2>4. NoneMissed'
    BY <2>1 DEF Searched, NoneMissed, Waiting, Pending, Ahead, Strong
  <2> QED  BY <2>2, <2>3, <2>4 DEF Searched
<1>4. CASE BuildGraph \/ BeginSearch \/ StartSearch \/ Pop \/ FinishGraph
  BY <1>4, BuildSearched, BeginSearched, StartSearched, PopSearched, FinishSearched
<1> QED  BY <1>1, <1>2, <1>3, <1>4 DEF GraphNext

\* What is unmatched at the end is what no path took.
LEMMA SearchedPairsTaken ==
  ASSUME Searched, stage = "done" => unmatched = (DOMAIN node) \ taken
  PROVE  StrongPairsTaken
<1> SUFFICES ASSUME stage = "done", minScore <= 80,
                    NEW u \in unmatched, NEW v \in unmatched, u # v,
                    ~ Blocked(node[u], node[v]), EdgeScore(node[u], node[v]) >= 80
             PROVE  FALSE
  BY DEF StrongPairsTaken, JoinedAbove
<1>1. /\ node \in [1..Len(arrival) -> GraphShapes] /\ Len(arrival) \in Nat
      /\ u \in DOMAIN node /\ v \in DOMAIN node /\ u \notin taken /\ v \notin taken
      /\ frontier = {} /\ todo = <<>>
  BY GraphAssumption DEF Searched, Loaded
<1>2. ASSUME NEW x \in DOMAIN node, NEW y \in DOMAIN node, x \notin taken, y \notin taken
      PROVE  ~ Strong(x, y)
  BY <1>1, <1>2 DEF Searched, NoneMissed, Waiting, Pending, Ahead
<1>3. \A type : Rank(type) \in Int
  BY DEF Rank, TypeOrder
<1>4. Directed(node, u, v) \/ Directed(node, v, u)
  BY <1>1, <1>3 DEF Directed
<1>a. EdgeScore(node[u], node[v]) >= minScore
  BY EdgeScores DEF Searched, Loaded
<1>5. CASE Directed(node, u, v)
  BY <1>1, <1>2, <1>a, <1>5 DEF Strong, CandidateEdges
<1>6. CASE Directed(node, v, u)
  <2>1. /\ ~ Blocked(node[v], node[u]) /\ EdgeScore(node[v], node[u]) >= 80
        /\ EdgeScore(node[v], node[u]) >= minScore
    BY <1>1, <1>a, EitherWay
  <2> QED  BY <1>1, <1>2, <1>6, <2>1 DEF Strong, CandidateEdges
<1> QED  BY <1>4, <1>5, <1>6

\* No record that is left over would have been a better end for the record a path
\* starts from: what the search visits first does not hide it.
THEOREM EndsAreOptimal == GraphSpec => []OptimalEnds
<1>1. GraphInit => MembersAccounted
  BY DEF GraphInit, MembersAccounted, UsedAreMembers, RestUnmatched
<1>2. MembersAccounted => (stage = "done" => unmatched = (DOMAIN node) \ taken)
  BY DEF MembersAccounted, UsedAreMembers, RestUnmatched
<1>3. Searched /\ MembersAccounted => OptimalEnds
  BY <1>2 DEF Searched, BestEnds, Loaded, OptimalEnds, Unit
<1> QED  BY <1>1, <1>3, AccountedInductive, SearchedAtFirst, SearchedInductive, PTL DEF GraphSpec

\* No two records stay unmatched that agree on the amount, or nearly: the search
\* from the one comes to the other, and no detour hides it.
THEOREM StrongPairsAreMatched == GraphSpec => []StrongPairsTaken
<1>1. GraphInit => MembersAccounted
  BY DEF GraphInit, MembersAccounted, UsedAreMembers, RestUnmatched
<1>2. MembersAccounted => (stage = "done" => unmatched = (DOMAIN node) \ taken)
  BY DEF MembersAccounted, UsedAreMembers, RestUnmatched
<1>3. Searched /\ MembersAccounted => StrongPairsTaken
  BY <1>2, SearchedPairsTaken
<1> QED  BY <1>1, <1>3, AccountedInductive, SearchedAtFirst, SearchedInductive, PTL DEF GraphSpec

-----------------------------------------------------------------------------
(* Types of the graph reconciliation.                                         *)

\* A strict total order of 1..n.
Orders(before, n) ==
  /\ \A u, v \in 1..n : u # v => <<u, v>> \in before \/ <<v, u>> \in before
  /\ \A u, v \in 1..n : <<u, v>> \in before => <<v, u>> \notin before
  /\ \A u, v, w \in 1..n : <<u, v>> \in before /\ <<v, w>> \in before => <<u, w>> \in before

\* An injection of 1..n into itself is onto.
LEMMA Onto ==
  ASSUME NEW n \in Nat, NEW f \in [1..n -> 1..n], \A u, v \in 1..n : f[u] = f[v] => u = v
  PROVE  \A w \in 1..n : \E v \in 1..n : f[v] = w
<1> DEFINE S == 1..n
<1>1. IsFiniteSet(S)
  BY FS_Interval
<1>a. IsInjective(f)
  BY DEF IsInjective
<1>b. f \in Injection(S, S)
  BY <1>a DEF Injection
<1>2. f \in Surjection(S, S)
  <2> HIDE DEF S
  <2> QED  BY <1>1, <1>b, FS_Injection
<1> QED  BY <1>2 DEF Surjection

\* The members of 1..n can be listed in any strict order.
LEMMA SortingExists ==
  ASSUME NEW n \in Nat, NEW before, Orders(before, n)
  PROVE  \E p \in [1..n -> 1..n] : \A g, j \in 1..n : g < j => <<p[g], p[j]>> \in before
<1> DEFINE S == 1..n
           Below(u) == {v \in S : <<v, u>> \in before}
           place == [u \in S |-> Cardinality(Below(u)) + 1]
<1>1. IsFiniteSet(S) /\ Cardinality(S) = n
  BY FS_Interval
<1>2. ASSUME NEW u \in S PROVE IsFiniteSet(Below(u)) /\ Cardinality(Below(u)) \in Nat /\ Cardinality(Below(u)) + 1 \in S
  <2>1. Below(u) \in SUBSET S /\ u \notin Below(u)
    BY DEF Orders
  <2>2. IsFiniteSet(Below(u)) /\ Cardinality(Below(u)) \in Nat /\ Cardinality(Below(u)) <= n
    <3> HIDE DEF S, Below
    <3> QED  BY <1>1, <2>1, FS_Subset, FS_CardinalityType
  <2>3. Cardinality(Below(u)) # n
    <3> HIDE DEF S, Below
    <3> QED  BY <1>1, <2>1, FS_Subset
  <2> QED  BY <2>2, <2>3
<1>3. ASSUME NEW u \in S, NEW v \in S, <<u, v>> \in before
      PROVE  place[u] < place[v]
  <2>1. Below(u) \in SUBSET Below(v) /\ u \in Below(v) /\ u \notin Below(u)
    BY <1>3 DEF Orders
  <2>2. /\ IsFiniteSet(Below(v)) /\ Cardinality(Below(v)) \in Nat /\ Cardinality(Below(u)) \in Nat
    BY <1>2
  <2>3. Cardinality(Below(u)) < Cardinality(Below(v))
    <3> HIDE DEF S, Below
    <3> QED  BY <2>1, <2>2, FS_Subset
  <2>4. place[u] = Cardinality(Below(u)) + 1 /\ place[v] = Cardinality(Below(v)) + 1
    OBVIOUS
  <2> HIDE DEF place, Below
  <2> QED  BY <2>2, <2>3, <2>4
<1>4. place \in [S -> S]
  BY <1>2
<1> HIDE DEF place, Below
<1>5. \A u \in S : place[u] \in Nat
  BY <1>4
<1>6. \A u, v \in S : u = v \/ <<u, v>> \in before \/ <<v, u>> \in before
  BY DEF Orders
<1>7. ASSUME NEW u \in S, NEW v \in S, place[u] = place[v] PROVE u = v
  <2>1. ~(place[u] < place[v]) /\ ~(place[v] < place[u])
    BY <1>5, <1>7
  <2> QED  BY <1>3, <1>6, <2>1
<1>8. \A g \in S : \E u \in S : place[u] = g
  BY <1>4, <1>7, Onto
<1> DEFINE p == [g \in S |-> CHOOSE u \in S : place[u] = g]
<1>9. p \in [S -> S] /\ \A g \in S : place[p[g]] = g
  BY <1>8
<1> HIDE DEF p
<1>10. \A g, j \in S : g < j => <<p[g], p[j]>> \in before
  <2> SUFFICES ASSUME NEW g \in S, NEW j \in S, g < j PROVE <<p[g], p[j]>> \in before
    OBVIOUS
  <2>1. p[g] \in S /\ p[j] \in S /\ place[p[g]] = g /\ place[p[j]] = j
    BY <1>9
  <2>2. CASE <<p[j], p[g]>> \in before
    BY <1>3, <2>1, <2>2
  <2>3. CASE p[g] = p[j]
    BY <2>1, <2>3
  <2> QED  BY <1>6, <2>1, <2>2, <2>3
<1> QED  BY <1>9, <1>10

\* The passes of an allocation come to every record once, in the order of the
\* stages of a payment and of the ids.
LEMMA OrderedAll ==
  ASSUME NEW n \in Nat, NEW shape, DOMAIN shape = 1..n
  PROVE  /\ Ordered(shape) \in [1..n -> 1..n]
         /\ \A u \in 1..n : \E k \in 1..n : Ordered(shape)[k] = u
         /\ \A g, j \in 1..n : g < j => Directed(shape, Ordered(shape)[g], Ordered(shape)[j])
<1> DEFINE S == 1..n
           before == {e \in S \X S : Directed(shape, e[1], e[2])}
           q == Ordered(shape)
<1>1. Cardinality(DOMAIN shape) = n
  BY FS_Interval
<1>2. \A u, v \in S : <<u, v>> \in before <=> Directed(shape, u, v)
  OBVIOUS
<1>3. \A type : Rank(type) \in Int
  BY DEF Rank, TypeOrder
<1>4. Orders(before, n)
  <2> HIDE DEF before
  <2>1. \A u, v \in S : u # v => <<u, v>> \in before \/ <<v, u>> \in before
    BY <1>2, <1>3 DEF Directed
  <2>2. \A u, v \in S : <<u, v>> \in before => <<v, u>> \notin before
    BY <1>2, <1>3 DEF Directed
  <2>3. \A u, v, w \in S : <<u, v>> \in before /\ <<v, w>> \in before => <<u, w>> \in before
    BY <1>2, <1>3 DEF Directed
  <2> QED  BY <2>1, <2>2, <2>3 DEF Orders
<1>5. \E p \in [S -> S] : \A g, j \in S : g < j => Directed(shape, p[g], p[j])
  <2>1. PICK p \in [S -> S] : \A g, j \in S : g < j => <<p[g], p[j]>> \in before
    BY <1>4, SortingExists
  <2> QED  BY <1>2, <2>1
<1>6. q \in [S -> S] /\ \A g, j \in S : g < j => Directed(shape, q[g], q[j])
  BY <1>1, <1>5 DEF Ordered
<1> HIDE DEF q
<1>7. \A g, j \in S : q[g] = q[j] => g = j
  <2> SUFFICES ASSUME NEW g \in S, NEW j \in S, q[g] = q[j], g < j PROVE FALSE
    OBVIOUS
  <2>1. Directed(shape, q[g], q[j]) /\ q[j] \in Int
    BY <1>6
  <2> QED  BY <1>3, <2>1 DEF Directed
<1>8. \A u \in S : \E k \in S : q[k] = u
  BY <1>6, <1>7, Onto
<1> QED  BY <1>6, <1>8 DEF q

-----------------------------------------------------------------------------
\* What the loops hold is of the records, whatever they have not looked at too.
GraphTyped ==
  /\ stage \in {"idle", "one_to_many", "many_to_one", "paths", "done", "raised"}
  /\ stage = "idle" => node = <<>> /\ arrival = <<>>
  /\ todo \in Seq(DOMAIN node)
  /\ taken \subseteq DOMAIN node /\ visited \subseteq DOMAIN node /\ unmatched \subseteq DOMAIN node
  /\ \A path \in paths : path.kind \in {"one_to_many", "many_to_one", "chain"} /\ path.members \subseteq DOMAIN node

LEMMA GraphTypedAtFirst == GraphInit => GraphTyped
BY DEF GraphInit, GraphTyped

\* The records are numbered.
LEMMA RecordsNumbered ==
  ASSUME Loaded, GraphTyped
  PROVE  /\ Len(arrival) \in Nat /\ DOMAIN node = 1..Len(arrival)
         /\ node \in [DOMAIN node -> GraphShapes] /\ arrival \in Arrivals \cup {<<>>}
<1>1. CASE stage = "idle"
  BY <1>1 DEF GraphTyped
<1>2. CASE stage # "idle"
  BY <1>2, GraphAssumption DEF Loaded
<1> QED  BY <1>1, <1>2

\* The sequence of all the records in their order.
LEMMA OrderedTyped ==
  ASSUME NEW n \in Nat, NEW shape, DOMAIN shape = 1..n
  PROVE  Ordered(shape) \in Seq(1..n)
BY OrderedAll

\* An allocation is of records there are.
LEMMA AllocateTyped ==
  ASSUME Searched, GraphTyped, NEW kind \in {"one_to_many", "many_to_one"}, Allocate(kind)
  PROVE  GraphTyped'
<1> DEFINE u == Head(todo)
<1>1. /\ stage = kind /\ todo # <<>> /\ todo' = Tail(todo) /\ UNCHANGED <<node, arrival, visited, unmatched>>
      /\ stage' \in {kind, "raised"} /\ todo \in Seq(DOMAIN node)
  BY DEF Allocate, records, search, GraphTyped
<1>2. u \in DOMAIN node /\ todo' \in Seq(DOMAIN node)
  BY <1>1
<1>3. \/ UNCHANGED <<taken, paths>>
      \/ \E G \in AllocationGroups(kind, u) : Select(Allocated(kind, u, G))
  BY DEF Allocate
<1>4. ASSUME NEW G \in AllocationGroups(kind, u), Select(Allocated(kind, u, G))
      PROVE  /\ taken' \subseteq DOMAIN node
             /\ \A path \in paths' : path.kind \in {"one_to_many", "many_to_one", "chain"} /\ path.members \subseteq DOMAIN node
  <2>1. G \subseteq DOMAIN node
    BY DEF AllocationGroups, Free
  <2>2. Allocated(kind, u, G).members = {u} \cup G /\ Allocated(kind, u, G).kind = kind
    BY DEF Allocated, GraphPath
  <2> QED  BY <1>2, <1>4, <2>1, <2>2 DEF Select, GraphTyped
<1>5. /\ taken' \subseteq DOMAIN node
      /\ \A path \in paths' : path.kind \in {"one_to_many", "many_to_one", "chain"} /\ path.members \subseteq DOMAIN node
  <2>1. CASE UNCHANGED <<taken, paths>>
    BY <2>1 DEF GraphTyped
  <2> QED  BY <1>3, <1>4, <2>1
<1> QED  BY <1>1, <1>2, <1>5 DEF GraphTyped

\* A path on the heap is of records there are.
LEMMA PopTyped == ASSUME Searched, GraphTyped, Pop PROVE GraphTyped'
<1>1. /\ stage = "paths" /\ UNCHANGED <<node, arrival, stage, todo, unmatched>>
  BY DEF Pop, records
<1>2. PICK p \in frontier :
        \/ UNCHANGED <<visited, taken, paths>>
        \/ visited' = {} /\ Select(GraphPath("chain", p[1], Nodes(p), Score(p)))
        \/ visited' = visited \cup {End(p)} /\ UNCHANGED <<taken, paths>>
  BY DEF Pop
<1>3. p \in Seq(DOMAIN node) /\ Len(p) \in 1..MaxHops
  BY DEF Searched, OneSearch, Explored
<1>4. Nodes(p) \subseteq DOMAIN node /\ End(p) \in DOMAIN node
  <2>1. Len(p) \in DOMAIN p /\ \A k \in DOMAIN p : p[k] \in DOMAIN node
    BY <1>3, GraphAssumption
  <2> QED  BY <2>1 DEF Nodes, End
<1>5. ASSUME Select(GraphPath("chain", p[1], Nodes(p), Score(p)))
      PROVE  /\ taken' \subseteq DOMAIN node
             /\ \A path \in paths' : path.kind \in {"one_to_many", "many_to_one", "chain"} /\ path.members \subseteq DOMAIN node
  <2> DEFINE chain == GraphPath("chain", p[1], Nodes(p), Score(p))
  <2>1. chain.members = Nodes(p) /\ chain.kind = "chain"
    BY DEF GraphPath
  <2> HIDE DEF chain
  <2>2. taken' = taken \cup chain.members /\ paths' = paths \cup {chain}
    BY <1>5 DEF Select, chain
  <2> QED  BY <1>4, <2>1, <2>2 DEF GraphTyped
<1>6. CASE UNCHANGED <<visited, taken, paths>>
  BY <1>1, <1>6 DEF GraphTyped
<1>7. CASE visited' = {} /\ Select(GraphPath("chain", p[1], Nodes(p), Score(p)))
  BY <1>1, <1>5, <1>7 DEF GraphTyped
<1>8. CASE visited' = visited \cup {End(p)} /\ UNCHANGED <<taken, paths>>
  BY <1>1, <1>4, <1>8 DEF GraphTyped
<1> QED  BY <1>2, <1>6, <1>7, <1>8

LEMMA GraphTypedInductive == Searched /\ GraphTyped /\ [GraphNext]_graphVars => GraphTyped'
<1> SUFFICES ASSUME Searched, GraphTyped, [GraphNext]_graphVars PROVE GraphTyped'
  OBVIOUS
<1>1. Loaded /\ Len(arrival) \in Nat /\ DOMAIN node = 1..Len(arrival)
  BY RecordsNumbered DEF Searched
<1>2. CASE BuildGraph
  <2>1. /\ stage = "idle" /\ stage' = "one_to_many" /\ UNCHANGED <<taken, visited, paths, unmatched>>
        /\ arrival' \in Arrivals /\ node' \in [1..Len(arrival') -> GraphShapes] /\ todo' = Ordered(node')
    BY <1>2 DEF BuildGraph, search
  <2>2. Len(arrival') \in Nat /\ DOMAIN node' = 1..Len(arrival')
    BY <2>1, GraphAssumption
  <2>3. todo' \in Seq(DOMAIN node')
    BY <2>1, <2>2, OrderedTyped
  <2>4. DOMAIN node = {} /\ paths = {}
    BY <2>1 DEF GraphTyped, Searched, Loaded
  <2> QED  BY <2>1, <2>3, <2>4 DEF GraphTyped
<1>3. CASE Allocate("one_to_many") \/ Allocate("many_to_one")
  BY <1>3, AllocateTyped
<1>4. CASE AllocateTargets
  <2>1. /\ stage = "one_to_many" /\ stage' = "many_to_one" /\ todo' = Ordered(node)
        /\ UNCHANGED <<node, arrival, taken, paths, visited, unmatched>>
    BY <1>4 DEF AllocateTargets, records, search
  <2>2. todo' \in Seq(DOMAIN node)
    BY <1>1, <2>1, OrderedTyped
  <2> QED  BY <2>1, <2>2 DEF GraphTyped
<1>5. CASE BeginSearch
  <2>1. /\ stage = "many_to_one" /\ stage' = "paths" /\ todo' = arrival
        /\ UNCHANGED <<node, arrival, taken, paths, visited, unmatched>>
    BY <1>5 DEF BeginSearch, records, search
  <2>2. arrival \in Seq(DOMAIN node)
    BY <1>1, <2>1, GraphAssumption DEF Loaded
  <2> QED  BY <2>1, <2>2 DEF GraphTyped
<1>6. CASE StartSearch
  <2>1. /\ stage = "paths" /\ todo # <<>> /\ todo' = Tail(todo) /\ visited' = {}
        /\ UNCHANGED <<node, arrival, stage, taken, paths, unmatched>>
    BY <1>6 DEF StartSearch, records
  <2>2. todo' \in Seq(DOMAIN node)
    BY <2>1 DEF GraphTyped
  <2> QED  BY <2>1, <2>2 DEF GraphTyped
<1>7. CASE Pop
  BY <1>7, PopTyped
<1>8. CASE FinishGraph
  <2>1. /\ stage = "paths" /\ stage' = "done" /\ unmatched' \subseteq DOMAIN node
        /\ UNCHANGED <<node, arrival, todo, taken, paths, visited>>
    BY <1>8 DEF FinishGraph, records, search
  <2> QED  BY <2>1 DEF GraphTyped
<1>9. CASE UNCHANGED graphVars
  BY <1>9 DEF graphVars, GraphTyped
<1> QED  BY <1>2, <1>3, <1>4, <1>5, <1>6, <1>7, <1>8, <1>9 DEF GraphNext

\* With what the search knows, every variable has its type.
LEMMA GraphTypedOK == Searched /\ GraphTyped => GraphTypeOK
<1> SUFFICES ASSUME Searched, GraphTyped PROVE GraphTypeOK
  OBVIOUS
<1>1. /\ Len(arrival) \in Nat /\ DOMAIN node = 1..Len(arrival)
      /\ node \in [DOMAIN node -> GraphShapes] /\ arrival \in Arrivals \cup {<<>>}
  BY RecordsNumbered DEF Searched
<1>2. Len(arrival) = Cardinality(DOMAIN node)
  BY <1>1, FS_Interval
<1>3. edges \subseteq (DOMAIN node) \X (DOMAIN node) /\ minScore \in 0..100
  BY DEF Searched, Loaded, CandidateEdges
<1>4. ASSUME NEW p \in frontier PROVE p \in Seq(DOMAIN node) /\ p # <<>>
  <2>1. p \in Seq(DOMAIN node) /\ Len(p) \in 1..MaxHops
    BY DEF Searched, OneSearch, Explored
  <2> QED  BY <2>1, GraphAssumption
<1> QED  BY <1>1, <1>2, <1>3, <1>4 DEF GraphTyped, GraphTypeOK

-----------------------------------------------------------------------------
(* The batch: the two engines, the parsers and the training side by side.     *)

\* What each of them keeps, beside what it needs to keep it.
BatchKept ==
  /\ TypeOK
  /\ Searched /\ GraphTyped
  /\ RowsTold /\ RowsTyped
  /\ PagesHonest /\ PdfTyped
  /\ Known /\ Grouping /\ TrainTyped

LEMMA BatchAtFirst == BatchInit => BatchKept
<1> SUFFICES ASSUME BatchInit PROVE BatchKept
  OBVIOUS
<1>1. TypeOK
  BY TypeAtFirst DEF BatchInit
<1>2. Searched /\ GraphTyped
  BY SearchedAtFirst, GraphTypedAtFirst DEF BatchInit
<1>3. RowsTold /\ RowsTyped
  BY ToldAtFirst, RowsTypedAtFirst DEF BatchInit
<1>4. PagesHonest /\ PdfTyped
  BY HonestAtFirst, PdfTypedAtFirst DEF BatchInit
<1>5. Known /\ Grouping /\ TrainTyped
  BY KnownAtFirst, GroupingAtFirst, TrainTypedAtFirst DEF BatchInit
<1> QED  BY <1>1, <1>2, <1>3, <1>4, <1>5 DEF BatchKept

\* A step of the batch is one of one of them, and none of the others'.
LEMMA BatchSteps ==
  [BatchNext]_batchVars => [Next]_vars /\ [GraphNext]_graphVars /\ [RowsNext]_rowVars /\ [PdfNext]_pdfVars /\ [TrainNext]_trainVars
BY DEF BatchNext, batchVars

\* So each of the programs keeps what it keeps by itself.
LEMMA BatchInductive == BatchKept /\ [BatchNext]_batchVars => BatchKept'
<1> SUFFICES ASSUME BatchKept, [BatchNext]_batchVars PROVE BatchKept'
  OBVIOUS
<1>1. [Next]_vars /\ [GraphNext]_graphVars /\ [RowsNext]_rowVars /\ [PdfNext]_pdfVars /\ [TrainNext]_trainVars
  BY BatchSteps
<1>2. TypeOK'
  BY <1>1, TypeInductive DEF BatchKept
<1>3. Searched' /\ GraphTyped'
  BY <1>1, SearchedInductive, GraphTypedInductive DEF BatchKept
<1>4. RowsTold' /\ RowsTyped'
  BY <1>1, ToldInductive, RowsTypedInductive DEF BatchKept
<1>5. PagesHonest' /\ PdfTyped'
  BY <1>1, HonestInductive, PdfTypedInductive DEF BatchKept
<1>6. Known' /\ Grouping' /\ TrainTyped'
  BY <1>1, KnownKept, GroupingInductive, TrainTypedInductive DEF BatchKept
<1> QED  BY <1>2, <1>3, <1>4, <1>5, <1>6 DEF BatchKept

\* Whatever records, files, pages and cases a batch is given, every variable of its
\* programs keeps its type: loops stay on their records, allocations and paths are
\* of records there are, confidences and scores are hundredths, thresholds are
\* scores the model gave.
THEOREM BatchesTyped == BatchSpec => []TypesOK
<1>1. BatchKept => TypesOK
  BY GraphTypedOK, RowsTypedOK, PdfTypedOK, TrainTypedOK DEF BatchKept, TypesOK
<1> QED  BY <1>1, BatchAtFirst, BatchInductive, PTL DEF BatchSpec
================================================================================

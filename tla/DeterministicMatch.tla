-------------------------- MODULE DeterministicMatch --------------------------
(* reconcile_records of services/reconciliation/deterministic/engine.py: a    *)
(* greedy one-to-one pass over the sources, a one-to-many pass over the       *)
(* sources left, a many-to-one pass over the targets left, and the report of  *)
(* what stayed unmatched.  One action is one iteration of one of its loops.   *)
(*                                                                            *)
(* The inputs are sorted by id before anything else, so a record is named by  *)
(* its position in that order; ids may repeat, and it is ids, not positions,  *)
(* that the two sets of the code remember.  Amounts are integers (the code    *)
(* uses Decimal, exactly), references are one value or none.                  *)
EXTENDS Integers, FiniteSets, Sequences, FiniteSetsExt

CONSTANTS Shapes,    \* the records there may be, members of ShapeType
          NoRef,     \* the absent reference or external id
          SourceIds, \* the sequences of ids the sources may have, sorted
          TargetIds, \* likewise for the targets
          DateWindow,
          MaxGroup

\* The references a record carries are the values of four optional fields.
ShapeType == [amount: Int, currency: STRING, refs: SUBSET STRING, ext: STRING \cup {NoRef},
              date: Int, fee: Int]

\* The ids of either side are a sorted sequence; an id is a number here.
ASSUME MatchAssumption ==
  /\ Shapes \subseteq ShapeType
  /\ \A ids \in SourceIds \cup TargetIds :
       ids \in Seq(Int) /\ \A j, k \in DOMAIN ids : j <= k => ids[j] <= ids[k]
  /\ DateWindow \in Nat /\ MaxGroup \in Nat

VARIABLES sid, tid,  \* ids by position
          src, tgt,  \* records by position
          pc,        \* the loop reconcile_records is in
          i,         \* the position it is at
          matched,   \* matched_sources, a set of ids
          used,      \* used_targets, a set of ids
          results

vars == <<sid, tid, src, tgt, pc, i, matched, used, results>>
input == <<sid, tid, src, tgt>>

Sources == DOMAIN sid
Targets == DOMAIN tid
FreeSources == {s \in Sources : sid[s] \notin matched}
FreeTargets == {t \in Targets : tid[t] \notin used}

-----------------------------------------------------------------------------
(* match_pair.  Confidence is in hundredths.                                  *)

Verdict(status, confidence) == [status |-> status, confidence |-> confidence]

Abs(n) == IF n < 0 THEN -n ELSE n

\* The fee of the source if it has one, else of the target; 0 is no fee.
FeeAmount(a, b) == Abs(IF a.fee # 0 THEN a.fee ELSE b.fee)

SameId(a, b) == a.ext # NoRef /\ a.ext = b.ext

SameEvidence(a, b) == a.refs \cap b.refs # {} \/ SameId(a, b)

\* With no common reference or id: the amount and the date, then a known fee.
ByAmount(delta, days, fee) ==
  IF delta = 0 /\ days <= DateWindow THEN Verdict("MATCHED", IF days = 0 THEN 95 ELSE 90)
  ELSE IF fee # 0 /\ delta = fee THEN Verdict("EXCEPTION", 90)
  ELSE Verdict("UNMATCHED", 0)

MatchPair(a, b) ==
  IF a.currency # b.currency THEN Verdict("EXCEPTION", 0)
  ELSE IF SameEvidence(a, b) THEN Verdict("MATCHED", 100)
  ELSE ByAmount(Abs(a.amount - b.amount), Abs(a.date - b.date), FeeAmount(a, b))

Pair(s, t) == MatchPair(src[s], tgt[t])

\* The candidates of a source, and the one max() picks: the highest confidence,
\* then the highest id, then the first.
Viable(s) == {t \in FreeTargets : Pair(s, t).status # "UNMATCHED"}

\* Mutant: the id decides before the confidence does.
BetterById(s, t, u) == tid[t] > tid[u] \/ (tid[t] = tid[u] /\ t <= u)

Better(s, t, u) ==
  \/ Pair(s, t).confidence > Pair(s, u).confidence
  \/ /\ Pair(s, t).confidence = Pair(s, u).confidence
     /\ tid[t] > tid[u] \/ (tid[t] = tid[u] /\ t <= u)

IsBest(s, t) == t \in Viable(s) /\ \A u \in Viable(s) : Better(s, t, u)

-----------------------------------------------------------------------------
(* allocate_one_to_many and allocate_many_to_one: the first combination, by   *)
(* size and then in the order of itertools.combinations, of same-currency     *)
(* records whose amounts add up to the other side.                            *)

Total(recs, G) == MapThenSumSet(LAMBDA p : recs[p].amount, G)

Fits(one, recs, G) ==
  /\ Cardinality(G) \in 2..MaxGroup
  /\ \A p \in G : recs[p].currency = one.currency
  /\ Total(recs, G) = one.amount

Groups(one, recs, free) == {G \in SUBSET free : Fits(one, recs, G)}

Earlier(G, H) ==
  \/ Cardinality(G) < Cardinality(H)
  \/ /\ Cardinality(G) = Cardinality(H)
     /\ \E p \in G \ H : \A q \in H \ G : p < q

IsFirst(G, groups) == G \in groups /\ \A H \in groups : G = H \/ Earlier(G, H)

\* An Allocation requires a positive amount: building one of a refund raises.
Allocatable(recs, G) == \A p \in G : recs[p].amount > 0

Result(S, T, status, confidence) ==
  [sources |-> S, targets |-> T, status |-> status, confidence |-> confidence]

-----------------------------------------------------------------------------
Init ==
  /\ sid \in SourceIds /\ tid \in TargetIds
  /\ src \in [Sources -> Shapes] /\ tgt \in [Targets -> Shapes]
  /\ pc = "pairs" /\ i = 1
  /\ matched = {} /\ used = {} /\ results = {}

\* One iteration of the loop in phase p, over the positions of one side.
Iterate(p, dom) ==
  /\ pc = p /\ i \in dom
  /\ i' = i + 1
  /\ UNCHANGED <<input, pc>>

\* Mutant: used_targets is not updated.
ReportUsedKept(r) ==
  /\ results' = results \cup {r}
  /\ matched' = matched \cup {sid[s] : s \in r.sources}
  /\ UNCHANGED used

Report(r) ==
  /\ results' = results \cup {r}
  /\ matched' = matched \cup {sid[s] : s \in r.sources}
  /\ used' = used \cup {tid[t] : t \in r.targets}

Skip == UNCHANGED <<matched, used, results>>

PairSource ==
  /\ Iterate("pairs", Sources)
  /\ \/ Viable(i) = {} /\ Skip
     \/ \E t \in Targets :
          IsBest(i, t) /\ Report(Result({i}, {t}, Pair(i, t).status, Pair(i, t).confidence))

\* Mutants: a group that covers the amount will do; range(2, max_group_size)
\* without the + 1.
TargetGroupsCovering ==
  {G \in SUBSET FreeTargets : Cardinality(G) \in 2..MaxGroup /\ Total(tgt, G) >= src[i].amount}
SourceGroupsShort == {G \in Groups(tgt[i], src, FreeSources) : Cardinality(G) < MaxGroup}

\* What allocate_one_to_many and allocate_many_to_one find for position i.
TargetGroups == Groups(src[i], tgt, FreeTargets)
SourceGroups == Groups(tgt[i], src, FreeSources)

AllocateSource ==
  /\ Iterate("one_to_many", Sources)
  /\ \/ (sid[i] \in matched \/ TargetGroups = {}) /\ Skip
     \/ /\ sid[i] \notin matched
        /\ \E G \in SUBSET Targets :
             IsFirst(G, TargetGroups) /\ Allocatable(tgt, G) /\ Report(Result({i}, G, "MATCHED", 88))

AllocateTarget ==
  /\ Iterate("many_to_one", Targets)
  /\ \/ (tid[i] \in used \/ SourceGroups = {}) /\ Skip
     \/ /\ tid[i] \notin used
        /\ \E G \in SUBSET Sources :
             IsFirst(G, SourceGroups) /\ Allocatable(src, G) /\ Report(Result(G, {i}, "MATCHED", 88))

\* The ValidationError of an Allocation ends the whole run: nothing is returned.
AllocationRaises ==
  /\ \/ /\ pc = "one_to_many" /\ i \in Sources /\ sid[i] \notin matched
        /\ \E G \in SUBSET Targets : IsFirst(G, TargetGroups) /\ ~Allocatable(tgt, G)
     \/ /\ pc = "many_to_one" /\ i \in Targets /\ tid[i] \notin used
        /\ \E G \in SUBSET Sources : IsFirst(G, SourceGroups) /\ ~Allocatable(src, G)
  /\ pc' = "raised"
  /\ UNCHANGED <<input, i, matched, used, results>>

\* The unmatched are appended to the results; the two sets stay as they are.
Emit(r) == results' = results \cup {r} /\ UNCHANGED <<matched, used>>

\* Mutant: the sources left are looked up among the used targets.
EmitSourceUsed ==
  /\ Iterate("emit_sources", Sources)
  /\ IF sid[i] \in used THEN Skip ELSE Emit(Result({i}, {}, "UNMATCHED", 0))

EmitSource ==
  /\ Iterate("emit_sources", Sources)
  /\ IF sid[i] \in matched THEN Skip ELSE Emit(Result({i}, {}, "UNMATCHED", 0))

EmitTarget ==
  /\ Iterate("emit_targets", Targets)
  /\ IF tid[i] \in used THEN Skip ELSE Emit(Result({}, {i}, "UNMATCHED", 0))

\* Mutant: a loop that starts before the first position.
NextLoopFromZero(from, dom, to) ==
  /\ pc = from /\ i \notin dom
  /\ pc' = to /\ i' = 0
  /\ UNCHANGED <<input, matched, used, results>>

NextLoop(from, dom, to) ==
  /\ pc = from /\ i \notin dom
  /\ pc' = to /\ i' = 1
  /\ UNCHANGED <<input, matched, used, results>>

Next ==
  \/ PairSource \/ AllocateSource \/ AllocateTarget \/ AllocationRaises
  \/ EmitSource \/ EmitTarget
  \/ NextLoop("pairs", Sources, "one_to_many")
  \/ NextLoop("one_to_many", Sources, "many_to_one")
  \/ NextLoop("many_to_one", Targets, "emit_sources")
  \/ NextLoop("emit_sources", Sources, "emit_targets")
  \/ NextLoop("emit_targets", Targets, "done")

Spec == Init /\ [][Next]_vars

-----------------------------------------------------------------------------
Phases == {"pairs", "one_to_many", "many_to_one", "emit_sources", "emit_targets", "done", "raised"}

TypeOK ==
  /\ sid \in SourceIds /\ tid \in TargetIds
  /\ src \in [Sources -> Shapes] /\ tgt \in [Targets -> Shapes]
  /\ pc \in Phases /\ i \in Nat \ {0}
  /\ matched \subseteq {sid[s] : s \in Sources}
  /\ used \subseteq {tid[t] : t \in Targets}
  /\ results \subseteq [sources: SUBSET Sources, targets: SUBSET Targets,
                        status: {"MATCHED", "EXCEPTION", "UNMATCHED"}, confidence: {0, 88, 90, 95, 100}]

Returned == pc = "done"
DistinctIds == /\ \A s, u \in Sources : sid[s] = sid[u] => s = u
               /\ \A t, u \in Targets : tid[t] = tid[u] => t = u

\* No record takes part in two results, whatever pass produced them: a target
\* consumed by a pair is in no allocation, a source of a group in no other.
UsedOnce ==
  DistinctIds => \A r, q \in results :
    r # q => r.sources \cap q.sources = {} /\ r.targets \cap q.targets = {}

\* "Unmatched records are retained in the output" (engine.py, reconcile_records):
\* what is returned speaks of every record of the input.
AllReported ==
  Returned => /\ Sources \subseteq UNION {r.sources : r \in results}
              /\ Targets \subseteq UNION {r.targets : r \in results}

\* The same, of an input whose ids are distinct on either side.
DistinctReported == DistinctIds => AllReported

InCurrency(recs, p, currency) == IF recs[p].currency = currency THEN recs[p].amount ELSE 0
MoneyIn(recs, P, currency) == MapThenSumSet(LAMBDA p : InCurrency(recs, p, currency), P)

\* What was matched on its amount, and not on a common reference or id.
OnAmount == {r \in results : r.status = "MATCHED" /\ r.confidence # 100}

\* The books balance: in every currency, all that was matched on its amount, pairs
\* and allocations together, adds up to the same on either side.  A group that does
\* not add up, a member in another currency or a record counted twice breaks it.
BooksBalance ==
  DistinctIds =>
    \A currency \in {src[s].currency : s \in Sources} \cup {tgt[t].currency : t \in Targets} :
      MoneyIn(src, UNION {r.sources : r \in OnAmount}, currency)
        = MoneyIn(tgt, UNION {r.targets : r \in OnAmount}, currency)

Unmatched(r) == r.status = "UNMATCHED"
LeftSources == UNION {r.sources : r \in {q \in results : Unmatched(q)}}
LeftTargets == UNION {r.targets : r \in {q \in results : Unmatched(q)}}

\* Greedy, yet exhaustive: no two records reported unmatched would have paired,
\* and no unmatched record is the total of a group of unmatched records.
NothingLeftToMatch ==
  Returned =>
    /\ \A s \in LeftSources, t \in LeftTargets : Pair(s, t).status = "UNMATCHED"
    /\ \A s \in LeftSources : Groups(src[s], tgt, LeftTargets) = {}
    /\ \A t \in LeftTargets : Groups(tgt[t], src, LeftSources) = {}

\* A source keeps the best of what it was offered: no target that ends up
\* unmatched would have matched it with a higher confidence.
NoBetterLeftOver ==
  Returned =>
    \A r \in results : r.confidence \in {90, 95} =>
      \A s \in r.sources, t \in LeftTargets : Pair(s, t).confidence <= r.confidence
==============================================================================

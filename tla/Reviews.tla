------------------------------- MODULE Reviews -------------------------------
(* Reconciliation runs, their investigations and their human reviews: the     *)
(* endpoints of apps/api/routes.py from POST /reconciliation/runs on, over    *)
(* the tables of apps/api/storage.py.  A handler is a sequence of store       *)
(* calls, each its own transaction, on a thread of its own.                   *)
(*                                                                            *)
(* A row is named by the request that inserts it, an audit event too: of a    *)
(* run only whether it has exceptions is kept, of an investigation its run.   *)
EXTENDS Naturals

CONSTANTS Creates,   \* requests to POST /reconciliation/runs
          Demos,     \* requests to POST /demo/seed-and-run
          Inquiries, \* requests to POST /reconciliation/runs/{id}/investigate
          Queues,    \* requests to POST /reconciliation/runs/{id}/reviews
          Deciders,  \* requests to POST /reviews/{id}/decision
          None,      \* no row yet
          MaxRaises  \* bound: handlers that end with an error between two calls

Requests == Creates \cup Demos \cup Inquiries \cup Queues \cup Deciders
RunIds == Creates \cup Demos
ReviewIds == Demos \cup Queues
Outcomes == {"clean", "exceptions"}
Decisions == {"AUTO_APPROVE", "REJECT", "ESCALATE"}
Statuses == {"PENDING"} \cup Decisions

ASSUME ReviewsAssumption ==
  /\ Creates \cap (Demos \cup Inquiries \cup Queues \cup Deciders) = {}
  /\ Demos \cap (Inquiries \cup Queues \cup Deciders) = {}
  /\ Inquiries \cap (Queues \cup Deciders) = {}
  /\ Queues \cap Deciders = {}
  /\ None \notin Requests \cup Outcomes \cup [run: RunIds, status: Statuses]
  /\ MaxRaises \in Nat

VARIABLES runs,     \* reconciliation_runs: whether each run has exceptions
          reviews,  \* review_decisions
          probes,   \* investigation_runs: the run of each
          trail,    \* audit_events
          handler,  \* each request: program counter, the row it is about, its decision
          raises

vars == <<runs, reviews, probes, trail, handler, raises>>

Stored(table, x) == table[x] # None
Event(r, e, entity, detail) == [id |-> r, event |-> e, entity |-> entity, detail |-> detail]

Init ==
  /\ runs = [x \in RunIds |-> None]
  /\ reviews = [v \in ReviewIds |-> None]
  /\ probes = [q \in Inquiries |-> None]
  /\ trail = {}
  /\ handler = [r \in Requests |-> [pc |-> "idle", about |-> None, decision |-> None]]
  /\ raises = 0

To(r, from, to) ==
  /\ handler[r].pc = from
  /\ handler' = [handler EXCEPT ![r].pc = to]
  /\ UNCHANGED raises

ToAbout(r, from, to, x) ==
  /\ handler[r].pc = from
  /\ handler' = [handler EXCEPT ![r].pc = to, ![r].about = x]
  /\ UNCHANGED raises

ToDecide(r, to, v, d) ==
  /\ handler[r].pc = "idle"
  /\ handler' = [handler EXCEPT ![r] = [pc |-> to, about |-> v, decision |-> d]]
  /\ UNCHANGED raises

Audit(r, event) ==
  /\ To(r, "audit", "done")
  /\ trail' = trail \cup {event}
  /\ UNCHANGED <<runs, reviews, probes>>

-----------------------------------------------------------------------------
(* create_reconciliation_run and seed_and_run_demo.                           *)

\* The results are computed before anything is stored.
CreateRun(r) ==
  \E outcome \in Outcomes :
    /\ r \in RunIds
    /\ To(r, "idle", IF r \in Demos /\ outcome = "exceptions" THEN "queue" ELSE "audit")
    /\ runs' = [runs EXCEPT ![r] = outcome]
    /\ UNCHANGED <<reviews, probes, trail>>

QueueReview(r, x) ==
  /\ reviews' = [reviews EXCEPT ![r] = [run |-> x, status |-> "PENDING"]]
  /\ UNCHANGED <<runs, probes, trail>>

DemoQueue(r) == r \in Demos /\ To(r, "queue", "audit") /\ QueueReview(r, r)

RunAudit(r) ==
  \/ r \in Creates /\ Audit(r, Event(r, "RECONCILIATION_RUN_COMPLETED", r, runs[r]))
  \/ r \in Demos /\ Audit(r, Event(r, "DEMO_RECONCILIATION_COMPLETED", r, runs[r]))

-----------------------------------------------------------------------------
(* investigate_run, queue_review and decide_review.                           *)

\* Mutant: a run without exceptions is investigated too.
InquiryGetAny(r) ==
  \E x \in RunIds :
    /\ r \in Inquiries
    /\ Stored(runs, x)
    /\ ToAbout(r, "idle", "model", x)
    /\ UNCHANGED <<runs, reviews, probes, trail>>

InquiryGet(r) ==
  \E x \in RunIds :
    /\ r \in Inquiries
    /\ runs[x] = "exceptions"
    /\ ToAbout(r, "idle", "model", x)
    /\ UNCHANGED <<runs, reviews, probes, trail>>

\* The model gateway answers, or the handler answers 503.
InquiryModel(r) ==
  /\ To(r, "model", "save") \/ To(r, "model", "refused")
  /\ UNCHANGED <<runs, reviews, probes, trail>>

\* Mutant: the id of the request is stored for the id of the run.
SaveInvestigationOwn(r) ==
  /\ To(r, "save", "audit")
  /\ probes' = [probes EXCEPT ![r] = r]
  /\ UNCHANGED <<runs, reviews, trail>>

SaveInvestigation(r) ==
  /\ To(r, "save", "audit")
  /\ probes' = [probes EXCEPT ![r] = handler[r].about]
  /\ UNCHANGED <<runs, reviews, trail>>

InquiryAudit(r) ==
  r \in Inquiries /\ Audit(r, Event(r, "INVESTIGATION_COMPLETED", handler[r].about, r))

QueueGet(r) ==
  \E x \in RunIds :
    /\ r \in Queues
    /\ Stored(runs, x)
    /\ ToAbout(r, "idle", "insert", x)
    /\ UNCHANGED <<runs, reviews, probes, trail>>

\* No audit event follows.
QueueInsert(r) == To(r, "insert", "done") /\ QueueReview(r, handler[r].about)

Pending(v) == Stored(reviews, v) /\ reviews[v].status = "PENDING"

\* Mutant: UPDATE review_decisions without AND status = 'PENDING'.
DecideAny(r) ==
  \E v \in ReviewIds, d \in Decisions :
    /\ r \in Deciders /\ Stored(reviews, v)
    /\ ToDecide(r, "audit", v, d)
    /\ reviews' = [reviews EXCEPT ![v].status = d]
    /\ UNCHANGED <<runs, probes, trail>>

\* Mutant: the decision is not audited.
DecideUnaudited(r) ==
  \E v \in ReviewIds, d \in Decisions :
    /\ r \in Deciders /\ Pending(v)
    /\ ToDecide(r, "done", v, d)
    /\ reviews' = [reviews EXCEPT ![v].status = d]
    /\ UNCHANGED <<runs, probes, trail>>

\* UPDATE ... WHERE id = :id AND status = 'PENDING'; the row is read back for
\* the reply, and nobody else changes it any more.
Decide(r) ==
  \E v \in ReviewIds, d \in Decisions :
    /\ r \in Deciders /\ Pending(v)
    /\ ToDecide(r, "audit", v, d)
    /\ reviews' = [reviews EXCEPT ![v].status = d]
    /\ UNCHANGED <<runs, probes, trail>>

\* 404 or 409: no such run or review, no exceptions, no longer pending.
Refused(r) ==
  /\ \/ r \in Inquiries /\ \E x \in RunIds : runs[x] # "exceptions"
     \/ r \in Queues /\ \E x \in RunIds : ~Stored(runs, x)
     \/ r \in Deciders /\ \E v \in ReviewIds : ~Pending(v)
  /\ To(r, "idle", "refused")
  /\ UNCHANGED <<runs, reviews, probes, trail>>

DecideAudit(r) ==
  r \in Deciders /\ Audit(r, Event(r, "REVIEW_DECIDED", handler[r].about, handler[r].decision))

Busy == {"queue", "audit", "model", "save", "insert"}
Pcs == Busy \cup {"idle", "done", "refused", "failed"}

\* A store call raises, or the process dies: what was committed stays.
Raise(r) ==
  /\ raises < MaxRaises /\ raises' = raises + 1
  /\ handler[r].pc \in Busy
  /\ handler' = [handler EXCEPT ![r].pc = "failed"]
  /\ UNCHANGED <<runs, reviews, probes, trail>>

Next ==
  \E r \in Requests :
    \/ CreateRun(r) \/ DemoQueue(r) \/ RunAudit(r)
    \/ InquiryGet(r) \/ InquiryModel(r) \/ SaveInvestigation(r) \/ InquiryAudit(r)
    \/ QueueGet(r) \/ QueueInsert(r)
    \/ Decide(r) \/ Refused(r) \/ DecideAudit(r)
    \/ Raise(r)

Spec == Init /\ [][Next]_vars

-----------------------------------------------------------------------------
TypeOK ==
  /\ runs \in [RunIds -> Outcomes \cup {None}]
  /\ reviews \in [ReviewIds -> [run: RunIds, status: Statuses] \cup {None}]
  /\ probes \in [Inquiries -> RunIds \cup {None}]
  /\ \A e \in trail : e.id \in Requests /\ e.entity \in RunIds \cup ReviewIds
  /\ handler \in [Requests -> [pc: Pcs, about: RunIds \cup ReviewIds \cup {None},
                               decision: Decisions \cup {None}]]
  /\ raises \in 0..MaxRaises

Verdicts(v) == {e \in trail : e.event = "REVIEW_DECIDED" /\ e.entity = v}

\* However many reviewers answer at once, a review is decided once: the trail
\* holds at most one decision of it, and that is the one its row holds.
DecidedOnce ==
  \A v \in ReviewIds : \A e \in Verdicts(v) :
    /\ Verdicts(v) = {e}
    /\ Stored(reviews, v) /\ reviews[v].status = e.detail

\* A decision nobody could find in the trail is one whose handler has not ended
\* yet, or failed between the two transactions of decide_review.
DecisionAccounted ==
  \A v \in ReviewIds : Stored(reviews, v) /\ ~Pending(v) /\ Verdicts(v) = {} =>
    \E r \in Deciders : handler[r].about = v /\ handler[r].pc \in {"audit", "failed"}

\* Nothing is investigated or reviewed that was not reconciled, and the model is
\* only paid to look at a run with exceptions.
SubjectsExist ==
  /\ \A v \in ReviewIds : Stored(reviews, v) => Stored(runs, reviews[v].run)
  /\ \A q \in Inquiries : Stored(probes, q) => runs[probes[q]] = "exceptions"
==============================================================================

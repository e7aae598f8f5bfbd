---------------------------- MODULE ReviewsProofs ----------------------------
(* Theorems about Reviews, for any requests and any number of failures, and   *)
(* that the sum of it with what agents propose (MCReviews) is typed.          *)
EXTENDS MCReviews, ProposalProofs, TensorMuxProofs, TLAPS

USE DEF Busy, Pcs, Outcomes, Decisions, Statuses

-----------------------------------------------------------------------------
\* Every row, event and handler stays in its domain.  A handler in the middle of
\* an endpoint is a request to that endpoint and holds a stored run.
Roles ==
  \A r \in Requests :
    /\ handler[r].pc = "queue" => r \in Demos /\ runs[r] = "exceptions"
    /\ handler[r].pc = "insert" => r \in Queues /\ handler[r].about \in RunIds /\ Stored(runs, handler[r].about)
    /\ handler[r].pc \in {"model", "save"} =>
         r \in Inquiries /\ handler[r].about \in RunIds /\ runs[handler[r].about] = "exceptions"
    /\ handler[r].pc = "audit" /\ r \in RunIds => Stored(runs, r)
    /\ handler[r].pc = "audit" /\ r \in Inquiries => handler[r].about \in RunIds
    /\ handler[r].pc = "audit" /\ r \in Deciders => handler[r].about \in ReviewIds

\* A request that has not inserted its row has none.
Fresh ==
  /\ \A x \in RunIds : handler[x].pc = "idle" => runs[x] = None
  /\ \A v \in ReviewIds : handler[v].pc \in {"idle", "queue", "insert"} => reviews[v] = None

Held == TypeOK /\ Roles /\ Fresh

\* The steps of one handler.
RequestStep(r) ==
  \/ CreateRun(r) \/ DemoQueue(r) \/ RunAudit(r)
  \/ InquiryGet(r) \/ InquiryModel(r) \/ SaveInvestigation(r) \/ InquiryAudit(r)
  \/ QueueGet(r) \/ QueueInsert(r)
  \/ Decide(r) \/ Refused(r) \/ DecideAudit(r)
  \/ Raise(r)

\* The classes of requests, and the one thing a row is never.
LEMMA Classes ==
  /\ \A r \in Creates : r \notin Demos /\ r \notin Inquiries /\ r \notin Queues /\ r \notin Deciders
  /\ \A r \in Demos : r \notin Inquiries /\ r \notin Queues /\ r \notin Deciders
  /\ \A r \in Inquiries : r \notin Queues /\ r \notin Deciders
  /\ \A r \in Queues : r \notin Deciders
  /\ None \notin Requests /\ None \notin Outcomes
  /\ \A x \in RunIds, s \in Statuses : [run |-> x, status |-> s] # None
BY ReviewsAssumption

LEMMA Parts ==
  /\ RunIds \subseteq Requests /\ ReviewIds \subseteq Requests
  /\ Creates \subseteq RunIds /\ Demos \subseteq RunIds /\ Demos \subseteq ReviewIds
  /\ Queues \subseteq ReviewIds /\ Deciders \subseteq Requests /\ Inquiries \subseteq Requests
BY DEF Requests, RunIds, ReviewIds

HandlerOK == handler \in [Requests -> [pc: Pcs, about: RunIds \cup ReviewIds \cup {None},
                                       decision: Decisions \cup {None}]]

\* A handler moves within its domain.
LEMMA HandlerTyped ==
  ASSUME TypeOK, NEW r \in Requests,
         \/ \E from, to \in Pcs : To(r, from, to)
         \/ \E from, to \in Pcs, x \in RunIds : ToAbout(r, from, to, x)
         \/ \E to \in Pcs, v \in ReviewIds, d \in Decisions : ToDecide(r, to, v, d)
  PROVE  HandlerOK' /\ raises' = raises
<1>0. HandlerOK /\ handler[r] \in [pc: Pcs, about: RunIds \cup ReviewIds \cup {None},
                                    decision: Decisions \cup {None}]
  BY DEF TypeOK, HandlerOK
<1> USE DEF HandlerOK
<1>1. ASSUME NEW from, NEW to \in Pcs, To(r, from, to) PROVE HandlerOK' /\ raises' = raises
  <2>1. [handler[r] EXCEPT !.pc = to] \in [pc: Pcs, about: RunIds \cup ReviewIds \cup {None},
                                          decision: Decisions \cup {None}]
    BY <1>0
  <2> QED BY <1>0, <1>1, <2>1 DEF To
<1>2. ASSUME NEW from, NEW to \in Pcs, NEW x \in RunIds, ToAbout(r, from, to, x)
      PROVE  HandlerOK' /\ raises' = raises
  <2>1. [handler[r] EXCEPT !.pc = to, !.about = x] \in [pc: Pcs, about: RunIds \cup ReviewIds \cup {None},
                                                       decision: Decisions \cup {None}]
    BY <1>0
  <2> QED BY <1>0, <1>2, <2>1 DEF ToAbout
<1>3. ASSUME NEW to \in Pcs, NEW v \in ReviewIds, NEW d \in Decisions, ToDecide(r, to, v, d)
      PROVE  HandlerOK' /\ raises' = raises
  BY <1>0, <1>3 DEF ToDecide
<1> QED BY <1>1, <1>2, <1>3

LEMMA TypeStep ==
  ASSUME Held, NEW r \in Requests, RequestStep(r)
  PROVE  TypeOK'
<1> DEFINE TrailOK == \A e \in trail : e.id \in Requests /\ e.entity \in RunIds \cup ReviewIds
<1>a. HandlerOK /\ TrailOK /\ raises \in 0..MaxRaises
  BY DEF Held, TypeOK, HandlerOK
<1>b. ASSUME NEW e, NEW x \in RunIds \cup ReviewIds, NEW d, Audit(r, Event(r, e, x, d)) PROVE TypeOK'
  <2>1. TrailOK'
    BY <1>a, <1>b DEF Audit, Event
  <2>2. HandlerOK' /\ raises' = raises
    BY <1>b, HandlerTyped DEF Held, Audit
  <2> QED BY <1>a, <1>b, <2>1, <2>2 DEF Held, TypeOK, HandlerOK, Audit
<1>c. ASSUME UNCHANGED <<runs, reviews, probes, trail>>, HandlerOK', raises' \in 0..MaxRaises PROVE TypeOK'
  BY <1>a, <1>c DEF Held, TypeOK, HandlerOK
<1>1. CASE CreateRun(r)
  <2>1. HandlerOK' /\ raises' = raises
    BY <1>1, HandlerTyped DEF Held, CreateRun
  <2> QED BY <1>a, <1>1, <2>1 DEF Held, TypeOK, HandlerOK, CreateRun
<1>2. CASE DemoQueue(r)
  <2>1. HandlerOK' /\ raises' = raises
    BY <1>2, HandlerTyped DEF Held, DemoQueue
  <2> QED BY <1>a, <1>2, <2>1, Parts DEF Held, TypeOK, HandlerOK, DemoQueue, QueueReview
<1>3. CASE RunAudit(r)
  BY <1>b, <1>3, Parts DEF RunAudit
<1>4. CASE InquiryGet(r)
  BY <1>a, <1>c, <1>4, HandlerTyped DEF Held, InquiryGet
<1>5. CASE InquiryModel(r)
  BY <1>a, <1>c, <1>5, HandlerTyped DEF Held, InquiryModel
<1>6. CASE SaveInvestigation(r)
  <2>1. HandlerOK' /\ raises' = raises
    BY <1>6, HandlerTyped DEF Held, SaveInvestigation
  <2>2. handler[r].about \in RunIds /\ r \in Inquiries
    BY <1>6 DEF Held, Roles, SaveInvestigation, To
  <2> QED BY <1>a, <1>6, <2>1, <2>2 DEF Held, TypeOK, HandlerOK, SaveInvestigation
<1>7. CASE InquiryAudit(r)
  BY <1>b, <1>7 DEF InquiryAudit, Audit, To, Held, Roles
<1>8. CASE QueueGet(r)
  BY <1>a, <1>c, <1>8, HandlerTyped DEF Held, QueueGet
<1>9. CASE QueueInsert(r)
  <2>1. HandlerOK' /\ raises' = raises
    BY <1>9, HandlerTyped DEF Held, QueueInsert
  <2>2. handler[r].about \in RunIds /\ r \in ReviewIds
    BY <1>9, Parts DEF Held, Roles, QueueInsert, To
  <2> QED BY <1>a, <1>9, <2>1, <2>2 DEF Held, TypeOK, HandlerOK, QueueInsert, QueueReview
<1>10. CASE Decide(r)
  <2>1. PICK v \in ReviewIds, d \in Decisions :
          /\ Pending(v) /\ ToDecide(r, "audit", v, d)
          /\ reviews' = [reviews EXCEPT ![v].status = d] /\ UNCHANGED <<runs, probes, trail>>
    BY <1>10 DEF Decide
  <2>2. HandlerOK' /\ raises' = raises
    BY <2>1, HandlerTyped DEF Held
  <2>3. reviews[v] \in [run: RunIds, status: Statuses]
    BY <2>1 DEF Held, TypeOK, Pending, Stored
  <2>4. reviews' \in [ReviewIds -> [run: RunIds, status: Statuses] \cup {None}]
    BY <2>1, <2>3 DEF Held, TypeOK
  <2> QED BY <1>a, <2>1, <2>2, <2>4 DEF Held, TypeOK, HandlerOK
<1>11. CASE Refused(r)
  BY <1>a, <1>c, <1>11, HandlerTyped DEF Held, Refused
<1>12. CASE DecideAudit(r)
  BY <1>b, <1>12 DEF DecideAudit, Audit, To, Held, Roles
<1>13. CASE Raise(r)
  <2>1. HandlerOK' /\ raises' \in 0..MaxRaises
    BY <1>a, <1>13, ReviewsAssumption DEF Raise, HandlerOK
  <2> QED BY <1>c, <1>13, <2>1 DEF Raise
<1> QED BY <1>1, <1>2, <1>3, <1>4, <1>5, <1>6, <1>7, <1>8, <1>9, <1>10, <1>11, <1>12, <1>13 DEF RequestStep

\* A step of a handler moves that handler only, and changes no run once stored.
LEMMA OwnStep ==
  ASSUME Held, NEW r \in Requests, RequestStep(r)
  PROVE  /\ \A q \in Requests : q # r => handler'[q] = handler[q]
         /\ \A x \in RunIds : Stored(runs, x) => runs'[x] = runs[x]
         /\ \A x \in RunIds : x # r => runs'[x] = runs[x]
<1>1. \A q \in Requests : q # r => handler'[q] = handler[q]
  <2> USE DEF Held, TypeOK
  <2>1. ASSUME NEW from, NEW to, To(r, from, to) PROVE \A q \in Requests : q # r => handler'[q] = handler[q]
    BY <2>1 DEF To
  <2>2. ASSUME NEW from, NEW to, NEW x, ToAbout(r, from, to, x)
        PROVE  \A q \in Requests : q # r => handler'[q] = handler[q]
    BY <2>2 DEF ToAbout
  <2>3. ASSUME NEW to, NEW v, NEW d, ToDecide(r, to, v, d)
        PROVE  \A q \in Requests : q # r => handler'[q] = handler[q]
    BY <2>3 DEF ToDecide
  <2>4. CASE CreateRun(r) \/ DemoQueue(r) \/ RunAudit(r) \/ InquiryModel(r) \/ SaveInvestigation(r)
    BY <2>1, <2>4 DEF CreateRun, DemoQueue, RunAudit, InquiryModel, SaveInvestigation, Audit
  <2>5. CASE InquiryGet(r) \/ QueueGet(r)
    BY <2>2, <2>5 DEF InquiryGet, QueueGet
  <2>6. CASE InquiryAudit(r) \/ QueueInsert(r) \/ Refused(r) \/ DecideAudit(r)
    BY <2>1, <2>6 DEF InquiryAudit, QueueInsert, Refused, DecideAudit, Audit
  <2>7. CASE Decide(r)
    BY <2>3, <2>7 DEF Decide
  <2>8. CASE Raise(r)
    BY <2>8 DEF Raise
  <2> QED BY <2>4, <2>5, <2>6, <2>7, <2>8 DEF RequestStep
<1>2. CASE CreateRun(r)
  <2>1. r \in RunIds /\ runs[r] = None
    BY <1>2 DEF CreateRun, To, Held, Fresh
  <2> QED BY <1>1, <1>2, <2>1 DEF CreateRun, Held, TypeOK, Stored
<1>3. CASE ~CreateRun(r)
  <2>1. runs' = runs
    BY <1>3 DEF RequestStep, DemoQueue, RunAudit, InquiryGet, InquiryModel, SaveInvestigation,
                InquiryAudit, QueueGet, QueueInsert, Decide, Refused, DecideAudit, Raise, Audit, QueueReview
  <2> QED BY <1>1, <2>1
<1> QED BY <1>2, <1>3

LEMMA RolesStep ==
  ASSUME Held, NEW r \in Requests, RequestStep(r)
  PROVE  Roles'
<1> DEFINE Role(q) ==
      /\ handler[q].pc = "queue" => q \in Demos /\ runs[q] = "exceptions"
      /\ handler[q].pc = "insert" => q \in Queues /\ handler[q].about \in RunIds /\ Stored(runs, handler[q].about)
      /\ handler[q].pc \in {"model", "save"} =>
           q \in Inquiries /\ handler[q].about \in RunIds /\ runs[handler[q].about] = "exceptions"
      /\ handler[q].pc = "audit" /\ q \in RunIds => Stored(runs, q)
      /\ handler[q].pc = "audit" /\ q \in Inquiries => handler[q].about \in RunIds
      /\ handler[q].pc = "audit" /\ q \in Deciders => handler[q].about \in ReviewIds
<1>a. \A q \in Requests : Role(q)
  BY DEF Held, Roles
<1>b. \A x \in RunIds : runs[x] = "exceptions" => runs'[x] = "exceptions"
  BY OwnStep, Classes DEF Stored
<1>c. \A x \in RunIds : Stored(runs, x) => Stored(runs', x)
  BY OwnStep DEF Stored
<1>d. ASSUME NEW q \in Requests, q # r PROVE Role(q)'
  <2>1. Role(q) /\ handler'[q] = handler[q]
    BY <1>a, <1>d, OwnStep
  <2> QED BY <1>b, <1>c, <2>1, Parts DEF Stored
<1>e. handler'[r].pc \in {"idle", "done", "refused", "failed"} => Role(r)'
  OBVIOUS
<1> HIDE DEF Role
<1>f. Role(r)'
  <2> USE DEF Role, Held, TypeOK
  <2>1. CASE CreateRun(r)
    <3>1. PICK outcome \in Outcomes :
            /\ r \in RunIds /\ runs'[r] = outcome
            /\ handler'[r].pc = IF r \in Demos /\ outcome = "exceptions" THEN "queue" ELSE "audit"
      BY <2>1 DEF CreateRun, To
    <3> QED BY <3>1, Classes DEF Stored, RunIds
  <2>2. CASE DemoQueue(r)
    <3>1. r \in Demos /\ handler'[r].pc = "audit" /\ runs'[r] = "exceptions"
      BY <1>a, <1>b, <2>2, Parts DEF DemoQueue, To
    <3> QED BY <3>1, Classes DEF Stored
  <2>3. CASE InquiryGet(r)
    <3>1. PICK x \in RunIds : r \in Inquiries /\ runs[x] = "exceptions" /\ ToAbout(r, "idle", "model", x)
      BY <2>3 DEF InquiryGet
    <3>2. handler'[r].pc = "model" /\ handler'[r].about = x
      BY <3>1 DEF ToAbout
    <3> QED BY <1>b, <3>1, <3>2
  <2>4. CASE InquiryModel(r)
    <3>1. handler'[r].pc \in {"save", "refused"} /\ handler'[r].about = handler[r].about /\ handler[r].pc = "model"
      BY <2>4 DEF InquiryModel, To
    <3> QED BY <1>a, <1>b, <3>1
  <2>5. CASE SaveInvestigation(r)
    <3>1. handler'[r].pc = "audit" /\ handler'[r].about = handler[r].about /\ handler[r].pc = "save"
      BY <2>5 DEF SaveInvestigation, To
    <3> QED BY <1>a, <3>1, Classes DEF RunIds
  <2>6. CASE QueueGet(r)
    <3>1. PICK x \in RunIds : r \in Queues /\ Stored(runs, x) /\ ToAbout(r, "idle", "insert", x)
      BY <2>6 DEF QueueGet
    <3>2. handler'[r].pc = "insert" /\ handler'[r].about = x
      BY <3>1 DEF ToAbout
    <3> QED BY <1>c, <3>1, <3>2 DEF Stored
  <2>7. CASE Decide(r)
    <3>1. PICK v \in ReviewIds, d \in Decisions : r \in Deciders /\ ToDecide(r, "audit", v, d)
      BY <2>7 DEF Decide
    <3>2. handler'[r].pc = "audit" /\ handler'[r].about = v
      BY <3>1 DEF ToDecide
    <3> QED BY <3>1, <3>2, Classes DEF RunIds
  <2>8. CASE RunAudit(r) \/ InquiryAudit(r) \/ QueueInsert(r) \/ Refused(r) \/ DecideAudit(r)
    <3>1. handler'[r].pc \in {"done", "refused"}
      BY <2>8 DEF RunAudit, InquiryAudit, QueueInsert, Refused, DecideAudit, Audit, To
    <3> QED BY <1>e, <3>1
  <2>9. CASE Raise(r)
    <3>1. handler'[r].pc = "failed"
      BY <2>9 DEF Raise
    <3> QED BY <1>e, <3>1
  <2> QED BY <2>1, <2>2, <2>3, <2>4, <2>5, <2>6, <2>7, <2>8, <2>9 DEF RequestStep
<1> QED BY <1>d, <1>f DEF Roles, Role

LEMMA FreshStep ==
  ASSUME Held, NEW r \in Requests, RequestStep(r)
  PROVE  Fresh'
<1> USE DEF Held, TypeOK
<1>1. ASSUME NEW x \in RunIds, handler'[x].pc = "idle" PROVE runs'[x] = None
  <2>1. x # r
    BY <1>1, Parts DEF RequestStep, CreateRun, DemoQueue, RunAudit, InquiryGet, InquiryModel,
       SaveInvestigation, InquiryAudit, QueueGet, QueueInsert, Decide, Refused, DecideAudit, Raise,
       Audit, To, ToAbout, ToDecide
  <2> QED BY <1>1, <2>1, OwnStep, Parts DEF Fresh
<1>2. ASSUME NEW v \in ReviewIds, handler'[v].pc \in {"idle", "queue", "insert"} PROVE reviews'[v] = None
  <2>1. CASE v = r
    <3>1. CASE CreateRun(r) \/ QueueGet(r)
      BY <1>2, <2>1, <3>1 DEF CreateRun, QueueGet, To, ToAbout, Fresh
    <3>2. CASE ~(CreateRun(r) \/ QueueGet(r))
      BY <1>2, <2>1, <3>2 DEF RequestStep, DemoQueue, RunAudit, InquiryGet, InquiryModel,
         SaveInvestigation, InquiryAudit, QueueInsert, Decide, Refused, DecideAudit, Raise,
         Audit, To, ToAbout, ToDecide
    <3> QED BY <3>1, <3>2
  <2>2. CASE v # r
    <3>1. reviews[v] = None
      BY <1>2, <2>2, OwnStep, Parts DEF Fresh
    <3>2. ASSUME Decide(r) PROVE reviews'[v] = reviews[v]
      BY <3>1, <3>2 DEF Decide, Pending, Stored
    <3>3. ASSUME ~Decide(r) PROVE reviews'[v] = reviews[v]
      BY <2>2, <3>3 DEF RequestStep, CreateRun, DemoQueue, RunAudit, InquiryGet, InquiryModel,
         SaveInvestigation, InquiryAudit, QueueGet, QueueInsert, Refused, DecideAudit, Raise,
         Audit, QueueReview
    <3> QED BY <3>1, <3>2, <3>3
  <2> QED BY <2>1, <2>2
<1> QED BY <1>1, <1>2 DEF Fresh

\* Typed, in role and fresh at first, and after every step.
LEMMA HeldAtFirst == Init => Held
<1> SUFFICES ASSUME Init PROVE Held
  OBVIOUS
<1>1. TypeOK
  BY ReviewsAssumption DEF Init, TypeOK
<1>2. Roles /\ Fresh
  BY Parts DEF Init, Roles, Fresh
<1> QED BY <1>1, <1>2 DEF Held

LEMMA HeldInductive == Held /\ [Next]_vars => Held'
<1> SUFFICES ASSUME Held, [Next]_vars PROVE Held'
  OBVIOUS
<1>1. CASE Next
  <2>1. PICK r \in Requests : RequestStep(r)
    BY <1>1 DEF Next, RequestStep
  <2> QED BY <2>1, TypeStep, RolesStep, FreshStep DEF Held
<1>2. CASE UNCHANGED vars
  BY <1>2 DEF vars, Held, TypeOK, Roles, Fresh, Stored
<1> QED BY <1>1, <1>2

\* Rows, events and handlers stay in their domains, a handler in the middle of
\* an endpoint holds a run that is stored, and ids are never inserted twice.
THEOREM TypeCorrect == Spec => [](TypeOK /\ Roles /\ Fresh)
BY HeldAtFirst, HeldInductive, PTL DEF Spec, Held

-----------------------------------------------------------------------------
(* Decisions.                                                                 *)

\* What decide_review holds between its two transactions: the row it decided,
\* which no other handler holds and of which the trail says nothing yet.
Deciding(r) == r \in Deciders /\ handler[r].pc = "audit"
InHand(r, v) == Deciding(r) /\ handler[r].about = v

DecidersApart ==
  /\ \A v \in ReviewIds, r \in Requests : InHand(r, v) =>
       /\ Stored(reviews, v) /\ ~Pending(v) /\ reviews[v].status = handler[r].decision
       /\ Verdicts(v) = {}
  /\ \A v \in ReviewIds, r, q \in Requests : InHand(r, v) /\ InHand(q, v) => r = q

\* The trail speaks of decided reviews only.
VerdictsFinal == \A v \in ReviewIds : Verdicts(v) # {} => Stored(reviews, v) /\ ~Pending(v)

Decided == DecidersApart /\ VerdictsFinal /\ DecidedOnce

\* A step that is not of decide_review adds no verdict, decides no row and
\* undecides none.
LEMMA OtherStep ==
  ASSUME Held, NEW r \in Requests, RequestStep(r), ~Decide(r), ~DecideAudit(r)
  PROVE  /\ \A v \in ReviewIds : Stored(reviews, v) => reviews'[v] = reviews[v]
         /\ \A v : Verdicts(v)' = Verdicts(v)
         /\ ~Deciding(r)'
<1> USE DEF Held, TypeOK
<1>1. \A v \in ReviewIds : Stored(reviews, v) => reviews'[v] = reviews[v]
  <2>1. CASE DemoQueue(r) \/ QueueInsert(r)
    <3>1. r \in ReviewIds => reviews[r] = None
      BY <2>1 DEF DemoQueue, QueueInsert, To, Fresh
    <3> QED BY <2>1, <3>1 DEF DemoQueue, QueueInsert, QueueReview, Stored
  <2>2. CASE ~(DemoQueue(r) \/ QueueInsert(r))
    BY <2>2 DEF RequestStep, CreateRun, RunAudit, InquiryGet, InquiryModel, SaveInvestigation,
       InquiryAudit, QueueGet, Refused, Raise, Audit
  <2> QED BY <2>1, <2>2
<1>2. \A v : Verdicts(v)' = Verdicts(v)
  <2>1. CASE RunAudit(r) \/ InquiryAudit(r)
    BY <2>1 DEF RunAudit, InquiryAudit, Audit, Event, Verdicts
  <2>2. CASE ~(RunAudit(r) \/ InquiryAudit(r))
    <3>1. trail' = trail
      BY <2>2 DEF RequestStep, CreateRun, DemoQueue, InquiryGet, InquiryModel, SaveInvestigation,
         QueueGet, QueueInsert, Refused, Raise, QueueReview
    <3> QED BY <3>1 DEF Verdicts
  <2> QED BY <2>1, <2>2
<1>3. ~Deciding(r)'
  <2>1. CASE CreateRun(r) \/ DemoQueue(r) \/ SaveInvestigation(r)
    <3>1. r \in RunIds \/ r \in Inquiries
      BY <2>1, Parts DEF CreateRun, DemoQueue, SaveInvestigation, To, Roles
    <3> QED BY <3>1, Classes DEF Deciding, RunIds
  <2>2. CASE ~(CreateRun(r) \/ DemoQueue(r) \/ SaveInvestigation(r))
    BY <2>2 DEF RequestStep, RunAudit, InquiryGet, InquiryModel, InquiryAudit, QueueGet,
       QueueInsert, Refused, Raise, Audit, To, ToAbout, Deciding
  <2> QED BY <2>1, <2>2
<1> QED BY <1>1, <1>2, <1>3

\* The compare-and-set: only a pending review is decided, so no handler held it
\* and the trail said nothing of it.
LEMMA DecideStep ==
  ASSUME Held, Decided, NEW r \in Requests, Decide(r)
  PROVE  Decided'
<1> USE DEF Held, TypeOK
<1>1. PICK v \in ReviewIds, d \in Decisions :
        /\ r \in Deciders /\ Pending(v) /\ ToDecide(r, "audit", v, d)
        /\ reviews' = [reviews EXCEPT ![v].status = d] /\ UNCHANGED <<runs, probes, trail>>
  BY DEF Decide
<1>2. /\ handler'[r].pc = "audit" /\ handler'[r].about = v /\ handler'[r].decision = d
      /\ \A q \in Requests : q # r => handler'[q] = handler[q]
  BY <1>1 DEF ToDecide
<1>3. reviews[v] \in [run: RunIds, status: Statuses]
  BY <1>1 DEF Pending, Stored
<1>4. /\ reviews'[v].status = d /\ Stored(reviews, v)'
      /\ \A w \in ReviewIds : w # v => reviews'[w] = reviews[w]
  <2>1. reviews'[v] = [run |-> reviews[v].run, status |-> d] /\ reviews[v].run \in RunIds
    BY <1>1, <1>3
  <2> QED BY <1>1, <2>1, Classes DEF Stored
<1>5. \A w : Verdicts(w)' = Verdicts(w)
  BY <1>1 DEF Verdicts
<1>6. Verdicts(v) = {} /\ \A q \in Requests : ~InHand(q, v)
  BY <1>1 DEF Decided, VerdictsFinal, DecidersApart
<1>7. ~Pending(v)'
  BY <1>4 DEF Pending
<1>8. ASSUME NEW w \in ReviewIds, w # v
      PROVE  (Stored(reviews, w)' <=> Stored(reviews, w)) /\ (Pending(w)' <=> Pending(w))
  BY <1>4, <1>8 DEF Stored, Pending
<1>9. DecidersApart'
  <2>1. ASSUME NEW w \in ReviewIds, NEW q \in Requests
        PROVE  InHand(q, w)' <=> IF w = v THEN q = r ELSE q # r /\ InHand(q, w)
    BY <1>1, <1>2, <1>6 DEF InHand, Deciding
  <2>2. ASSUME NEW w \in ReviewIds, NEW q \in Requests, InHand(q, w)'
        PROVE  /\ Stored(reviews, w)' /\ ~Pending(w)' /\ reviews'[w].status = handler'[q].decision
               /\ Verdicts(w)' = {}
    <3>1. CASE w = v
      BY <1>2, <1>4, <1>5, <1>6, <1>7, <2>1, <2>2, <3>1
    <3>2. CASE w # v
      <4>1. q # r /\ InHand(q, w)
        BY <2>1, <2>2, <3>2
      <4> QED BY <1>2, <1>4, <1>5, <1>8, <3>2, <4>1 DEF Decided, DecidersApart
    <3> QED BY <3>1, <3>2
  <2>3. ASSUME NEW w \in ReviewIds, NEW p \in Requests, NEW q \in Requests, InHand(p, w)', InHand(q, w)'
        PROVE  p = q
    BY <2>1, <2>3 DEF Decided, DecidersApart
  <2> QED BY <2>2, <2>3 DEF DecidersApart
<1>10. VerdictsFinal'
  BY <1>4, <1>5, <1>7, <1>8 DEF Decided, VerdictsFinal
<1>11. DecidedOnce'
  BY <1>4, <1>5, <1>6, <1>8 DEF Decided, DecidedOnce
<1> QED BY <1>9, <1>10, <1>11 DEF Decided

\* The event of a decision is the first of its review and agrees with its row.
LEMMA DecideAuditStep ==
  ASSUME Held, Decided, NEW r \in Requests, DecideAudit(r)
  PROVE  Decided'
<1> USE DEF Held, TypeOK
<1> DEFINE e == Event(r, "REVIEW_DECIDED", handler[r].about, handler[r].decision)
<1>1. PICK v \in ReviewIds :
        /\ InHand(r, v) /\ e.event = "REVIEW_DECIDED" /\ e.entity = v /\ e.detail = handler[r].decision
        /\ trail' = trail \cup {e}
  BY DEF DecideAudit, Audit, To, Event, InHand, Deciding, Roles
<1> HIDE DEF e
<1>2. /\ UNCHANGED <<runs, reviews, probes>> /\ handler'[r].pc = "done"
      /\ \A q \in Requests : q # r => handler'[q] = handler[q]
  BY DEF DecideAudit, Audit, To
<1>3. Stored(reviews, v) /\ ~Pending(v) /\ reviews[v].status = e.detail /\ Verdicts(v) = {}
  BY <1>1 DEF Decided, DecidersApart
<1>4. Verdicts(v)' = {e} /\ \A w \in ReviewIds : w # v => Verdicts(w)' = Verdicts(w)
  BY <1>1, <1>3 DEF Verdicts
<1>5. \A w \in ReviewIds : (Stored(reviews, w)' <=> Stored(reviews, w)) /\ (Pending(w)' <=> Pending(w))
  BY <1>2 DEF Stored, Pending
<1>6. DecidersApart'
  <2>1. ASSUME NEW w \in ReviewIds, NEW q \in Requests, InHand(q, w)'
        PROVE  InHand(q, w) /\ q # r /\ w # v
    BY <1>1, <1>2, <2>1 DEF InHand, Deciding, Decided, DecidersApart
  <2>2. ASSUME NEW w \in ReviewIds, NEW q \in Requests, InHand(q, w)'
        PROVE  /\ Stored(reviews, w)' /\ ~Pending(w)' /\ reviews'[w].status = handler'[q].decision
               /\ Verdicts(w)' = {}
    BY <1>2, <1>4, <1>5, <2>1, <2>2 DEF Decided, DecidersApart
  <2> QED BY <2>1, <2>2 DEF DecidersApart, Decided
<1>7. VerdictsFinal'
  BY <1>3, <1>4, <1>5 DEF Decided, VerdictsFinal
<1>8. DecidedOnce'
  BY <1>2, <1>3, <1>4, <1>5 DEF Decided, DecidedOnce
<1> QED BY <1>6, <1>7, <1>8 DEF Decided

\* A review is decided once, whoever answers at once and whatever fails: the
\* row, its one event and the handler between the two agree.
THEOREM DecidedAtMostOnce == Spec => []DecidedOnce
<1>1. Init => Decided
  BY DEF Init, Decided, DecidersApart, VerdictsFinal, DecidedOnce, Verdicts, InHand, Deciding, Stored
<1>2. Held /\ Decided /\ [Next]_vars => Decided'
  <2> SUFFICES ASSUME Held, Decided, [Next]_vars PROVE Decided'
    OBVIOUS
  <2>1. ASSUME NEW r \in Requests, RequestStep(r), ~Decide(r), ~DecideAudit(r) PROVE Decided'
    <3>1. \A v \in ReviewIds, q \in Requests : InHand(q, v)' => InHand(q, v) /\ handler'[q] = handler[q]
      BY <2>1, OtherStep, OwnStep DEF InHand, Deciding
    <3>2. \A v \in ReviewIds : Verdicts(v)' = Verdicts(v)
      BY <2>1, OtherStep
    <3>3. \A v \in ReviewIds : Stored(reviews, v) =>
            Stored(reviews, v)' /\ reviews'[v] = reviews[v] /\ (Pending(v)' <=> Pending(v))
      BY <2>1, OtherStep DEF Stored, Pending
    <3>4. DecidersApart'
      BY <3>1, <3>2, <3>3 DEF Decided, DecidersApart
    <3>5. VerdictsFinal' /\ DecidedOnce'
      BY <3>2, <3>3 DEF Decided, VerdictsFinal, DecidedOnce
    <3> QED BY <3>4, <3>5 DEF Decided
  <2>2. CASE UNCHANGED vars
    BY <2>2 DEF vars, Decided, DecidersApart, VerdictsFinal, DecidedOnce, Verdicts, InHand, Deciding,
                Stored, Pending
  <2>3. CASE Next
    <3>1. PICK r \in Requests : RequestStep(r)
      BY <2>3 DEF Next, RequestStep
    <3> QED BY <2>1, <3>1, DecideStep, DecideAuditStep
  <2> QED BY <2>2, <2>3
<1>3. Spec => []Held
  BY TypeCorrect, PTL DEF Held
<1> QED BY <1>1, <1>2, <1>3, PTL DEF Spec, Decided

\* A handler that decided keeps its review until it has told the trail; every
\* other step leaves the decided reviews and their verdicts alone.
LEMMA AccountedStep ==
  ASSUME Held, DecisionAccounted, NEW r \in Requests, RequestStep(r)
  PROVE  DecisionAccounted'
<1> USE DEF Held, TypeOK
<1> DEFINE Accountable(q, v) == q \in Deciders /\ handler[q].about = v /\ handler[q].pc \in {"audit", "failed"}
<1>0. SUFFICES ASSUME NEW v \in ReviewIds, Stored(reviews, v)', ~Pending(v)', Verdicts(v)' = {}
               PROVE  \E q \in Deciders : Accountable(q, v)'
  BY DEF DecisionAccounted
<1>1. \A q \in Requests : q # r => handler'[q] = handler[q]
  BY OwnStep
<1>2. Stored(reviews, v) /\ ~Pending(v) /\ Verdicts(v) = {} => \E q \in Deciders : Accountable(q, v)
  BY DEF DecisionAccounted
<1>3. CASE Decide(r)
  <2>1. PICK w \in ReviewIds, d \in Decisions :
          /\ r \in Deciders /\ Pending(w) /\ ToDecide(r, "audit", w, d)
          /\ reviews' = [reviews EXCEPT ![w].status = d] /\ UNCHANGED <<runs, probes, trail>>
    BY <1>3 DEF Decide
  <2>2. handler[r].pc = "idle" /\ handler'[r].pc = "audit" /\ handler'[r].about = w
    BY <2>1 DEF ToDecide
  <2>3. CASE v = w
    BY <2>1, <2>2, <2>3
  <2>4. CASE v # w
    <3>1. reviews'[v] = reviews[v] /\ Verdicts(v)' = Verdicts(v)
      BY <2>1, <2>4 DEF Verdicts
    <3>2. PICK q \in Deciders : Accountable(q, v)
      BY <1>0, <1>2, <3>1 DEF Stored, Pending
    <3> QED BY <1>1, <2>2, <3>2, Parts
  <2> QED BY <2>3, <2>4
<1>4. CASE DecideAudit(r)
  <2> DEFINE e == Event(r, "REVIEW_DECIDED", handler[r].about, handler[r].decision)
  <2>1. e \in trail' /\ trail \subseteq trail' /\ UNCHANGED reviews
    BY <1>4 DEF DecideAudit, Audit
  <2>2. e.event = "REVIEW_DECIDED" /\ e.entity = handler[r].about
    BY DEF Event
  <2>3. Verdicts(v) = {} /\ handler[r].about # v
    BY <1>0, <2>1, <2>2 DEF Verdicts
  <2>4. PICK q \in Deciders : Accountable(q, v)
    BY <1>0, <1>2, <2>1, <2>3 DEF Stored, Pending
  <2> QED BY <1>1, <2>3, <2>4, Parts
<1>5. CASE ~Decide(r) /\ ~DecideAudit(r)
  <2>1. Stored(reviews, v)
    <3>1. ASSUME DemoQueue(r) \/ QueueInsert(r), ~Stored(reviews, v) PROVE FALSE
      <4>1. PICK x : reviews' = [reviews EXCEPT ![r] = [run |-> x, status |-> "PENDING"]]
        BY <3>1 DEF DemoQueue, QueueInsert, QueueReview
      <4> QED BY <1>0, <3>1, <4>1 DEF Stored, Pending
    <3>2. DemoQueue(r) \/ QueueInsert(r) \/ reviews' = reviews
      BY <1>5 DEF RequestStep, CreateRun, RunAudit, InquiryGet, InquiryModel, SaveInvestigation,
         InquiryAudit, QueueGet, Refused, Raise, Audit
    <3> QED BY <1>0, <3>1, <3>2 DEF Stored
  <2>2. reviews'[v] = reviews[v] /\ Verdicts(v)' = Verdicts(v)
    BY <1>5, <2>1, OtherStep
  <2>3. PICK q \in Deciders : Accountable(q, v)
    BY <1>0, <1>2, <2>1, <2>2 DEF Pending
  <2>4. CASE q = r
    <3>1. Raise(r)
      BY <1>5, <2>3, <2>4, Classes, Parts DEF RequestStep, CreateRun, DemoQueue, RunAudit, InquiryGet, InquiryModel,
         SaveInvestigation, InquiryAudit, QueueGet, QueueInsert, Refused, To, ToAbout
    <3>2. handler'[r].about = handler[r].about /\ handler'[r].pc = "failed"
      BY <3>1 DEF Raise
    <3> QED BY <2>3, <2>4, <3>2
  <2> QED BY <1>1, <2>3, <2>4, Parts
<1> QED BY <1>3, <1>4, <1>5

\* A decision that the trail does not show has a handler that still runs or that
\* failed: no interleaving loses one otherwise.
THEOREM DecisionsAccounted == Spec => []DecisionAccounted
<1>1. Init => DecisionAccounted
  BY DEF Init, DecisionAccounted, Stored
<1>2. Held /\ DecisionAccounted /\ [Next]_vars => DecisionAccounted'
  <2>1. CASE UNCHANGED vars
    BY <2>1 DEF vars, DecisionAccounted, Verdicts, Stored, Pending
  <2>2. CASE Next
    BY <2>2, AccountedStep DEF Next, RequestStep
  <2> QED BY <2>1, <2>2
<1>3. Spec => []Held
  BY TypeCorrect, PTL DEF Held
<1> QED BY <1>1, <1>2, <1>3, PTL DEF Spec

\* Reviews and investigations are of runs that exist, and only a run with
\* exceptions is investigated: a run never changes after a handler has read it.
THEOREM SubjectsAreReal == Spec => []SubjectsExist
<1>1. Init => SubjectsExist
  BY DEF Init, SubjectsExist, Stored
<1>2. Held /\ SubjectsExist /\ [Next]_vars => SubjectsExist'
  <2> SUFFICES ASSUME Held, SubjectsExist, [Next]_vars PROVE SubjectsExist'
    OBVIOUS
  <2> USE DEF Held, TypeOK
  <2>1. ASSUME NEW r \in Requests, RequestStep(r) PROVE SubjectsExist'
    <3>1. \A x \in RunIds : Stored(runs, x) => runs'[x] = runs[x] /\ Stored(runs, x)'
      BY <2>1, OwnStep DEF Stored
    <3>2. ASSUME NEW v \in ReviewIds, Stored(reviews, v)' PROVE Stored(runs, reviews[v].run)'
      <4>1. CASE Stored(reviews, v)
        <5>1. reviews'[v].run = reviews[v].run /\ reviews[v].run \in RunIds
          <6>1. reviews[v] \in [run: RunIds, status: Statuses]
            BY <4>1 DEF Stored
          <6>2. CASE Decide(r)
            <7>1. PICK w \in ReviewIds, d \in Decisions : reviews' = [reviews EXCEPT ![w].status = d]
              BY <6>2 DEF Decide
            <7>2. CASE v = w
              <8>1. reviews'[v] = [reviews[v] EXCEPT !.status = d]
                BY <7>1, <7>2
              <8> QED BY <6>1, <8>1
            <7>3. CASE v # w
              BY <6>1, <7>1, <7>3
            <7> QED BY <7>2, <7>3
          <6>3. CASE DecideAudit(r)
            BY <6>1, <6>3 DEF DecideAudit, Audit
          <6> QED BY <2>1, <4>1, <6>1, <6>2, <6>3, OtherStep
        <5> QED BY <3>1, <4>1, <5>1 DEF SubjectsExist, Stored
      <4>2. CASE ~Stored(reviews, v)
        <5>1. CASE DemoQueue(r) \/ QueueInsert(r)
          <6>1. PICK x \in RunIds : Stored(runs, x) /\ QueueReview(r, x)
            <7>1. CASE DemoQueue(r)
              BY <7>1, Parts, Classes DEF DemoQueue, To, Roles, Stored
            <7>2. CASE QueueInsert(r)
              BY <7>2 DEF QueueInsert, To, Roles
            <7> QED BY <5>1, <7>1, <7>2
          <6>2. reviews'[v].run = x
            <7>1. reviews' = [reviews EXCEPT ![r] = [run |-> x, status |-> "PENDING"]]
              BY <6>1 DEF QueueReview
            <7>2. v = r
              BY <3>2, <4>2, <7>1 DEF Stored
            <7> QED BY <7>1, <7>2
          <6> QED BY <3>1, <6>1, <6>2 DEF Stored
        <5>2. CASE ~(DemoQueue(r) \/ QueueInsert(r))
          <6>1. reviews'[v] = reviews[v]
            BY <2>1, <4>2, <5>2 DEF RequestStep, CreateRun, RunAudit, InquiryGet, InquiryModel,
               SaveInvestigation, InquiryAudit, QueueGet, Decide, Pending, Stored, Refused, DecideAudit,
               Raise, Audit
          <6> QED BY <3>2, <4>2, <6>1 DEF Stored
        <5> QED BY <5>1, <5>2
      <4> QED BY <4>1, <4>2
    <3>3. ASSUME NEW q \in Inquiries, Stored(probes, q)' PROVE runs'[probes'[q]] = "exceptions"
      <4>1. CASE SaveInvestigation(r) /\ q = r
        <5>1. handler[r].about \in RunIds /\ runs[handler[r].about] = "exceptions"
          BY <4>1 DEF SaveInvestigation, To, Roles
        <5>2. probes'[q] = handler[r].about /\ runs' = runs
          BY <4>1 DEF SaveInvestigation
        <5> QED BY <5>1, <5>2
      <4>2. CASE ~(SaveInvestigation(r) /\ q = r)
        <5>1. probes'[q] = probes[q]
          BY <2>1, <4>2 DEF RequestStep, CreateRun, DemoQueue, RunAudit, InquiryGet, InquiryModel,
             SaveInvestigation, InquiryAudit, QueueGet, QueueInsert, Decide, Refused, DecideAudit, Raise,
             Audit, QueueReview
        <5> QED BY <3>1, <3>3, <5>1, Classes DEF SubjectsExist, Stored
      <4> QED BY <4>1, <4>2
    <3> QED BY <3>2, <3>3 DEF SubjectsExist
  <2>2. CASE UNCHANGED vars
    BY <2>2 DEF vars, SubjectsExist, Stored
  <2> QED BY <2>1, <2>2 DEF Next, RequestStep
<1>3. Spec => []Held
  BY TypeCorrect, PTL DEF Held
<1> QED BY <1>1, <1>2, <1>3, PTL DEF Spec

-----------------------------------------------------------------------------
(* The sum.                                                                   *)

\* Each program is typed by what it keeps on its own.
AllTyped == Held /\ ApprovalTyped /\ MLTypeOK /\ AgentTyped /\ Knows

LEMMA AllTypedInductive == AllTyped /\ [AllNext]_allVars => AllTyped'
<1> SUFFICES ASSUME AllTyped, [AllNext]_allVars PROVE AllTyped'
  OBVIOUS
<1>1. /\ [Next]_vars /\ [ApprovalNext]_approvalVars
      /\ [MLNext]_mlVars /\ [AgentNext]_agentVars /\ [MuxNext]_muxVars
  BY DEF AllNext, allVars
<1> QED  BY <1>1, HeldInductive, ApprovalTypedInductive, MLTypedInductive, AgentTypedInductive, NextKnows DEF AllTyped

\* Whatever a store, an approval workflow, a batch of proposals, an agent's run or
\* a call of the model is asked for, their rows, reviews, events, proposals and
\* records stay in their domains: every review and event is of something that exists.
THEOREM ProposalsTyped == AllSpec => []TypesOK
<1>1. AllInit => AllTyped
  BY HeldAtFirst, ApprovalTypedAtFirst, MLTypedAtFirst, AgentTypedAtFirst, InitKnows DEF AllInit, AllTyped
<1>2. AllTyped => TypesOK
  BY ApprovalTypedOK, AgentTypedOK DEF AllTyped, Held, Knows, TypesOK
<1> QED  BY <1>1, <1>2, AllTypedInductive, PTL DEF AllSpec
==============================================================================

---------------------------- MODULE ProposalProofs -----------------------------
(* Theorems of what is proposed and granted: the approvals of actions         *)
(* (Approvals), the proposals of the ML review (MLReview) and the budget of an *)
(* agent (AgentRun), for any contexts, journals, records, scores and calls.   *)
EXTENDS Approvals, MLReview, AgentRun, SequenceTheorems, InductionLemmas

(* Approvals. *)
PolicyDecisions == HumanDecisions \cup {"HUMAN_REVIEW"}
QueuedReviews == [about : Contexts \cup {Nothing}, decision : PolicyDecisions]
AuditEvents == [review : Nat, event : {"REVIEW_QUEUED", "REVIEW_DECIDED"}, decision : PolicyDecisions]

\* The tables of the workflow, and that every event is of a review that exists.
DeskTyped ==
  /\ context \in Contexts \cup {Nothing}
  /\ desk \in Seq(QueuedReviews) /\ log \in Seq(AuditEvents)
  /\ \A k \in DOMAIN log : log[k].review \in DOMAIN desk

Traced == DeskTyped /\ ApprovalsTraced

-----------------------------------------------------------------------------
\* What a longer log says of a review that the new event is not about.
LEMMA OtherEvent ==
  ASSUME NEW v, log \in Seq(AuditEvents), NEW e \in AuditEvents,
         log' = Append(log, e), e.review # v
  PROVE  DecisionsOf(v)' = DecisionsOf(v)
<1>1. /\ DOMAIN log = 1..Len(log) /\ DOMAIN log' = 1..(Len(log) + 1)
      /\ \A k \in DOMAIN log : log'[k] = log[k]
      /\ log'[Len(log) + 1] = e
  OBVIOUS
<1> QED  BY <1>1 DEF DecisionsOf

\* Evaluating and validating touch neither the desk nor the log.
LEMMA DeskUntouched ==
  ASSUME Traced, UNCHANGED <<desk, log>>, context' \in Contexts \cup {Nothing}
  PROVE  Traced'
BY DEF Traced, DeskTyped, ApprovalsTraced, DecisionsOf

\* A review is queued undecided, whether or not its event is built.
LEMMA QueueTraced == ASSUME Traced, QueueForReview PROVE Traced'
<1> DEFINE new == Len(desk) + 1
           review == [about |-> context, decision |-> "HUMAN_REVIEW"]
           event == Entry(new, "REVIEW_QUEUED", "HUMAN_REVIEW")
<1>1. /\ desk \in Seq(QueuedReviews) /\ log \in Seq(AuditEvents) /\ context \in Contexts \cup {Nothing}
      /\ \A k \in DOMAIN log : log[k].review \in DOMAIN desk
      /\ ApprovalsTraced
  BY DEF Traced, DeskTyped
<1>2. /\ desk' = Append(desk, review) /\ context' = Nothing
      /\ log' = log \/ log' = Append(log, event)
  BY DEF QueueForReview
<1>3. review \in QueuedReviews /\ event \in AuditEvents /\ event.review = new /\ event.event = "REVIEW_QUEUED"
  BY <1>1 DEF QueuedReviews, AuditEvents, PolicyDecisions, Entry
<1>4. /\ desk' \in Seq(QueuedReviews) /\ DOMAIN desk = 1..Len(desk) /\ DOMAIN desk' = 1..new
      /\ \A v \in DOMAIN desk : desk'[v] = desk[v]
      /\ desk'[new] = review
  BY <1>1, <1>2, <1>3
<1>5. /\ log' \in Seq(AuditEvents)
      /\ \A k \in DOMAIN log' : (k \in DOMAIN log /\ log'[k] = log[k]) \/ (k = Len(log) + 1 /\ log'[k] = event)
      /\ \A k \in DOMAIN log : k \in DOMAIN log' /\ log'[k] = log[k]
  <2>1. CASE log' = log
    BY <1>1, <2>1
  <2>2. CASE log' = Append(log, event)
    <3>1. /\ DOMAIN log = 1..Len(log) /\ DOMAIN log' = 1..(Len(log) + 1)
          /\ log' \in Seq(AuditEvents)
          /\ \A k \in DOMAIN log : log'[k] = log[k]
          /\ log'[Len(log) + 1] = event
      BY <1>1, <1>3, <2>2
    <3> QED  BY <3>1, <1>1
  <2> QED  BY <1>2, <2>1, <2>2
<1>6. DeskTyped'
  <2>1. \A k \in DOMAIN log' : log'[k].review \in DOMAIN desk'
    BY <1>1, <1>3, <1>4, <1>5
  <2> QED  BY <1>2, <1>4, <1>5, <2>1 DEF DeskTyped
<1>7. ASSUME NEW v
      PROVE  DecisionsOf(v)' = DecisionsOf(v)
  BY <1>3, <1>5 DEF DecisionsOf
<1>8. DecisionsOf(new) = {}
  BY <1>1, <1>4 DEF DecisionsOf
<1>9. ASSUME NEW v \in DOMAIN desk'
      PROVE  IF desk'[v].decision = "HUMAN_REVIEW" THEN DecisionsOf(v)' = {}
             ELSE \E k \in DOMAIN log' :
                    /\ DecisionsOf(v)' = {k} /\ log'[k].decision = desk'[v].decision
                    /\ \A j \in DOMAIN log' : log'[j] = Entry(v, "REVIEW_QUEUED", "HUMAN_REVIEW") => j < k
  <2>1. CASE v = new
    BY <1>4, <1>7, <1>8, <2>1
  <2>2. CASE v # new /\ desk[v].decision = "HUMAN_REVIEW"
    BY <1>1, <1>4, <1>7, <2>2 DEF ApprovalsTraced
  <2>3. CASE v # new /\ desk[v].decision # "HUMAN_REVIEW"
    <3>1. v \in DOMAIN desk /\ desk'[v] = desk[v]
      BY <1>4, <2>3
    <3>2. PICK k \in DOMAIN log :
            /\ DecisionsOf(v) = {k} /\ log[k].decision = desk[v].decision
            /\ \A j \in DOMAIN log : log[j] = Entry(v, "REVIEW_QUEUED", "HUMAN_REVIEW") => j < k
      BY <1>1, <2>3, <3>1 DEF ApprovalsTraced
    <3>3. event # Entry(v, "REVIEW_QUEUED", "HUMAN_REVIEW")
      BY <2>3 DEF Entry
    <3>4. \A j \in DOMAIN log' : log'[j] = Entry(v, "REVIEW_QUEUED", "HUMAN_REVIEW") => j < k
      BY <1>5, <3>2, <3>3
    <3> QED  BY <1>5, <1>7, <2>3, <3>1, <3>2, <3>4
  <2> QED  BY <2>1, <2>2, <2>3
<1> QED  BY <1>6, <1>9 DEF Traced, ApprovalsTraced

\* A decision is logged last, and only of a review that has none.
LEMMA DecideTraced ==
  ASSUME Traced, NEW v \in DOMAIN desk, NEW d \in HumanDecisions, DecideQueued(v, d)
  PROVE  Traced'
<1> DEFINE event == Entry(v, "REVIEW_DECIDED", d)
<1>1. /\ desk \in Seq(QueuedReviews) /\ log \in Seq(AuditEvents) /\ context \in Contexts \cup {Nothing}
      /\ \A k \in DOMAIN log : log[k].review \in DOMAIN desk
      /\ ApprovalsTraced
  BY DEF Traced, DeskTyped
<1>2. /\ desk[v].decision = "HUMAN_REVIEW"
      /\ desk' = [desk EXCEPT ![v].decision = d] /\ log' = Append(log, event)
      /\ context' \in {context, desk[v].about}
  BY DEF DecideQueued
<1>3. event \in AuditEvents /\ event.review = v /\ event.event = "REVIEW_DECIDED" /\ event.decision = d
  BY <1>1 DEF AuditEvents, PolicyDecisions, Entry
<1>4. /\ desk' \in Seq(QueuedReviews) /\ DOMAIN desk' = DOMAIN desk
      /\ \A w \in DOMAIN desk : w # v => desk'[w] = desk[w]
      /\ desk'[v].decision = d /\ context' \in Contexts \cup {Nothing}
  <2>1. desk[v] \in QueuedReviews
    BY <1>1
  <2>2. /\ [desk[v] EXCEPT !.decision = d] \in QueuedReviews
        /\ [desk[v] EXCEPT !.decision = d].decision = d
        /\ desk[v].about \in Contexts \cup {Nothing}
    BY <2>1 DEF QueuedReviews, PolicyDecisions
  <2>3. desk' = [desk EXCEPT ![v] = [desk[v] EXCEPT !.decision = d]]
    BY <1>2
  <2>4. /\ desk' \in Seq(QueuedReviews) /\ DOMAIN desk' = DOMAIN desk
        /\ \A w \in DOMAIN desk : w # v => desk'[w] = desk[w]
        /\ desk'[v] = [desk[v] EXCEPT !.decision = d]
    BY <1>1, <2>2, <2>3
  <2> QED  BY <1>1, <1>2, <2>2, <2>4
<1>5. /\ log' \in Seq(AuditEvents) /\ DOMAIN log = 1..Len(log) /\ DOMAIN log' = 1..(Len(log) + 1)
      /\ \A k \in DOMAIN log : log'[k] = log[k]
      /\ log'[Len(log) + 1] = event
  BY <1>1, <1>2, <1>3
<1>6. DeskTyped'
  BY <1>1, <1>3, <1>4, <1>5 DEF DeskTyped
<1>7. DecisionsOf(v) = {}
  BY <1>1, <1>2 DEF ApprovalsTraced
<1>8. DecisionsOf(v)' = {Len(log) + 1}
  BY <1>3, <1>5, <1>7 DEF DecisionsOf
<1>9. event # Entry(v, "REVIEW_QUEUED", "HUMAN_REVIEW")
  BY DEF Entry
<1>10. ASSUME NEW w \in DOMAIN desk'
       PROVE  IF desk'[w].decision = "HUMAN_REVIEW" THEN DecisionsOf(w)' = {}
              ELSE \E k \in DOMAIN log' :
                     /\ DecisionsOf(w)' = {k} /\ log'[k].decision = desk'[w].decision
                     /\ \A j \in DOMAIN log' : log'[j] = Entry(w, "REVIEW_QUEUED", "HUMAN_REVIEW") => j < k
  <2>1. CASE w = v
    <3>1. d # "HUMAN_REVIEW"
      BY DEF HumanDecisions
    <3>2. \A j \in DOMAIN log' : log'[j] = Entry(v, "REVIEW_QUEUED", "HUMAN_REVIEW") => j < Len(log) + 1
      BY <1>5, <1>9
    <3> QED  BY <1>3, <1>4, <1>5, <1>8, <2>1, <3>1, <3>2
  <2>2. CASE w # v
    <3>1. w \in DOMAIN desk /\ desk'[w] = desk[w] /\ DecisionsOf(w)' = DecisionsOf(w)
      BY <1>1, <1>2, <1>3, <1>4, <2>2, OtherEvent
    <3>2. event # Entry(w, "REVIEW_QUEUED", "HUMAN_REVIEW")
      BY <2>2 DEF Entry
    <3>3. CASE desk[w].decision = "HUMAN_REVIEW"
      BY <1>1, <3>1, <3>3 DEF ApprovalsTraced
    <3>4. CASE desk[w].decision # "HUMAN_REVIEW"
      <4>1. PICK k \in DOMAIN log :
              /\ DecisionsOf(w) = {k} /\ log[k].decision = desk[w].decision
              /\ \A j \in DOMAIN log : log[j] = Entry(w, "REVIEW_QUEUED", "HUMAN_REVIEW") => j < k
        BY <1>1, <3>1, <3>4 DEF ApprovalsTraced
      <4>2. \A j \in DOMAIN log' : log'[j] = Entry(w, "REVIEW_QUEUED", "HUMAN_REVIEW") => j < k
        BY <1>5, <3>2, <4>1
      <4> QED  BY <1>5, <3>1, <3>4, <4>1, <4>2
    <3> QED  BY <3>3, <3>4
  <2> QED  BY <2>1, <2>2
<1> QED  BY <1>6, <1>10 DEF Traced, ApprovalsTraced

\* Every step keeps the log in agreement with the desk.
LEMMA TracedInductive == Traced /\ [ApprovalNext]_approvalVars => Traced'
<1> SUFFICES ASSUME Traced, [ApprovalNext]_approvalVars PROVE Traced'
  OBVIOUS
<1>1. CASE Evaluate
  BY <1>1, DeskUntouched DEF Evaluate
<1>2. CASE QueueForReview
  BY <1>2, QueueTraced
<1>3. CASE Validate
  BY <1>3, DeskUntouched DEF Validate
<1>4. CASE \E v \in DOMAIN desk, d \in HumanDecisions : DecideQueued(v, d)
  BY <1>4, DecideTraced
<1>5. CASE UNCHANGED approvalVars
  BY <1>5, DeskUntouched DEF approvalVars, Traced, DeskTyped
<1> QED  BY <1>1, <1>2, <1>3, <1>4, <1>5 DEF ApprovalNext

\* However queuing, deciding and the audit writer fail, every decision of a review
\* is logged exactly once, after its queuing.
THEOREM DecisionsTraced == ApprovalSpec => []ApprovalsTraced
<1>1. ApprovalInit => Traced
  BY DEF ApprovalInit, Traced, DeskTyped, ApprovalsTraced
<1>2. Traced => ApprovalsTraced
  BY DEF Traced
<1> QED  BY <1>1, <1>2, TracedInductive, PTL DEF ApprovalSpec

\* A total of a journal is a sum over its lines.
LEMMA TotalAdds ==
  ASSUME NEW journal \in Journals, NEW side \in {"debit", "credit"}
  PROVE  /\ IsFiniteSet(DOMAIN journal.lines)
         /\ \E g : /\ Adds(g, [k \in DOMAIN journal.lines |-> journal.lines[k][side]], DOMAIN journal.lines)
                   /\ SumOf(journal.lines, side) = g[DOMAIN journal.lines]
<1> DEFINE lines == journal.lines
           K == DOMAIN lines
           amount == [k \in K |-> lines[k][side]]
           pick == [T \in SUBSET K |-> Max(T)]
           iter[T \in SUBSET K] == IF T = {} THEN 0 ELSE iter[T \ {Max(T)}] + lines[Max(T)][side]
<1>1. lines \in Seq({lines[k] : k \in DOMAIN lines}) /\ \A k \in K : lines[k].debit \in Int /\ lines[k].credit \in Int
  BY ApprovalsAssumption
<1>2. K = 1..Len(lines) /\ Len(lines) \in Nat /\ IsFiniteSet(K)
  <2>1. K = 1..Len(lines) /\ Len(lines) \in Nat
    BY <1>1
  <2>2. IsFiniteSet(1..Len(lines))
    BY <2>1, FS_Interval
  <2> QED  BY <2>1, <2>2
<1>3. \A k \in K : amount[k] \in Int
  BY <1>1
<1>4. \A T \in SUBSET K : pick[T] = Max(T)
  OBVIOUS
<1>5. \A T \in SUBSET K : T # {} => Max(T) \in T
  <2> SUFFICES ASSUME NEW T \in SUBSET K, T # {} PROVE Max(T) \in T
    OBVIOUS
  <2>1. T \subseteq 0..Len(lines)
    BY <1>2
  <2> HIDE DEF lines
  <2> QED  BY <1>2, <2>1, MaxOfNaturals
<1>6. PICK g : IsFold(g, amount, pick, K)
  <2> HIDE DEF amount, pick, K
  <2> QED  BY <1>2, <1>4, <1>5, FoldExists
<1>7. \A T \in SUBSET K : g[T] \in Int
  <2> HIDE DEF amount, pick, K
  <2>1. Adds(g, amount, K)
    BY <1>4, <1>5, <1>6, FoldAdds
  <2> QED  BY <1>2, <1>3, <2>1, SumType
<1>8. g = [T \in SUBSET K |-> IF T = {} THEN 0 ELSE g[T \ {Max(T)}] + lines[Max(T)][side]]
  <2>1. g = [T \in SUBSET K |-> IF T = {} THEN 0 ELSE amount[pick[T]] + g[T \ {pick[T]}]]
    BY <1>6 DEF IsFold
  <2>2. ASSUME NEW T \in SUBSET K
        PROVE  (IF T = {} THEN 0 ELSE amount[pick[T]] + g[T \ {pick[T]}])
                 = IF T = {} THEN 0 ELSE g[T \ {Max(T)}] + lines[Max(T)][side]
    <3>1. CASE T # {}
      <4>1. pick[T] = Max(T) /\ Max(T) \in T /\ amount[Max(T)] = lines[Max(T)][side]
        BY <1>4, <1>5, <3>1
      <4>2. g[T \ {Max(T)}] \in Int /\ amount[Max(T)] \in Int
        BY <1>3, <1>7, <4>1
      <4> HIDE DEF amount, pick, lines, K
      <4> QED  BY <3>1, <4>1, <4>2
    <3> QED  BY <3>1
  <2> QED  BY <2>1, <2>2
<1>9. iter = [T \in SUBSET K |-> IF T = {} THEN 0 ELSE iter[T \ {Max(T)}] + lines[Max(T)][side]]
  BY <1>8
<1>10. SumOf(lines, side) = iter[K]
  BY DEF SumOf, FoldLeft, MapThenFoldSet
<1> HIDE DEF iter
<1>11. \A T \in SUBSET K : iter[T] \in Int
  <2> DEFINE C == {T \in SUBSET K : iter[T] \in Int}
  <2>1. {} \in C
    BY <1>9
  <2>2. ASSUME NEW T \in SUBSET K, T # {}, \A x \in T : T \ {x} \in C PROVE T \in C
    <3>1. Max(T) \in T /\ iter[T] = iter[T \ {Max(T)}] + lines[Max(T)][side]
      BY <1>5, <1>9, <2>2
    <3>2. iter[T \ {Max(T)}] \in Int /\ lines[Max(T)][side] \in Int
      BY <1>1, <2>2, <3>1
    <3> QED  BY <3>1, <3>2
  <2>3. \A T \in SUBSET K : T \in C
    <3> HIDE DEF C, K
    <3> QED  BY <1>2, <2>1, <2>2, Peeling
  <2> QED  BY <2>3
<1>12. Adds(iter, amount, K)
  <2>1. iter[{}] = 0
    BY <1>9
  <2>2. ASSUME NEW T \in SUBSET K, T # {}
        PROVE  \E x \in T : iter[T] = amount[x] + iter[T \ {x}]
    <3>1. Max(T) \in T /\ iter[T] = iter[T \ {Max(T)}] + lines[Max(T)][side]
      BY <1>5, <1>9, <2>2
    <3>2. iter[T \ {Max(T)}] \in Int /\ lines[Max(T)][side] \in Int /\ amount[Max(T)] = lines[Max(T)][side]
      BY <1>1, <1>11, <2>2, <3>1
    <3>3. PICK x \in T : x = Max(T)
      BY <3>1
    <3> HIDE DEF amount, K, lines
    <3>4. iter[T] = amount[x] + iter[T \ {x}]
      BY <3>1, <3>2, <3>3
    <3> QED  BY <3>4
  <2> QED  BY <2>1, <2>2 DEF Adds
<1> QED  BY <1>2, <1>10, <1>12

\* Whoever balances debits and credits, every line on one side, has both.
LEMMA ValidMoves ==
  ASSUME NEW journal \in Journals, NEW decision, ValidJournal(journal, decision)
  PROVE  Moves(journal.lines)
<1> DEFINE lines == journal.lines
           K == DOMAIN lines
           debit == [k \in K |-> lines[k]["debit"]]
           credit == [k \in K |-> lines[k]["credit"]]
<1>1. /\ \A k \in K : LineValid(lines[k])
      /\ SumOf(lines, "debit") = SumOf(lines, "credit")
  BY DEF ValidJournal
<1>2. /\ 1 \in K
      /\ \A k \in K : debit[k] \in Nat /\ credit[k] \in Nat /\ (debit[k] > 0) # (credit[k] > 0)
  <2>1. lines \in Seq({lines[k] : k \in DOMAIN lines}) /\ lines # <<>>
    BY ApprovalsAssumption DEF ValidJournal
  <2>2. 1 \in K
    <3> HIDE DEF lines
    <3> QED  BY <2>1
  <2>3. ASSUME NEW k \in K PROVE debit[k] \in Nat /\ credit[k] \in Nat /\ (debit[k] > 0) # (credit[k] > 0)
    <3>1. debit[k] = lines[k].debit /\ credit[k] = lines[k].credit
      OBVIOUS
    <3>2. lines[k].debit \in Int /\ lines[k].credit \in Int
      BY ApprovalsAssumption
    <3> HIDE DEF debit, credit, lines
    <3> QED  BY <1>1, <3>1, <3>2 DEF LineValid
  <2> QED  BY <2>2, <2>3
<1>3. IsFiniteSet(K) /\ \E d : Adds(d, debit, K) /\ SumOf(lines, "debit") = d[K]
  BY TotalAdds
<1>4. \E c : Adds(c, credit, K) /\ SumOf(lines, "credit") = c[K]
  BY TotalAdds
<1>5. PICK d : Adds(d, debit, K) /\ SumOf(lines, "debit") = d[K]
  BY <1>3
<1>6. PICK c : Adds(c, credit, K) /\ SumOf(lines, "credit") = c[K]
  BY <1>4
<1> SUFFICES \E k, l \in K : debit[k] > 0 /\ credit[l] > 0 /\ k # l
  BY DEF Moves
<1> HIDE DEF debit, credit, K, lines
<1>7. /\ \A k \in K : d[K] >= debit[k] /\ c[K] >= credit[k]
      /\ (\A k \in K : debit[k] = 0) => d[K] = 0
      /\ (\A k \in K : credit[k] = 0) => c[K] = 0
  <2>1. (\A k \in K : d[K] >= debit[k]) /\ ((\A k \in K : debit[k] = 0) => d[K] = 0)
    BY <1>2, <1>3, <1>5, SumBounds
  <2>2. (\A k \in K : c[K] >= credit[k]) /\ ((\A k \in K : credit[k] = 0) => c[K] = 0)
    BY <1>2, <1>3, <1>6, SumBounds
  <2> QED  BY <2>1, <2>2
<1>8. d[K] = c[K] /\ d[K] \in Nat
  <2>1. K \in SUBSET K
    OBVIOUS
  <2>2. d[K] \in Nat
    BY <1>2, <1>3, <1>5, <2>1, SumType
  <2> QED  BY <1>1, <1>5, <1>6, <2>2
<1>9. d[K] > 0
  <2>1. debit[1] > 0 \/ credit[1] > 0
    BY <1>2
  <2> QED  BY <1>2, <1>7, <1>8, <2>1
<1>10. (\E k \in K : debit[k] > 0) /\ (\E k \in K : credit[k] > 0)
  <2>1. ~ (\A k \in K : debit[k] = 0) /\ ~ (\A k \in K : credit[k] = 0)
    BY <1>7, <1>8, <1>9
  <2> QED  BY <1>2, <2>1
<1> QED  BY <1>2, <1>10

\* No rule approves an action that has not earned it.
LEMMA ApprovalEarned ==
  ASSUME NEW c \in Contexts, PolicyOf(c) = "AUTO_APPROVE"
  PROVE  Earned(c)
<1> DEFINE matching == {k \in DOMAIN DefaultRules : Matches(DefaultRules[k], c)}
<1>1. ~ c.missing_evidence /\ matching # {} /\ DefaultRules[Min(matching)].action = "AUTO_APPROVE"
  BY DEF PolicyOf
<1>2. DOMAIN DefaultRules = 1..5
  BY DEF DefaultRules
<1>3. Min(matching) \in matching /\ \A k \in matching : Min(matching) <= k
  <2>1. matching \subseteq Nat
    BY <1>2
  <2> HIDE DEF matching
  <2> QED  BY <1>1, <2>1, MinOfNaturals
<1>4. Min(matching) \in {4, 5}
  <2>1. /\ DefaultRules[1].action # "AUTO_APPROVE" /\ DefaultRules[2].action # "AUTO_APPROVE"
        /\ DefaultRules[3].action # "AUTO_APPROVE"
    BY DEF DefaultRules, Rule
  <2>2. Min(matching) \in 1..5
    BY <1>2, <1>3
  <2> HIDE DEF matching
  <2>3. Min(matching) # 1 /\ Min(matching) # 2 /\ Min(matching) # 3
    BY <1>1, <2>1
  <2> QED  BY <2>2, <2>3
<1>5. ~ Matches(DefaultRules[1], c) /\ ~ Matches(DefaultRules[3], c)
  <2>1. 1 \notin matching /\ 3 \notin matching
    <3> HIDE DEF matching
    <3> QED  BY <1>3, <1>4
  <2> QED  BY <1>2, <2>1
<1>6. /\ c.confidence \in 0..100 \cup {NoConfidence}
      /\ {c.unresolved, c.missing_evidence, c.evidence_complete, c.exact_match, c.known_variance} \subseteq BOOLEAN
  BY ApprovalsAssumption
<1>7. ~ c.unresolved
  <2>1. DefaultRules[1].when = [unresolved |-> TRUE]
    BY DEF DefaultRules, Rule
  <2>2. c.unresolved = TRUE => Holds("unresolved", TRUE, c)
    BY DEF Holds
  <2>3. Holds("unresolved", TRUE, c) => Matches(DefaultRules[1], c)
    <3> DEFINE when == [unresolved |-> TRUE]
    <3>1. DOMAIN when = {"unresolved"} /\ when["unresolved"] = TRUE
      OBVIOUS
    <3> HIDE DEF when
    <3> QED  BY <2>1, <3>1 DEF Matches, when
  <2> QED  BY <1>5, <1>6, <2>2, <2>3
<1>8. c.confidence # NoConfidence => c.confidence >= 95
  <2>1. DefaultRules[3].when = [root_cause_confidence_below |-> 95]
    BY DEF DefaultRules, Rule
  <2>2. Matches(DefaultRules[3], c) <=> c.confidence # NoConfidence /\ c.confidence < 95
    BY <2>1 DEF Matches, Holds
  <2> QED  BY <1>5, <1>6, <2>2
<1>9. Matches(DefaultRules[4], c) \/ Matches(DefaultRules[5], c)
  BY <1>3, <1>4
<1>10. c.evidence_complete /\ (c.exact_match \/ c.known_variance) /\ c.amount < 5000
  <2>1. /\ DefaultRules[4].when = [exact_match |-> TRUE, evidence_complete |-> TRUE, amount_below |-> 5000]
        /\ DefaultRules[5].when = [known_variance |-> TRUE, evidence_complete |-> TRUE, amount_below |-> 5000]
    <3>1. /\ DefaultRules[4] = Rule([exact_match |-> TRUE, evidence_complete |-> TRUE, amount_below |-> 5000], "AUTO_APPROVE")
          /\ DefaultRules[5] = Rule([known_variance |-> TRUE, evidence_complete |-> TRUE, amount_below |-> 5000], "AUTO_APPROVE")
      BY DEF DefaultRules
    <3> QED  BY <3>1 DEF Rule
  <2>2. CASE Matches(DefaultRules[4], c)
    <3> DEFINE when == [exact_match |-> TRUE, evidence_complete |-> TRUE, amount_below |-> 5000]
    <3>1. /\ DOMAIN when = {"exact_match", "evidence_complete", "amount_below"}
          /\ when["exact_match"] = TRUE /\ when["evidence_complete"] = TRUE /\ when["amount_below"] = 5000
      OBVIOUS
    <3> HIDE DEF when
    <3>2. \A name \in DOMAIN when : Holds(name, when[name], c)
      BY <2>1, <2>2 DEF Matches, when
    <3>3. Holds("exact_match", when["exact_match"], c) /\ Holds("evidence_complete", when["evidence_complete"], c) /\ Holds("amount_below", when["amount_below"], c)
      BY <3>1, <3>2
    <3>4. c["exact_match"] = TRUE /\ c["evidence_complete"] = TRUE /\ c.amount < 5000
      BY <3>1, <3>3 DEF Holds
    <3> QED  BY <1>6, <3>4
  <2>3. CASE Matches(DefaultRules[5], c)
    <3> DEFINE when == [known_variance |-> TRUE, evidence_complete |-> TRUE, amount_below |-> 5000]
    <3>1. /\ DOMAIN when = {"known_variance", "evidence_complete", "amount_below"}
          /\ when["known_variance"] = TRUE /\ when["evidence_complete"] = TRUE /\ when["amount_below"] = 5000
      OBVIOUS
    <3> HIDE DEF when
    <3>2. \A name \in DOMAIN when : Holds(name, when[name], c)
      BY <2>1, <2>3 DEF Matches, when
    <3>3. Holds("known_variance", when["known_variance"], c) /\ Holds("evidence_complete", when["evidence_complete"], c) /\ Holds("amount_below", when["amount_below"], c)
      BY <3>1, <3>2
    <3>4. c["known_variance"] = TRUE /\ c["evidence_complete"] = TRUE /\ c.amount < 5000
      BY <3>1, <3>3 DEF Holds
    <3> QED  BY <1>6, <3>4
  <2> QED  BY <1>9, <2>2, <2>3
<1> QED  BY <1>1, <1>7, <1>8, <1>10 DEF Earned

-----------------------------------------------------------------------------
\* An approval of an action is earned, or was given by a human.
Approved(c) == Earned(c) \/ \E v \in DOMAIN desk : desk[v] = [about |-> c, decision |-> "AUTO_APPROVE"]

Posted ==
  /\ context # Nothing /\ verdict = "AUTO_APPROVE" => Approved(context)
  /\ posting # Nothing => /\ Moves(posting.journal.lines)
                          /\ posting.decision = "AUTO_APPROVE" => Approved(posting.about)

\* What a human approved stays on the desk.
LEMMA ApprovedKept ==
  ASSUME \A v \in DOMAIN desk : desk[v].decision = "AUTO_APPROVE" => v \in DOMAIN desk' /\ desk'[v] = desk[v],
         NEW CONSTANT c, Approved(c)
  PROVE  Approved(c)'
<1>1. CASE Earned(c)
  BY <1>1 DEF Approved
<1>2. ASSUME NEW v \in DOMAIN desk, desk[v] = [about |-> c, decision |-> "AUTO_APPROVE"]
      PROVE  v \in DOMAIN desk' /\ desk'[v] = [about |-> c, decision |-> "AUTO_APPROVE"]
  BY <1>2
<1> QED  BY <1>1, <1>2 DEF Approved

\* A step that posts nothing and takes no approval back keeps what is posted.
LEMMA PostedKept ==
  ASSUME Posted,
         \A v \in DOMAIN desk : desk[v].decision = "AUTO_APPROVE" => v \in DOMAIN desk' /\ desk'[v] = desk[v],
         context' # Nothing /\ verdict' = "AUTO_APPROVE" => Approved(context)',
         UNCHANGED posting
  PROVE  Posted'
<1>1. PICK c : c = posting.about
  OBVIOUS
<1>2. posting'.about = c /\ posting'.decision = posting.decision
  BY <1>1
<1>3. Approved(c) => Approved(c)'
  BY ApprovedKept
<1>4. posting' # Nothing /\ posting'.decision = "AUTO_APPROVE" => Approved(c)'
  BY <1>1, <1>3 DEF Posted
<1>5. Approved(c)' => Approved(posting.about)'
  BY <1>2 DEF Approved
<1> QED  BY <1>4, <1>5 DEF Posted

\* A step posts what moves money, automatically only what is approved.
LEMMA PostedInductive == Traced /\ Posted /\ [ApprovalNext]_approvalVars => Posted'
<1> SUFFICES ASSUME Traced, Posted, [ApprovalNext]_approvalVars PROVE Posted'
  OBVIOUS
<1>1. desk \in Seq(QueuedReviews)
  BY DEF Traced, DeskTyped
<1>2. CASE Evaluate
  <2>1. /\ context' \in Contexts /\ verdict' = PolicyOf(context') /\ posting' = Nothing /\ UNCHANGED desk
    BY <1>2 DEF Evaluate
  <2>2. verdict' = "AUTO_APPROVE" => Earned(context')
    BY <2>1, ApprovalEarned
  <2> QED  BY <2>1, <2>2 DEF Posted, Approved
<1>3. CASE QueueForReview
  <2>1. /\ desk' = Append(desk, [about |-> context, decision |-> "HUMAN_REVIEW"])
        /\ context' = Nothing /\ UNCHANGED posting
    BY <1>3 DEF QueueForReview
  <2>2. \A v \in DOMAIN desk : v \in DOMAIN desk' /\ desk'[v] = desk[v]
    BY <1>1, <2>1
  <2> QED  BY <2>1, <2>2, PostedKept
<1>4. ASSUME NEW w \in DOMAIN desk, NEW d \in HumanDecisions, DecideQueued(w, d) PROVE Posted'
  <2>1. /\ context = Nothing /\ desk[w].decision = "HUMAN_REVIEW"
        /\ desk' = [desk EXCEPT ![w].decision = d]
        /\ (context' = desk[w].about /\ verdict' = d) \/ UNCHANGED <<context, verdict>>
        /\ UNCHANGED posting
    BY <1>4 DEF DecideQueued
  <2>2. \A v \in DOMAIN desk : desk[v].decision = "AUTO_APPROVE" => v \in DOMAIN desk' /\ desk'[v] = desk[v]
    BY <1>1, <2>1
  <2>3. context' # Nothing /\ verdict' = "AUTO_APPROVE" => Approved(context)'
    <3> SUFFICES ASSUME context' = desk[w].about, d = "AUTO_APPROVE" PROVE Approved(context)'
      BY <2>1
    <3>1. w \in DOMAIN desk' /\ desk'[w] = [about |-> context', decision |-> "AUTO_APPROVE"]
      <4>1. desk[w] \in QueuedReviews /\ w \in DOMAIN desk' /\ desk'[w] = [desk[w] EXCEPT !.decision = d]
        BY <1>1, <2>1
      <4> QED  BY <4>1 DEF QueuedReviews
    <3> QED  BY <3>1 DEF Approved
  <2> QED  BY <2>1, <2>2, <2>3, PostedKept
<1>5. CASE Validate
  <2>1. PICK journal \in Journals :
          posting' = IF ValidJournal(journal, verdict)
                     THEN [journal |-> journal, about |-> context, decision |-> verdict] ELSE Nothing
    BY <1>5 DEF Validate
  <2>2. context # Nothing /\ context' = Nothing /\ UNCHANGED desk
    BY <1>5 DEF Validate
  <2>3. CASE ValidJournal(journal, verdict)
    <3>1. posting'.journal = journal /\ posting'.about = context /\ posting'.decision = verdict
      BY <2>1, <2>3
    <3>2. Moves(journal.lines)
      BY <2>3, ValidMoves
    <3> QED  BY <2>2, <3>1, <3>2 DEF Posted, Approved
  <2>4. CASE ~ ValidJournal(journal, verdict)
    BY <2>1, <2>2, <2>4 DEF Posted
  <2> QED  BY <2>3, <2>4
<1>6. CASE UNCHANGED approvalVars
  BY <1>6 DEF approvalVars, Posted, Approved
<1> QED  BY <1>2, <1>3, <1>4, <1>5, <1>6 DEF ApprovalNext

\* Whatever the order of the rules, a journal the accountant passes moves money
\* between two lines, and on an approval it is of an action that had earned its
\* automatic approval, or of one that a human approved.
THEOREM PostingsAreEarned == ApprovalSpec => []PostingEarned
<1>1. ApprovalInit => Traced /\ Posted
  BY DEF ApprovalInit, Traced, DeskTyped, ApprovalsTraced, Posted
<1>2. Posted => PostingEarned
  BY DEF Posted, PostingEarned, Approved
<1> QED  BY <1>1, <1>2, TracedInductive, PostedInductive, PTL DEF ApprovalSpec

-----------------------------------------------------------------------------
(* MLReview. *)

\* The proposals of a batch were chosen among one and the same set of candidates.
ChosenTogether ==
  /\ batch \in Nat
  /\ model # NoModel => score \in [(DOMAIN ledger[1]) \X (DOMAIN ledger[2]) -> Scores]
  /\ model = NoModel => proposals = {}
  /\ \A p \in proposals : p.batch \in 1..batch
  /\ \A p, q \in proposals : p.batch = q.batch =>
       \E C \in SUBSET ((DOMAIN ledger[1]) \X (DOMAIN ledger[2])) :
         {p.candidate, q.candidate} \subseteq Proposed(C)

-----------------------------------------------------------------------------
\* What is proposed has been chosen by the mask.
LEMMA ProposedChosen ==
  ASSUME NEW C, NEW c \in Proposed(C)
  PROVE  c \in C /\ Chosen(c, C)
<1>1. c \in C /\ Reason(c, C) = "REVIEW_ONLY_MODEL"
  BY DEF Proposed
<1>2. Reason(c, C) = RankReason(c, C)
  BY <1>1 DEF Reason
<1>3. Chosen(c, C)
  BY <1>1, <1>2 DEF RankReason
<1> QED  BY <1>1, <1>3

\* Of two rivals the mask chooses one at most: each would have to be better than
\* the other by the margin.
LEMMA RivalsExclude ==
  ASSUME NEW C, NEW c \in C, NEW d \in C,
         score[c] \in Int, score[d] \in Int,
         Chosen(c, C), Chosen(d, C)
  PROVE  ~SharesRecord(c, d)
<1> SUFFICES ASSUME SharesRecord(c, d) PROVE FALSE
  OBVIOUS
<1>1. d \in Rivals(c, C) /\ c \in Rivals(d, C)
  BY DEF Rivals, SharesRecord
<1>2. score[c] - score[d] >= Margin /\ score[d] - score[c] >= Margin
  BY <1>1 DEF Chosen
<1> QED  BY <1>2 DEF Margin

\* Candidates selected together have no rival among them.
LEMMA TogetherDisjoint == ChosenTogether => ProposalsDisjoint
<1> SUFFICES ASSUME ChosenTogether, NEW p \in proposals, NEW q \in proposals, p.batch = q.batch
             PROVE  ~SharesRecord(p.candidate, q.candidate)
  BY DEF ProposalsDisjoint
<1>1. model # NoModel
  BY DEF ChosenTogether
<1>2. PICK C \in SUBSET ((DOMAIN ledger[1]) \X (DOMAIN ledger[2])) :
        {p.candidate, q.candidate} \subseteq Proposed(C)
  BY DEF ChosenTogether
<1>3. /\ p.candidate \in C /\ Chosen(p.candidate, C)
      /\ q.candidate \in C /\ Chosen(q.candidate, C)
  BY <1>2, ProposedChosen
<1>4. score[p.candidate] \in Int /\ score[q.candidate] \in Int
  <2>1. score \in [(DOMAIN ledger[1]) \X (DOMAIN ledger[2]) -> Scores]
    BY <1>1 DEF ChosenTogether
  <2>2. {p.candidate, q.candidate} \subseteq (DOMAIN ledger[1]) \X (DOMAIN ledger[2])
    BY <1>2, <1>3
  <2>3. score[p.candidate] \in Scores /\ score[q.candidate] \in Scores
    BY <2>1, <2>2
  <2>4. \A x \in Scores : x \in Int
    BY MLReviewAssumption
  <2> QED  BY <2>3, <2>4
<1> QED  BY <1>3, <1>4, RivalsExclude

-----------------------------------------------------------------------------
\* Nothing the choice depends on changes once the workflow is open.
LEMMA ChoiceKept ==
  ASSUME UNCHANGED <<model, ledger, score>>, NEW C
  PROVE  Proposed(C)' = Proposed(C)
<1>1. ASSUME NEW c PROVE Source(c)' = Source(c) /\ Target(c)' = Target(c)
  BY DEF Source, Target
<1>2. ASSUME NEW c PROVE InAllocation(c, C)' = InAllocation(c, C)
  BY <1>1 DEF InAllocation
<1>3. ASSUME NEW c PROVE Chosen(c, C)' = Chosen(c, C)
  BY DEF Chosen, Eligible, SameCurrency, Reaches, Source, Target
<1>4. ASSUME NEW c PROVE RankReason(c, C)' = RankReason(c, C)
  BY <1>3 DEF RankReason, Eligible, SameCurrency, Reaches, Source, Target
<1>5. ASSUME NEW c PROVE Reason(c, C)' = Reason(c, C)
  BY <1>1, <1>2, <1>4 DEF Reason
<1> QED  BY <1>5 DEF Proposed

\* A new batch is chosen from the candidates it was given.
LEMMA SuggestTogether == ASSUME ChosenTogether, Suggest PROVE ChosenTogether'
<1>1. PICK S \in SUBSET DOMAIN ledger[1], T \in SUBSET DOMAIN ledger[2] :
        proposals' = proposals \cup
          {[batch |-> batch + 1, candidate |-> c, decision |-> Undecided] : c \in Proposed(Candidates(S, T))}
  BY DEF Suggest
<1> DEFINE C == Candidates(S, T)
<1>2. /\ UNCHANGED <<model, ledger, score>> /\ batch' = batch + 1 /\ batch \in Nat /\ model # NoModel
      /\ C \in SUBSET ((DOMAIN ledger[1]) \X (DOMAIN ledger[2]))
  BY DEF Suggest, ChosenTogether, Candidates
<1>3. \A p \in proposals' : p \in proposals \/ (p.batch = batch + 1 /\ p.candidate \in Proposed(C))
  BY <1>1
<1>4. \A p \in proposals : p.batch \in 1..batch
  BY DEF ChosenTogether
<1>5. \A p \in proposals' : p.batch \in 1..batch'
  BY <1>2, <1>3, <1>4
<1>6. ASSUME NEW p \in proposals', NEW q \in proposals', p.batch = q.batch
      PROVE  \E D \in SUBSET ((DOMAIN ledger[1]) \X (DOMAIN ledger[2])) :
               {p.candidate, q.candidate} \subseteq Proposed(D)
  <2>1. CASE p \in proposals /\ q \in proposals
    BY <1>6, <2>1 DEF ChosenTogether
  <2>2. CASE ~(p \in proposals /\ q \in proposals)
    <3>1. p.batch = batch + 1 /\ q.batch = batch + 1
      BY <1>2, <1>3, <1>4, <1>6, <2>2
    <3>2. p.candidate \in Proposed(C) /\ q.candidate \in Proposed(C)
      BY <1>2, <1>3, <1>4, <3>1
    <3> QED  BY <1>2, <3>2
  <2> QED  BY <2>1, <2>2
<1>7. \A D : Proposed(D)' = Proposed(D)
  BY <1>2, ChoiceKept
<1> QED  BY <1>2, <1>5, <1>6, <1>7 DEF ChosenTogether

\* A decision leaves the candidate and the batch of its proposal alone.
LEMMA DecideTogether ==
  ASSUME ChosenTogether, NEW r \in proposals, NEW d, DecideProposal(r, d)
  PROVE  ChosenTogether'
<1>1. /\ UNCHANGED <<model, ledger, score, batch>>
      /\ proposals' = (proposals \ {r}) \cup {[r EXCEPT !.decision = d]}
  BY DEF DecideProposal
<1>2. ASSUME NEW p \in proposals'
      PROVE  \E q \in proposals : p.batch = q.batch /\ p.candidate = q.candidate
  <2>1. CASE p \in proposals
    BY <2>1
  <2>2. CASE p = [r EXCEPT !.decision = d]
    BY <2>2
  <2> QED  BY <1>1, <2>1, <2>2
<1>3. \A D : Proposed(D)' = Proposed(D)
  BY <1>1, ChoiceKept
<1> QED  BY <1>1, <1>2, <1>3 DEF ChosenTogether

\* Proposals are only made together, and only decided afterwards.
LEMMA TogetherInductive == ChosenTogether /\ [MLNext]_mlVars => ChosenTogether'
<1> SUFFICES ASSUME ChosenTogether, [MLNext]_mlVars PROVE ChosenTogether'
  OBVIOUS
<1>1. CASE Open
  BY <1>1 DEF Open, ChosenTogether
<1>2. CASE Suggest
  BY <1>2, SuggestTogether
<1>3. CASE \E p \in proposals, d \in MLDecisions : DecideProposal(p, d)
  BY <1>3, DecideTogether
<1>4. CASE UNCHANGED mlVars
  <2>1. UNCHANGED <<model, ledger, score, batch, proposals>>
    BY <1>4 DEF mlVars
  <2>2. \A D : Proposed(D)' = Proposed(D)
    BY <2>1, ChoiceKept
  <2> QED  BY <2>1, <2>2 DEF ChosenTogether
<1> QED  BY <1>1, <1>2, <1>3, <1>4 DEF MLNext

\* Whatever the scores, ties included, no two proposals of a batch share a record.
THEOREM NoRivalProposals == MLSpec => []ProposalsDisjoint
<1>1. MLInit => ChosenTogether
  BY DEF MLInit, ChosenTogether
<1> QED  BY <1>1, TogetherInductive, TogetherDisjoint, PTL DEF MLSpec

-----------------------------------------------------------------------------
(* AgentRun. *)

\* The size of the results of the calls K, whatever was asked for besides.
SizeIn(asked, K) == MapThenSumSet(LAMBDA k : asked[k].size, K)

\* It is a sum, in whatever order it is made up.
LEMMA SizeAdds ==
  ASSUME NEW asked, NEW K, IsFiniteSet(K)
  PROVE  \E g : Adds(g, [k \in K |-> asked[k].size], K) /\ SizeIn(asked, K) = g[K]
<1> DEFINE size == [k \in K |-> asked[k].size]
           pick == [T \in SUBSET K |-> CHOOSE x \in T : TRUE]
           iter[T \in SUBSET K] ==
             IF T = {} THEN 0 ELSE asked[CHOOSE x \in T : TRUE].size + iter[T \ {CHOOSE x \in T : TRUE}]
<1>1. \A T \in SUBSET K : T # {} => pick[T] \in T
  OBVIOUS
<1>2. \A T \in SUBSET K : pick[T] = CHOOSE x \in T : TRUE
  OBVIOUS
<1>3. PICK g : IsFold(g, size, pick, K)
  <2> HIDE DEF size, pick
  <2> QED  BY <1>1, FoldExists
<1>4. g = [T \in SUBSET K |-> IF T = {} THEN 0 ELSE asked[CHOOSE x \in T : TRUE].size + g[T \ {CHOOSE x \in T : TRUE}]]
  BY <1>1, <1>2, <1>3 DEF IsFold
<1>5. iter = [T \in SUBSET K |-> IF T = {} THEN 0 ELSE asked[CHOOSE x \in T : TRUE].size + iter[T \ {CHOOSE x \in T : TRUE}]]
  BY <1>4
<1>6. SizeIn(asked, K) = iter[K]
  BY DEF SizeIn, MapThenSumSet, MapThenFoldSet
<1> HIDE DEF iter
<1>7. Adds(iter, size, K)
  BY <1>1, <1>2, <1>5 DEF Adds
<1> QED  BY <1>6, <1>7

\* No calls have no size.
LEMMA SizeOfNone == \A asked : SizeIn(asked, {}) = 0
<1> TAKE asked
<1>1. IsFiniteSet({})
  BY FS_EmptySet
<1>2. PICK g : Adds(g, [k \in {} |-> asked[k].size], {}) /\ SizeIn(asked, {}) = g[{}]
  BY <1>1, SizeAdds
<1> QED  BY <1>2 DEF Adds

\* The sizes of calls add up to a natural number.
LEMMA SizeIsNatural ==
  ASSUME NEW asked, NEW K, IsFiniteSet(K), \A k \in K : asked[k].size \in Nat
  PROVE  SizeIn(asked, K) \in Nat
<1> DEFINE size == [k \in K |-> asked[k].size]
<1>1. PICK g : Adds(g, size, K) /\ SizeIn(asked, K) = g[K]
  BY SizeAdds
<1>2. \A k \in K : size[k] \in Nat
  OBVIOUS
<1>3. \A T \in SUBSET K : g[T] \in Nat
  <2> HIDE DEF size
  <2> QED  BY <1>1, <1>2, SumType
<1> QED  BY <1>1, <1>3

\* What is asked for later does not change the size of what was accepted.
LEMMA SizeKept ==
  ASSUME NEW asked, NEW longer, NEW K, IsFiniteSet(K), \A k \in K : asked[k].size \in Nat /\ longer[k] = asked[k]
  PROVE  SizeIn(longer, K) = SizeIn(asked, K)
<1> DEFINE size == [k \in K |-> asked[k].size]
           same == [k \in K |-> longer[k].size]
<1>1. PICK g : Adds(g, size, K) /\ SizeIn(asked, K) = g[K]
  BY SizeAdds
<1>2. PICK h : Adds(h, same, K) /\ SizeIn(longer, K) = h[K]
  BY SizeAdds
<1>3. \A k \in K : same[k] = size[k] /\ size[k] \in Int
  OBVIOUS
<1>4. h[K] = g[K]
  <2> HIDE DEF size, same
  <2> QED  BY <1>1, <1>2, <1>3, SumUnique
<1> QED  BY <1>1, <1>2, <1>4

\* One more call adds its size.
LEMMA SizeOfOneMore ==
  ASSUME NEW asked, NEW K, IsFiniteSet(K), NEW x, x \notin K, \A k \in K \cup {x} : asked[k].size \in Nat
  PROVE  SizeIn(asked, K \cup {x}) = SizeIn(asked, K) + asked[x].size
<1> DEFINE S == K \cup {x}
           size == [k \in K |-> asked[k].size]
           wider == [k \in S |-> asked[k].size]
<1>1. IsFiniteSet(S)
  BY FS_AddElement
<1>2. PICK g : Adds(g, size, K) /\ SizeIn(asked, K) = g[K]
  BY SizeAdds
<1>3. PICK h : Adds(h, wider, S) /\ SizeIn(asked, S) = h[S]
  BY <1>1, SizeAdds
<1>4. \A k \in S : wider[k] \in Int
  OBVIOUS
<1>5. h[S] = wider[x] + h[S \ {x}]
  <2>1. x \in S /\ S \in SUBSET S
    OBVIOUS
  <2> HIDE DEF wider, S
  <2> QED  BY <1>1, <1>3, <1>4, <2>1, AnyFirst
<1>6. S \ {x} = K /\ wider[x] = asked[x].size
  OBVIOUS
<1>7. h[K] = g[K]
  <2>1. \A k \in K : wider[k] = size[k] /\ size[k] \in Int
    OBVIOUS
  <2>2. K \subseteq S
    OBVIOUS
  <2> HIDE DEF wider, size, S
  <2>3. Adds(h, wider, K)
    BY <1>3, <2>2 DEF Adds
  <2> QED  BY <1>2, <2>1, <2>3, SumUnique
<1>8. h[K] \in Nat
  BY <1>2, <1>7, SizeIsNatural
<1>9. SizeIn(asked, S) = asked[x].size + SizeIn(asked, K)
  <2> HIDE DEF S, size, wider
  <2> QED  BY <1>2, <1>3, <1>5, <1>6, <1>7
<1>10. SizeIn(asked, K) \in Nat /\ asked[x].size \in Nat
  BY <1>2, <1>7, <1>8
<1> QED  BY <1>9, <1>10

-----------------------------------------------------------------------------
Answers == {"duplicate", "tool-call limit", "context limit", "accepted"}
Calls == [signature : Signatures, size : Sizes, answer : Answers]

\* A refused call k would have repeated or broken something when it was refused.
Refusable(asked, given, k) ==
  \/ \E j \in given : asked[j].signature = asked[k].signature
  \/ Cardinality(given) >= limits.calls
  \/ SizeIn(asked, given) + asked[k].size > limits.bytes

\* The budget is what was accepted, no more and no less.
Budgeted ==
  /\ toolCalls = Cardinality(Accepted) /\ contextBytes = SizeIn(askedFor, Accepted)
  /\ toolSignatures = {askedFor[k].signature : k \in Accepted}

Limited ==
  /\ limits.turns \in Nat /\ limits.calls \in Nat /\ limits.bytes \in Nat
  /\ turns \in Nat /\ turns <= limits.turns
  /\ toolCalls <= limits.calls /\ contextBytes <= limits.bytes

Justified ==
  /\ \A j, k \in Accepted : j # k => askedFor[j].signature # askedFor[k].signature
  /\ \A k \in (DOMAIN askedFor) \ Accepted : Refusable(askedFor, Before(Accepted, k), k)

EndsTraced ==
  /\ trace \in Seq({"RUN_STARTED", "TOOL_CALL"} \cup Ends)
  /\ \A k \in DOMAIN trace : trace[k] \in Ends => k = Len(trace)
  /\ trace = <<>> => askedFor = <<>> /\ turns = 0

Bounded == askedFor \in Seq(Calls) /\ Budgeted /\ Limited /\ Justified /\ EndsTraced

\* The accepted calls can be counted and their sizes added.
LEMMA AcceptedFinite ==
  ASSUME askedFor \in Seq(Calls), NEW K \in SUBSET Accepted
  PROVE  /\ IsFiniteSet(K) /\ Cardinality(K) \in Nat
         /\ \A k \in DOMAIN askedFor : askedFor[k].size \in Nat
<1>1. DOMAIN askedFor = 1..Len(askedFor) /\ Len(askedFor) \in Nat
  OBVIOUS
<1>2. IsFiniteSet(K)
  <2>1. IsFiniteSet(DOMAIN askedFor)
    BY <1>1, FS_Interval
  <2>2. K \subseteq DOMAIN askedFor
    BY DEF Accepted
  <2> QED  BY <2>1, <2>2, FS_Subset
<1>3. \A k \in DOMAIN askedFor : askedFor[k].size \in Nat
  <2>1. \A c \in Calls : c.size \in Nat
    BY AgentRunAssumption DEF Calls
  <2> QED  BY <1>1, <2>1
<1> QED  BY <1>2, <1>3, FS_CardinalityType

LEMMA BoundedAtFirst == AgentInit => Bounded
<1> SUFFICES ASSUME AgentInit PROVE Bounded
  OBVIOUS
<1>1. /\ askedFor = <<>> /\ trace = <<>> /\ turns = 0 /\ toolCalls = 0 /\ contextBytes = 0
      /\ toolSignatures = {} /\ limits = [turns |-> 0, calls |-> 0, bytes |-> 1]
  BY DEF AgentInit, NoLimits
<1>2. Accepted = {} /\ DOMAIN askedFor = {}
  BY <1>1 DEF Accepted
<1>3. Budgeted
  BY <1>1, <1>2, SizeOfNone, FS_EmptySet DEF Budgeted
<1>4. Limited
  BY <1>1 DEF Limited
<1>5. Justified
  BY <1>2 DEF Justified
<1>6. EndsTraced
  BY <1>1 DEF EndsTraced
<1> QED  BY <1>1, <1>3, <1>4, <1>5, <1>6 DEF Bounded

\* A call that is asked for, and what it is answered.
LEMMA CallBounded == Bounded /\ RegisterToolCall => Bounded'
<1> SUFFICES ASSUME Bounded, RegisterToolCall PROVE Bounded'
  OBVIOUS
<1>1. PICK signature \in Signatures, size \in Sizes :
        /\ Count(signature, size, Answer(signature, size))
        /\ askedFor' = Append(askedFor, [signature |-> signature, size |-> size, answer |-> Answer(signature, size)])
  BY DEF RegisterToolCall
<1> DEFINE answer == Answer(signature, size)
           call == [signature |-> signature, size |-> size, answer |-> answer]
           n == Len(askedFor)
           last == n + 1
<1>2. UNCHANGED <<limits, turns, trace>> /\ trace # <<>>
  BY DEF RegisterToolCall
<1>3. answer \in Answers /\ call \in Calls
  BY DEF Answer, Answers, Calls
<1>4. size \in Nat /\ askedFor \in Seq(Calls)
  BY AgentRunAssumption DEF Bounded
<1>5. /\ askedFor' \in Seq(Calls) /\ n \in Nat
      /\ DOMAIN askedFor = 1..n /\ DOMAIN askedFor' = 1..last
      /\ \A k \in 1..n : askedFor'[k] = askedFor[k]
      /\ askedFor'[last] = call
  <2> HIDE DEF call
  <2> QED  BY <1>1, <1>3, <1>4 DEF call
<1>6. /\ call.signature = signature /\ call.size = size /\ call.answer = answer
  OBVIOUS
<1> HIDE DEF call
<1>7. /\ last \notin Accepted /\ Accepted \subseteq 1..n
      /\ Accepted' = IF answer = "accepted" THEN Accepted \cup {last} ELSE Accepted
  <2>1. 1..last = (1..n) \cup {last} /\ last \notin 1..n
    BY <1>5
  <2> HIDE DEF answer, last, n
  <2> QED  BY <1>5, <1>6, <2>1 DEF Accepted
<1>8. /\ IsFiniteSet(Accepted) /\ Cardinality(Accepted) \in Nat
      /\ \A k \in 1..n : askedFor[k].size \in Nat
      /\ \A k \in 1..last : askedFor'[k].size \in Nat
  <2>1. \A c \in Calls : c.size \in Nat
    BY AgentRunAssumption DEF Calls
  <2> QED  BY <1>4, <1>5, <2>1, AcceptedFinite
<1>9. \A K \in SUBSET (1..n) : SizeIn(askedFor', K) = SizeIn(askedFor, K)
  <2> TAKE K \in SUBSET (1..n)
  <2>1. IsFiniteSet(K)
    <3>1. IsFiniteSet(1..n)
      BY <1>5, FS_Interval
    <3> QED  BY <3>1, FS_Subset
  <2>2. \A k \in K : askedFor[k].size \in Nat /\ askedFor'[k] = askedFor[k]
    BY <1>5, <1>8
  <2> QED  BY <2>1, <2>2, SizeKept
<1>10. CASE answer = "accepted"
  <2>1. /\ signature \notin toolSignatures /\ toolCalls < limits.calls /\ contextBytes + size <= limits.bytes
        /\ toolCalls' = toolCalls + 1 /\ contextBytes' = contextBytes + size
        /\ toolSignatures' = toolSignatures \cup {signature}
    <3>1. contextBytes \in Nat /\ toolCalls \in Nat /\ limits.calls \in Nat /\ limits.bytes \in Nat
      BY <1>7, <1>8, SizeIsNatural DEF Bounded, Budgeted, Limited
    <3>2. /\ signature \notin toolSignatures /\ ~ (toolCalls >= limits.calls)
          /\ ~ (contextBytes + size > limits.bytes)
      BY <1>10 DEF Answer
    <3>3. Count(signature, size, "accepted")
      BY <1>1, <1>10
    <3> HIDE DEF answer
    <3> QED  BY <1>4, <3>1, <3>2, <3>3 DEF Count
  <2>2. Accepted' = Accepted \cup {last}
    BY <1>7, <1>10
  <2>3. Cardinality(Accepted') = Cardinality(Accepted) + 1
    BY <1>7, <1>8, <2>2, FS_AddElement
  <2>4. SizeIn(askedFor', Accepted') = SizeIn(askedFor, Accepted) + size
    <3>1. \A k \in Accepted \cup {last} : askedFor'[k].size \in Nat
      BY <1>5, <1>7, <1>8
    <3>2. SizeIn(askedFor', Accepted \cup {last}) = SizeIn(askedFor', Accepted) + askedFor'[last].size
      BY <1>7, <1>8, <3>1, SizeOfOneMore
    <3> QED  BY <1>5, <1>6, <1>7, <1>9, <2>2, <3>2
  <2>5. {askedFor'[k].signature : k \in Accepted'} = {askedFor[k].signature : k \in Accepted} \cup {signature}
    BY <1>5, <1>6, <1>7, <2>2
  <2>6. Budgeted'
    BY <2>1, <2>3, <2>4, <2>5 DEF Budgeted, Bounded
  <2>7. Limited'
    <3>1. toolCalls \in Nat /\ limits.calls \in Nat
      BY <1>8 DEF Bounded, Budgeted, Limited
    <3> QED  BY <1>2, <2>1, <3>1 DEF Limited, Bounded
  <2>8. Justified'
    <3>1. \A j \in Accepted : askedFor[j].signature # signature
      BY <2>1 DEF Bounded, Budgeted
    <3>2. \A j, k \in Accepted' : j # k => askedFor'[j].signature # askedFor'[k].signature
      BY <1>5, <1>6, <1>7, <2>2, <3>1 DEF Bounded, Justified
    <3>3. ASSUME NEW k \in (DOMAIN askedFor') \ Accepted' PROVE Refusable(askedFor, Before(Accepted, k), k)' 
      <4>1. k \in 1..n /\ k \in (DOMAIN askedFor) \ Accepted
        BY <1>5, <1>7, <2>2
      <4>2. Before(Accepted, k)' = Before(Accepted, k)
        BY <1>5, <1>7, <2>2, <4>1 DEF Before
      <4>3. Before(Accepted, k) \subseteq 1..n
        BY <1>7 DEF Before
      <4>4. Refusable(askedFor, Before(Accepted, k), k)
        BY <4>1 DEF Bounded, Justified
      <4> HIDE DEF last, n
      <4> QED  BY <1>2, <1>5, <1>9, <4>1, <4>2, <4>3, <4>4 DEF Refusable
    <3> QED  BY <3>2, <3>3 DEF Justified
  <2>9. EndsTraced'
    BY <1>2 DEF EndsTraced, Bounded
  <2> QED  BY <1>5, <2>6, <2>7, <2>8, <2>9 DEF Bounded
<1>11. CASE answer # "accepted"
  <2>1. UNCHANGED <<toolCalls, contextBytes, toolSignatures>> /\ Accepted' = Accepted
    BY <1>1, <1>7, <1>11 DEF Count
  <2>2. Budgeted'
    <3>1. {askedFor'[k].signature : k \in Accepted} = {askedFor[k].signature : k \in Accepted}
      BY <1>5, <1>7
    <3> QED  BY <1>7, <1>9, <2>1, <3>1 DEF Budgeted, Bounded
  <2>3. Limited'
    BY <1>2, <2>1 DEF Limited, Bounded
  <2>4. Justified'
    <3>1. \A j, k \in Accepted' : j # k => askedFor'[j].signature # askedFor'[k].signature
      BY <1>5, <1>7, <2>1 DEF Bounded, Justified
    <3>2. ASSUME NEW k \in (DOMAIN askedFor') \ Accepted' PROVE Refusable(askedFor, Before(Accepted, k), k)'
      <4>1. CASE k \in 1..n
        <5>1. k \in (DOMAIN askedFor) \ Accepted
          BY <1>5, <2>1, <4>1
        <5>2. Before(Accepted, k)' = Before(Accepted, k)
          BY <2>1 DEF Before
        <5>3. Before(Accepted, k) \subseteq 1..n
          BY <1>7 DEF Before
        <5>4. Refusable(askedFor, Before(Accepted, k), k)
          BY <5>1 DEF Bounded, Justified
        <5> HIDE DEF last, n
        <5> QED  BY <1>2, <1>5, <1>9, <4>1, <5>2, <5>3, <5>4 DEF Refusable
      <4>2. CASE k = last
        <5>1. Before(Accepted, k)' = Accepted
          <6>1. \A j \in 1..n : j < last
            BY <1>5
          <6> HIDE DEF last, n
          <6> QED  BY <1>7, <2>1, <4>2, <6>1 DEF Before
        <5>2. \/ \E j \in Accepted : askedFor[j].signature = signature
              \/ Cardinality(Accepted) >= limits.calls
              \/ SizeIn(askedFor, Accepted) + size > limits.bytes
          BY <1>11 DEF Answer, Bounded, Budgeted
        <5> HIDE DEF last, n
        <5> QED  BY <1>2, <1>5, <1>6, <1>7, <1>9, <4>2, <5>1, <5>2 DEF Refusable
      <4> QED  BY <1>5, <4>1, <4>2
    <3> QED  BY <3>1, <3>2 DEF Justified
  <2>5. EndsTraced'
    BY <1>2 DEF EndsTraced, Bounded
  <2> QED  BY <1>5, <2>2, <2>3, <2>4, <2>5 DEF Bounded
<1> QED  BY <1>10, <1>11

\* The steps that ask for no call.
LEMMA RestBounded ==
  ASSUME Bounded, UNCHANGED <<toolCalls, contextBytes, toolSignatures, askedFor>>, Limited', EndsTraced',
         UNCHANGED limits \/ askedFor = <<>>
  PROVE  Bounded'
<1>1. Accepted' = Accepted
  BY DEF Accepted
<1>2. Budgeted'
  BY <1>1 DEF Budgeted, Bounded
<1>3. Justified'
  <2>1. CASE UNCHANGED limits
    <3>1. ASSUME NEW k PROVE Refusable(askedFor, Before(Accepted, k), k)' <=> Refusable(askedFor, Before(Accepted, k), k)
      BY <1>1, <2>1 DEF Refusable, Before
    <3> QED  BY <1>1, <3>1 DEF Justified, Bounded
  <2>2. CASE askedFor = <<>>
    BY <2>2 DEF Justified, Accepted
  <2> QED  BY <2>1, <2>2
<1> QED  BY <1>2, <1>3 DEF Bounded

\* Every method of the budget keeps it.
LEMMA BoundedInductive == Bounded /\ [AgentNext]_agentVars => Bounded'
<1> SUFFICES ASSUME Bounded, [AgentNext]_agentVars PROVE Bounded'
  OBVIOUS
<1>1. CASE StartRun
  <2>1. /\ trace = <<>> /\ trace' = <<"RUN_STARTED">> /\ limits' \in Limits /\ askedFor = <<>> /\ turns = 0
        /\ UNCHANGED <<turns, toolCalls, contextBytes, toolSignatures, askedFor>>
    BY <1>1 DEF StartRun, Bounded, EndsTraced
  <2>2. toolCalls = 0 /\ contextBytes = 0
    <3>1. Accepted = {}
      BY <2>1 DEF Accepted
    <3> QED  BY <3>1, SizeOfNone, FS_EmptySet DEF Bounded, Budgeted
  <2>3. Limited'
    BY <2>1, <2>2, AgentRunAssumption DEF Limited
  <2>4. EndsTraced'
    BY <2>1 DEF EndsTraced, Ends
  <2> QED  BY <2>1, <2>3, <2>4, RestBounded
<1>2. CASE RegisterTurn
  <2>1. /\ trace # <<>> /\ turns < limits.turns /\ turns' = turns + 1
        /\ UNCHANGED <<limits, toolCalls, contextBytes, toolSignatures, askedFor, trace>>
    BY <1>2 DEF RegisterTurn
  <2>2. Limited' /\ EndsTraced'
    BY <2>1 DEF Limited, EndsTraced, Bounded
  <2> QED  BY <2>1, <2>2, RestBounded
<1>3. CASE RegisterToolCall
  BY <1>3, CallBounded
<1>4. CASE RecordEvent
  <2>1. /\ trace # <<>> /\ trace[Len(trace)] \notin Ends
        /\ UNCHANGED <<limits, turns, toolCalls, contextBytes, toolSignatures, askedFor>>
    BY <1>4 DEF RecordEvent
  <2>2. PICK event \in Ends \cup {"TOOL_CALL"} : trace' = Append(trace, event)
    BY <1>4 DEF RecordEvent
  <2> DEFINE Events == {"RUN_STARTED", "TOOL_CALL"} \cup Ends
  <2>3. trace \in Seq(Events) /\ event \in Events
    BY DEF Bounded, EndsTraced
  <2> HIDE DEF Events
  <2>4. /\ trace' \in Seq(Events) /\ Len(trace') = Len(trace) + 1 /\ Len(trace) \in Nat
        /\ DOMAIN trace = 1..Len(trace) /\ DOMAIN trace' = 1..(Len(trace) + 1)
        /\ \A k \in 1..Len(trace) : trace'[k] = trace[k]
    BY <2>2, <2>3
  <2>5. \A k \in DOMAIN trace' : trace'[k] \in Ends => k = Len(trace')
    BY <2>1, <2>4 DEF Bounded, EndsTraced
  <2>6. trace' # <<>>
    BY <2>4
  <2>7. EndsTraced'
    BY <2>4, <2>5, <2>6 DEF EndsTraced, Events
  <2>8. Limited'
    BY <2>1 DEF Limited, Bounded
  <2> QED  BY <2>1, <2>7, <2>8, RestBounded
<1>5. CASE UNCHANGED agentVars
  <2>1. Limited' /\ EndsTraced' /\ UNCHANGED <<limits, toolCalls, contextBytes, toolSignatures, askedFor>>
    BY <1>5 DEF agentVars, Limited, EndsTraced, Bounded
  <2> QED  BY <2>1, RestBounded
<1> QED  BY <1>1, <1>2, <1>3, <1>4, <1>5 DEF AgentNext

\* A budget that is kept bounds the run.
LEMMA BoundedIsBounded == Bounded => RunBounded
<1> SUFFICES ASSUME Bounded PROVE RunBounded
  OBVIOUS
<1>1. \A K : SizeOf(K) = SizeIn(askedFor, K)
  BY DEF SizeOf, SizeIn
<1>2. /\ turns <= limits.turns /\ Cardinality(Accepted) <= limits.calls
      /\ SizeIn(askedFor, Accepted) <= limits.bytes
  BY DEF Bounded, Budgeted, Limited
<1> QED  BY <1>1, <1>2 DEF Bounded, Justified, Refusable, EndsTraced, RunBounded

\* Whatever an agent asks for, what it is given stays within its limits, nothing
\* is accepted twice, and no call is refused that would not have broken a limit
\* or repeated one that was accepted; a run that has ended records nothing more.
THEOREM AgentsStayBounded == AgentSpec => []RunBounded
BY BoundedAtFirst, BoundedInductive, BoundedIsBounded, PTL DEF AgentSpec

-----------------------------------------------------------------------------
(* The types of the three, which the sum of the instances is typed by         *)
(* (ReviewsProofs).                                                           *)

\* The policy answers with one of its decisions.
LEMMA PolicyAnswers == ASSUME NEW c PROVE PolicyOf(c) \in PolicyDecisions
<1> DEFINE matching == {k \in DOMAIN DefaultRules : Matches(DefaultRules[k], c)}
<1>1. DOMAIN DefaultRules = 1..5
  BY DEF DefaultRules
<1>2. \A k \in 1..5 : DefaultRules[k].action \in PolicyDecisions
  <2>1. \A k \in 1..5 : k = 1 \/ k = 2 \/ k = 3 \/ k = 4 \/ k = 5
    OBVIOUS
  <2>2. /\ DefaultRules[1].action = "ESCALATE" /\ DefaultRules[2].action = "HUMAN_REVIEW"
        /\ DefaultRules[3].action = "HUMAN_REVIEW" /\ DefaultRules[4].action = "AUTO_APPROVE"
        /\ DefaultRules[5].action = "AUTO_APPROVE"
    BY DEF DefaultRules, Rule
  <2> HIDE DEF PolicyDecisions
  <2>3. {"ESCALATE", "HUMAN_REVIEW", "AUTO_APPROVE"} \subseteq PolicyDecisions
    BY DEF PolicyDecisions, HumanDecisions
  <2> QED  BY <2>1, <2>2, <2>3
<1>3. matching # {} => Min(matching) \in 1..5
  <2>1. matching \subseteq 1..5 /\ matching \subseteq Nat
    BY <1>1
  <2> HIDE DEF matching
  <2> QED  BY <2>1, MinOfNaturals
<1>4. PolicyOf(c) = IF c.missing_evidence \/ matching = {} THEN "HUMAN_REVIEW" ELSE DefaultRules[Min(matching)].action
  BY DEF PolicyOf
<1> HIDE DEF matching
<1> QED  BY <1>2, <1>3, <1>4 DEF PolicyDecisions

\* A verdict is about a context, and so is a review.
ApprovalTyped ==
  /\ context \in Contexts \cup {Nothing} /\ verdict \in PolicyDecisions \cup {Nothing}
  /\ verdict # Nothing => context \in Contexts
  /\ desk \in Seq([about : Contexts, decision : PolicyDecisions])
  /\ log \in Seq(AuditEvents) /\ \A k \in DOMAIN log : log[k].review \in DOMAIN desk

\* A sequence that grows by one.
LEMMA AppendedTyped == ASSUME NEW S, NEW q \in Seq(S), NEW x \in S
                       PROVE  /\ Append(q, x) \in Seq(S)
                              /\ \A k \in DOMAIN Append(q, x) :
                                   (k \in DOMAIN q /\ Append(q, x)[k] = q[k]) \/ Append(q, x)[k] = x
OBVIOUS

\* Typed at first, kept so by every step, and more than the model's invariant.
LEMMA ApprovalTypedAtFirst == ApprovalInit => ApprovalTyped
BY DEF ApprovalInit, ApprovalTyped

LEMMA ApprovalTypedInductive == ApprovalTyped /\ [ApprovalNext]_approvalVars => ApprovalTyped'
<1> SUFFICES ASSUME ApprovalTyped, [ApprovalNext]_approvalVars PROVE ApprovalTyped'
  OBVIOUS
<1> DEFINE Reviewed == [about : Contexts, decision : PolicyDecisions]
<1>1. /\ desk \in Seq(Reviewed) /\ log \in Seq(AuditEvents) /\ DOMAIN desk = 1..Len(desk) /\ Len(desk) \in Nat
      /\ \A k \in DOMAIN log : log[k].review \in DOMAIN desk
  BY DEF ApprovalTyped
<1>2. CASE Evaluate
  <2>1. verdict' \in PolicyDecisions /\ context' \in Contexts /\ UNCHANGED <<desk, log>>
    BY <1>2, PolicyAnswers DEF Evaluate
  <2> QED  BY <1>1, <2>1 DEF ApprovalTyped
<1>3. CASE QueueForReview
  <2> DEFINE new == [about |-> context, decision |-> "HUMAN_REVIEW"]
             entry == Entry(Len(desk) + 1, "REVIEW_QUEUED", "HUMAN_REVIEW")
  <2>1. /\ verdict = "HUMAN_REVIEW" /\ desk' = Append(desk, new) /\ context' = Nothing /\ verdict' = Nothing
        /\ (log' = log \/ log' = Append(log, entry))
    BY <1>3 DEF QueueForReview
  <2>2. new \in Reviewed
    BY <2>1, ApprovalsAssumption DEF ApprovalTyped, PolicyDecisions
  <2>3. entry \in AuditEvents /\ entry.review = Len(desk) + 1
    BY <1>1 DEF Entry, AuditEvents, PolicyDecisions
  <2> HIDE DEF new, entry, Reviewed
  <2>4. desk' \in Seq(Reviewed) /\ DOMAIN desk' = 1..(Len(desk) + 1)
    BY <1>1, <2>1, <2>2
  <2>5. log' \in Seq(AuditEvents) /\ \A k \in DOMAIN log' : (k \in DOMAIN log /\ log'[k] = log[k]) \/ log'[k] = entry
    <3> HIDE DEF AuditEvents
    <3>1. CASE log' = log
      BY <1>1, <3>1
    <3>2. CASE log' = Append(log, entry)
      BY <1>1, <2>3, <3>2, AppendedTyped
    <3> QED  BY <2>1, <3>1, <3>2
  <2>6. \A k \in DOMAIN log' : log'[k].review \in DOMAIN desk'
    BY <1>1, <2>3, <2>4, <2>5
  <2> QED  BY <2>1, <2>4, <2>5, <2>6 DEF ApprovalTyped, Reviewed
<1>4. CASE Validate
  BY <1>1, <1>4 DEF Validate, ApprovalTyped
<1>5. ASSUME NEW v \in DOMAIN desk, NEW d \in HumanDecisions, DecideQueued(v, d) PROVE ApprovalTyped'
  <2> DEFINE entry == Entry(v, "REVIEW_DECIDED", d)
  <2>1. /\ desk' = [desk EXCEPT ![v].decision = d] /\ log' = Append(log, entry)
        /\ (context' = desk[v].about /\ verdict' = d) \/ UNCHANGED <<context, verdict>>
    BY <1>5 DEF DecideQueued
  <2>a. d \in PolicyDecisions
    BY DEF PolicyDecisions
  <2>b. desk[v] \in Reviewed
    <3> HIDE DEF Reviewed
    <3> QED  BY <1>1
  <2>2. desk[v] \in Reviewed /\ d \in PolicyDecisions
    BY <2>a, <2>b
  <2>3. [desk[v] EXCEPT !.decision = d] \in Reviewed /\ desk[v].about \in Contexts
    BY <2>2
  <2>4. entry \in AuditEvents /\ entry.review = v
    BY <1>1, <2>2 DEF Entry, AuditEvents
  <2> HIDE DEF entry, Reviewed
  <2>5. desk' \in Seq(Reviewed) /\ DOMAIN desk' = DOMAIN desk
    BY <1>1, <2>1, <2>3
  <2>6. log' \in Seq(AuditEvents) /\ \A k \in DOMAIN log' : (k \in DOMAIN log /\ log'[k] = log[k]) \/ log'[k] = entry
    BY <1>1, <2>1, <2>4, AppendedTyped
  <2>7. \A k \in DOMAIN log' : log'[k].review \in DOMAIN desk'
    BY <1>1, <2>4, <2>5, <2>6
  <2>8. /\ context' \in Contexts \cup {Nothing} /\ verdict' \in PolicyDecisions \cup {Nothing}
        /\ verdict' # Nothing => context' \in Contexts
    BY <2>1, <2>2, <2>3 DEF ApprovalTyped
  <2> QED  BY <2>5, <2>6, <2>7, <2>8 DEF ApprovalTyped, Reviewed
<1>6. CASE UNCHANGED approvalVars
  BY <1>6 DEF approvalVars, ApprovalTyped
<1> QED  BY <1>2, <1>3, <1>4, <1>5, <1>6 DEF ApprovalNext

\* A desk is a sequence of reviews, each of a context the policy was asked
\* about.
LEMMA ApprovalTypedOK == ApprovalTyped => ApprovalTypeOK
<1> SUFFICES ASSUME ApprovalTyped PROVE ApprovalTypeOK
  OBVIOUS
<1> DEFINE Reviewed == [about : Contexts, decision : PolicyDecisions]
<1>1. \A v \in DOMAIN desk : desk[v] \in Reviewed
  <2>1. desk \in Seq(Reviewed)
    BY DEF ApprovalTyped
  <2> HIDE DEF Reviewed
  <2> QED  BY <2>1
<1>2. \A v \in DOMAIN desk : desk[v].about \in Contexts /\ desk[v].decision \in PolicyDecisions
  BY <1>1
<1> QED  BY <1>2 DEF ApprovalTyped, ApprovalTypeOK, PolicyDecisions

-----------------------------------------------------------------------------
\* Proposals and unresolved subjects are of batches there were.
LEMMA MLTypedInductive == MLTypeOK /\ [MLNext]_mlVars => MLTypeOK'
<1> SUFFICES ASSUME MLTypeOK, [MLNext]_mlVars PROVE MLTypeOK'
  OBVIOUS
<1>1. batch \in Nat /\ batch <= MaxBatches /\ MaxBatches \in Nat
  BY MLReviewAssumption DEF MLTypeOK
<1>2. CASE Open
  BY <1>2 DEF Open, MLTypeOK
<1>3. CASE Suggest
  <2>1. batch' = batch + 1 /\ batch < MaxBatches /\ UNCHANGED model
    BY <1>3 DEF Suggest
  <2>2. \A p \in proposals' : p \in proposals \/ (p.batch = batch + 1 /\ p.decision = Undecided)
    BY <1>3 DEF Suggest
  <2>3. \A x \in unresolved' : x \in unresolved \/ x.batch = batch + 1
    BY <1>3 DEF Suggest, Unresolved
  <2>4. batch' \in 0..MaxBatches /\ batch + 1 \in 1..batch' /\ 1..batch \subseteq 1..batch'
    BY <1>1, <2>1
  <2> QED  BY <2>1, <2>2, <2>3, <2>4 DEF MLTypeOK
<1>4. ASSUME NEW r \in proposals, NEW d \in MLDecisions, DecideProposal(r, d) PROVE MLTypeOK'
  <2>1. /\ proposals' = (proposals \ {r}) \cup {[r EXCEPT !.decision = d]}
        /\ UNCHANGED <<model, batch, unresolved>> /\ r.decision = Undecided
    BY <1>4 DEF DecideProposal
  <2>2. ASSUME NEW p \in proposals' PROVE p.batch \in 1..batch /\ p.decision \in MLDecisions \cup {Undecided}
    <3>1. CASE p \in proposals
      BY <3>1 DEF MLTypeOK
    <3>2. CASE p = [r EXCEPT !.decision = d]
      <4>1. p.batch = r.batch /\ p.decision \in {d, Undecided}
        BY <2>1, <3>2
      <4> QED  BY <4>1 DEF MLTypeOK
    <3> QED  BY <2>1, <3>1, <3>2
  <2> QED  BY <2>1, <2>2 DEF MLTypeOK
<1>5. CASE UNCHANGED mlVars
  BY <1>5 DEF mlVars, MLTypeOK
<1> QED  BY <1>2, <1>3, <1>4, <1>5 DEF MLNext

LEMMA MLTypedAtFirst == MLInit => MLTypeOK
BY MLReviewAssumption DEF MLInit, MLTypeOK

-----------------------------------------------------------------------------
\* The counters count, and every call asked for is a call with an answer.
AgentTyped ==
  /\ limits \in Limits \cup {NoLimits} /\ toolSignatures \subseteq Signatures
  /\ turns \in Nat /\ toolCalls \in Nat /\ contextBytes \in Nat
  /\ askedFor \in Seq(Calls)

LEMMA AgentTypedInductive == AgentTyped /\ [AgentNext]_agentVars => AgentTyped'
<1> SUFFICES ASSUME AgentTyped, [AgentNext]_agentVars PROVE AgentTyped'
  OBVIOUS
<1>1. CASE StartRun
  BY <1>1 DEF StartRun, AgentTyped
<1>2. CASE RegisterTurn
  BY <1>2 DEF RegisterTurn, AgentTyped
<1>3. CASE RegisterToolCall
  <2>1. PICK signature \in Signatures, size \in Sizes :
          /\ Count(signature, size, Answer(signature, size))
          /\ askedFor' = Append(askedFor, [signature |-> signature, size |-> size, answer |-> Answer(signature, size)])
    BY <1>3 DEF RegisterToolCall
  <2>2. [signature |-> signature, size |-> size, answer |-> Answer(signature, size)] \in Calls
    BY DEF Answer, Answers, Calls
  <2>3. askedFor' \in Seq(Calls)
    BY <2>1, <2>2 DEF AgentTyped
  <2>4. size \in Nat
    BY AgentRunAssumption
  <2>5. toolSignatures' \subseteq Signatures /\ toolCalls' \in Nat /\ contextBytes' \in Nat
    BY <2>1, <2>4 DEF Count, AgentTyped
  <2> QED  BY <1>3, <2>3, <2>5 DEF RegisterToolCall, AgentTyped
<1>4. CASE RecordEvent
  BY <1>4 DEF RecordEvent, AgentTyped
<1>5. CASE UNCHANGED agentVars
  BY <1>5 DEF agentVars, AgentTyped
<1> QED  BY <1>1, <1>2, <1>3, <1>4, <1>5 DEF AgentNext

LEMMA AgentTypedAtFirst == AgentInit => AgentTyped
BY DEF AgentInit, AgentTyped

\* With the calls asked for, the trace has its type.
LEMMA AgentTypedOK == AgentTyped => AgentTypeOK
<1> SUFFICES ASSUME AgentTyped PROVE AgentTypeOK
  OBVIOUS
<1>1. \A k \in DOMAIN askedFor : askedFor[k] \in Calls
  BY DEF AgentTyped
<1>2. \A k \in DOMAIN askedFor : askedFor[k].signature \in Signatures /\ askedFor[k].size \in Sizes
  BY <1>1 DEF Calls
<1> QED  BY <1>2 DEF AgentTyped, AgentTypeOK
================================================================================

------------------------------- MODULE Approvals -------------------------------
(* What an action must pass before it is posted: the policy of                *)
(* services/policy/engine.py, the ReviewWorkflow of services/review and the   *)
(* AccountingValidator of services/policy/accounting.py.  One object of each, *)
(* one caller: it evaluates a context, queues what wants a human, decides,    *)
(* and has the journal validated.                                             *)
EXTENDS Integers, Sequences, SequencesExt, FiniteSetsExt

CONSTANTS Contexts,    \* the PolicyContexts there may be
          Journals,    \* the JournalProposals there may be
          NoConfidence,
          Nothing,     \* no context, no decision
          FlakyWriter, \* whether the audit_writer may raise
          MaxQueued    \* bound: reviews ever queued

ASSUME ApprovalsAssumption ==
  /\ \A c \in Contexts :
       /\ c.amount \in Int /\ c.confidence \in 0..100 \cup {NoConfidence}
       /\ {c.unresolved, c.missing_evidence, c.evidence_complete, c.exact_match, c.known_variance} \subseteq BOOLEAN
  /\ \A j \in Journals :
       /\ j.lines \in Seq({j.lines[k] : k \in DOMAIN j.lines})
       /\ \A k \in DOMAIN j.lines : j.lines[k].debit \in Int /\ j.lines[k].credit \in Int
  /\ FlakyWriter \in BOOLEAN /\ MaxQueued \in Nat
  /\ Nothing \notin {"AUTO_APPROVE", "HUMAN_REVIEW", "REJECT", "ESCALATE"}

VARIABLES context,  \* the action under consideration
          verdict,  \* the decision the caller holds about it
          desk,     \* the ReviewWorkflow: each review queued, its context and decision
          log,      \* its audit_events
          posting   \* the journal just found valid, and on what

approvalVars == <<context, verdict, desk, log, posting>>

ApprovalInit ==
  context = Nothing /\ verdict = Nothing /\ desk = <<>> /\ log = <<>> /\ posting = Nothing

-----------------------------------------------------------------------------
(* ApprovalPolicy.evaluate: what is missing, else the first rule that matches *)

Rule(when, action) == [when |-> when, action |-> action]

\* Mutant: the confidence is looked at after the exact matches.
RulesConfidenceLast ==
  << Rule([unresolved |-> TRUE], "ESCALATE"),
     Rule([amount_above |-> 5000], "HUMAN_REVIEW"),
     Rule([exact_match |-> TRUE, evidence_complete |-> TRUE, amount_below |-> 5000], "AUTO_APPROVE"),
     Rule([known_variance |-> TRUE, evidence_complete |-> TRUE, amount_below |-> 5000], "AUTO_APPROVE"),
     Rule([root_cause_confidence_below |-> 95], "HUMAN_REVIEW") >>

DefaultRules ==
  << Rule([unresolved |-> TRUE], "ESCALATE"),
     Rule([amount_above |-> 5000], "HUMAN_REVIEW"),
     Rule([root_cause_confidence_below |-> 95], "HUMAN_REVIEW"),
     Rule([exact_match |-> TRUE, evidence_complete |-> TRUE, amount_below |-> 5000], "AUTO_APPROVE"),
     Rule([known_variance |-> TRUE, evidence_complete |-> TRUE, amount_below |-> 5000], "AUTO_APPROVE") >>

\* Amounts are compared with their signs; a confidence nobody gave is below nothing.
Holds(name, bound, c) ==
  CASE name = "amount_below" -> c.amount < bound
    [] name = "amount_above" -> c.amount > bound
    [] name = "root_cause_confidence_below" -> c.confidence # NoConfidence /\ c.confidence < bound
    [] OTHER -> c[name] = bound

Matches(rule, c) == \A name \in DOMAIN rule.when : Holds(name, rule.when[name], c)

PolicyOf(c) ==
  LET matching == {k \in DOMAIN DefaultRules : Matches(DefaultRules[k], c)} IN
  IF c.missing_evidence \/ matching = {} THEN "HUMAN_REVIEW" ELSE DefaultRules[Min(matching)].action

Evaluate ==
  /\ context = Nothing
  /\ context' \in Contexts
  /\ verdict' = PolicyOf(context')
  /\ posting' = Nothing
  /\ UNCHANGED <<desk, log>>

-----------------------------------------------------------------------------
(* ReviewWorkflow.                                                            *)

Entry(review, event, decision) == [review |-> review, event |-> event, decision |-> decision]

\* A blank actor is refused when the event is built, the review stored already;
\* a writer that raises does so when it has been appended.  The caller of a
\* queue that raised knows no review id; the decision of a decide is made.
QueueForReview ==
  /\ verdict = "HUMAN_REVIEW" /\ Len(desk) < MaxQueued
  /\ desk' = Append(desk, [about |-> context, decision |-> "HUMAN_REVIEW"])
  /\ \/ UNCHANGED log
     \/ log' = Append(log, Entry(Len(desk) + 1, "REVIEW_QUEUED", "HUMAN_REVIEW"))
  /\ context' = Nothing /\ verdict' = Nothing
  /\ UNCHANGED posting

HumanDecisions == {"AUTO_APPROVE", "REJECT", "ESCALATE"}

\* Mutant: whether the review has been decided is not looked at.
DecideQueuedAgain(v, d) ==
  /\ context = Nothing
  /\ desk' = [desk EXCEPT ![v].decision = d]
  /\ log' = Append(log, Entry(v, "REVIEW_DECIDED", d))
  /\ \/ context' = desk[v].about /\ verdict' = d
     \/ FlakyWriter /\ UNCHANGED <<context, verdict>>
  /\ UNCHANGED posting

DecideQueued(v, d) ==
  /\ context = Nothing /\ desk[v].decision = "HUMAN_REVIEW"
  /\ desk' = [desk EXCEPT ![v].decision = d]
  /\ log' = Append(log, Entry(v, "REVIEW_DECIDED", d))
  /\ \/ context' = desk[v].about /\ verdict' = d
     \/ FlakyWriter /\ UNCHANGED <<context, verdict>>
  /\ UNCHANGED posting

-----------------------------------------------------------------------------
(* AccountingValidator.validate.                                              *)

SumOf(lines, side) == FoldLeft(LAMBDA total, line : total + line[side], 0, lines)

LineValid(line) ==
  /\ line.account /\ line.debit >= 0 /\ line.credit >= 0
  /\ (line.debit > 0) # (line.credit > 0)

ValidJournal(journal, decision) ==
  /\ decision \in {"AUTO_APPROVE", "HUMAN_REVIEW"}
  /\ ~journal.key_executed /\ ~journal.period_closed /\ journal.sources_valid
  /\ ~journal.reconciled /\ ~journal.llm_generated
  /\ journal.lines # <<>>
  /\ \A k, l \in DOMAIN journal.lines : journal.lines[k].currency = journal.lines[l].currency
  /\ \A k \in DOMAIN journal.lines : Len(journal.lines[k].currency) = 3
  /\ SumOf(journal.lines, "debit") = SumOf(journal.lines, "credit")
  /\ \A k \in DOMAIN journal.lines : LineValid(journal.lines[k])

\* The caller is done with the action whatever the result is.
Validate ==
  /\ context # Nothing
  /\ \E journal \in Journals :
       posting' = IF ValidJournal(journal, verdict)
                  THEN [journal |-> journal, about |-> context, decision |-> verdict] ELSE Nothing
  /\ context' = Nothing /\ verdict' = Nothing
  /\ UNCHANGED <<desk, log>>

ApprovalNext ==
  \/ Evaluate \/ QueueForReview \/ Validate
  \/ \E v \in DOMAIN desk, d \in HumanDecisions : DecideQueued(v, d)

ApprovalSpec == ApprovalInit /\ [][ApprovalNext]_approvalVars

-----------------------------------------------------------------------------
ApprovalTypeOK ==
  /\ context \in Contexts \cup {Nothing}
  /\ verdict \in HumanDecisions \cup {"HUMAN_REVIEW", Nothing}
  /\ \A v \in DOMAIN desk : desk[v].about \in Contexts /\ desk[v].decision \in HumanDecisions \cup {"HUMAN_REVIEW"}
  /\ \A k \in DOMAIN log : log[k].review \in DOMAIN desk

Earned(c) ==
  /\ ~c.missing_evidence /\ ~c.unresolved /\ c.evidence_complete
  /\ c.exact_match \/ c.known_variance
  /\ c.amount < 5000
  /\ c.confidence # NoConfidence => c.confidence >= 95

DecisionsOf(v) == {k \in DOMAIN log : log[k].review = v /\ log[k].event = "REVIEW_DECIDED"}

Moves(lines) == \E k, l \in DOMAIN lines : lines[k].debit > 0 /\ lines[l].credit > 0 /\ k # l

\* Whatever the order of the rules, a journal that passes the accountant moves
\* money between two of its lines at least; on an approval, it is of an action
\* that had earned its automatic approval, or of one a human has approved in the
\* review workflow.  (A journal of an action that still awaits its review passes
\* as well: the validator takes HUMAN_REVIEW.)
PostingEarned ==
  posting # Nothing =>
    /\ Moves(posting.journal.lines)
    /\ posting.decision = "AUTO_APPROVE" =>
         Earned(posting.about) \/ \E v \in DOMAIN desk : desk[v] = [about |-> posting.about, decision |-> "AUTO_APPROVE"]

\* Queuing, deciding and logging in three steps, each of which may raise: every
\* decision of a review is logged exactly once, after its queuing if that was
\* logged, and a review is decided by one reviewer only.
ApprovalsTraced ==
  \A v \in DOMAIN desk :
    IF desk[v].decision = "HUMAN_REVIEW" THEN DecisionsOf(v) = {}
    ELSE \E k \in DOMAIN log :
           /\ DecisionsOf(v) = {k} /\ log[k].decision = desk[v].decision
           /\ \A j \in DOMAIN log : log[j] = Entry(v, "REVIEW_QUEUED", "HUMAN_REVIEW") => j < k
==============================================================================

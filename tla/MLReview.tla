-------------------------------- MODULE MLReview --------------------------------
(* MLReviewWorkflow of services/ml/workflow.py with the trained ranker of     *)
(* services/ml/model.py and the mask of services/ml/selection.py: pairs of    *)
(* records are ranked in one batch, the unrivalled ones become proposals, and *)
(* reviewers decide them.                                                     *)
(*                                                                            *)
(* A candidate is a pair <<source, target>> of positions.  Its score is what  *)
(* the model says of its features, in hundredths: the same in every batch.    *)
EXTENDS GraphCandidates, FiniteSets, Sequences, FiniteSetsExt

CONSTANTS Ledgers,       \* the pairs <<sources, targets>> of sequences of records
          Scores,        \* what a candidate may score
          Models,        \* the metadata an artifact may have
          NoParty, NoThreshold, NoModel, Undecided,
          MaxBatches     \* bound: calls of suggest

Margin == 5  \* minimum_margin

MLDecisions == {"APPROVE", "REJECT", "ESCALATE"}

ASSUME MLReviewAssumption ==
  /\ Scores \subseteq 0..100 /\ MaxBatches \in Nat /\ Undecided \notin MLDecisions
  /\ \A m \in Models : m.threshold \in 0..100 \cup {NoThreshold} /\ {m.gate, m.supported, m.policy} \subseteq BOOLEAN

VARIABLES model,      \* of the directory, or NoModel before the workflow exists
          ledger,     \* the records
          score,      \* of every candidate
          batch,      \* calls of suggest so far
          proposals,  \* every proposal: its batch, candidate and decision
          unresolved, \* [batch, subject, reason]
          decisions   \* the ML_REVIEW_DECISION events, in order

mlVars == <<model, ledger, score, batch, proposals, unresolved, decisions>>

MLInit ==
  /\ model = NoModel /\ ledger = <<>> /\ score = <<>> /\ batch = 0
  /\ proposals = {} /\ unresolved = {} /\ decisions = <<>>

Source(c) == ledger[1][c[1]]
Target(c) == ledger[2][c[2]]

\* generate_candidate_batch: every pair the graph does not block.
Candidates(S, T) == {c \in S \X T : ~Blocked(Source(c), Target(c))}

-----------------------------------------------------------------------------
(* review_mask and rank_candidates.                                           *)

SharesRecord(c, d) == c # d /\ (c[1] = d[1] \/ c[2] = d[2])
Rivals(c, C) == {d \in C : SharesRecord(c, d)}

SameCurrency(c) == Source(c).currency = Target(c).currency

\* review_eligible
Eligible(c) ==
  /\ SameCurrency(c)
  /\ NoParty \in {Source(c).party, Target(c).party} \/ Source(c).party = Target(c).party

Reaches(c) == model.threshold # NoThreshold /\ score[c] >= model.threshold

\* Mutant: a tie within the margin counts as a win.
ChosenWithTies(c, C) ==
  Eligible(c) /\ Reaches(c) /\ \A d \in Rivals(c, C) : Eligible(d) => score[c] >= score[d]

Chosen(c, C) ==
  /\ Eligible(c) /\ Reaches(c)
  /\ \A d \in Rivals(c, C) : Eligible(d) => score[c] - score[d] >= Margin

\* The reason of the first condition that holds.
RankReason(c, C) ==
  CASE ~SameCurrency(c) -> "CURRENCY_MISMATCH"
    [] SameCurrency(c) /\ ~Eligible(c) -> "PARTY_CONFLICT"
    [] OTHER ->
       IF model.threshold = NoThreshold THEN "MODEL_NOT_CALIBRATED"
       ELSE IF ~model.gate THEN "MODEL_NOT_VALIDATED"
       ELSE IF ~model.supported THEN "OUT_OF_DISTRIBUTION_RELATIONSHIP"
       ELSE IF ~model.policy THEN "INCOMPATIBLE_REVIEW_POLICY"
       ELSE IF Chosen(c, C) THEN "REVIEW_ONLY_MODEL"
       ELSE IF Reaches(c) THEN "AMBIGUOUS_RECORD_MATCH" ELSE "BELOW_REVIEW_THRESHOLD"

-----------------------------------------------------------------------------
(* MLReviewWorkflow.                                                          *)

AmountsOf(records, side, G) == MapThenSumSet(LAMBDA c : records[c[side]].amount, G)

\* _allocation_candidate_ids: groups of two and three, though not of four.
InAllocation(c, C) ==
  \E G \in SUBSET C :
    /\ c \in G /\ Cardinality(G) \in 2..3
    /\ \/ (\A d \in G : d[1] = c[1]) /\ AmountsOf(ledger[2], 2, G) = Source(c).amount
       \/ (\A d \in G : d[2] = c[2]) /\ AmountsOf(ledger[1], 1, G) = Target(c).amount

Reason(c, C) ==
  IF InAllocation(c, C) THEN "UNSUPPORTED_ALLOCATION"
  ELSE IF Source(c).amount # Target(c).amount THEN "UNSUPPORTED_PARTIAL_PAYMENT"
  ELSE IF Rivals(c, C) = {} THEN "INSUFFICIENT_CANDIDATE_SET"
  ELSE RankReason(c, C)

Proposed(C) == {c \in C : Reason(c, C) = "REVIEW_ONLY_MODEL"}

Uncovered(S, T, C) ==
  {<<"source", s>> : s \in S \ {c[1] : c \in C}} \cup {<<"target", t>> : t \in T \ {c[2] : c \in C}}

Unresolved(subject, reason) == [batch |-> batch + 1, subject |-> subject, reason |-> reason]

Open ==
  /\ model = NoModel
  /\ model' \in Models
  /\ ledger' \in Ledgers
  /\ score' \in [(DOMAIN ledger'[1]) \X (DOMAIN ledger'[2]) -> Scores]
  /\ UNCHANGED <<batch, proposals, unresolved, decisions>>

Suggest ==
  /\ model # NoModel /\ batch < MaxBatches
  /\ batch' = batch + 1
  /\ \E S \in SUBSET DOMAIN ledger[1], T \in SUBSET DOMAIN ledger[2] :
       LET C == Candidates(S, T) IN
       /\ C # {}
       /\ proposals' = proposals \cup
            {[batch |-> batch + 1, candidate |-> c, decision |-> Undecided] : c \in Proposed(C)}
       /\ unresolved' = unresolved \cup
            {Unresolved(<<"pair", c>>, Reason(c, C)) : c \in C \ Proposed(C)} \cup
            {Unresolved(r, "NO_CANDIDATES") : r \in Uncovered(S, T, C)}
  /\ UNCHANGED <<model, ledger, score, decisions>>

DecideProposal(p, d) ==
  /\ p \in proposals /\ p.decision = Undecided
  /\ proposals' = (proposals \ {p}) \cup {[p EXCEPT !.decision = d]}
  /\ decisions' = Append(decisions, [proposal |-> <<p.batch, p.candidate>>, decision |-> d])
  /\ UNCHANGED <<model, ledger, score, batch, unresolved>>

MLNext ==
  \/ Open \/ Suggest
  \/ \E p \in proposals, d \in MLDecisions : DecideProposal(p, d)

MLSpec == MLInit /\ [][MLNext]_mlVars

-----------------------------------------------------------------------------
MLTypeOK ==
  /\ model \in Models \cup {NoModel} /\ batch \in 0..MaxBatches
  /\ \A p \in proposals : p.batch \in 1..batch /\ p.decision \in MLDecisions \cup {Undecided}
  /\ \A x \in unresolved : x.batch \in 1..batch

\* Whatever the scores, the proposals of one batch share no record: a reviewer
\* may approve them all and no record is matched twice.
ProposalsDisjoint ==
  \A p, q \in proposals : p.batch = q.batch => ~SharesRecord(p.candidate, q.candidate)
==============================================================================

------------------------------ MODULE MCReviews ------------------------------
(* Small instances for TLC of what agents propose and reviewers decide: the   *)
(* reviews of the store (Reviews), the approvals of actions (Approvals), the  *)
(* proposals of the ML workflow (MLReview), the run of an agent (AgentRun)    *)
(* and its calls of the model (TensorMux).  They share no state, so the run   *)
(* is their sum: one of them moves while the others have not begun.           *)
EXTENDS Reviews, Approvals, MLReview, AgentRun, TensorMux, TLC

DeciderSymmetry == Permutations(Deciders)

AllInit == Init /\ ApprovalInit /\ MLInit /\ AgentInit /\ MuxInit
allVars == <<vars, approvalVars, mlVars, agentVars, muxVars>>
AllNext ==
  \/ ApprovalInit /\ MLInit /\ AgentInit /\ MuxInit
     /\ Next /\ UNCHANGED <<approvalVars, mlVars, agentVars, muxVars>>
  \/ Init /\ MLInit /\ AgentInit /\ MuxInit
     /\ ApprovalNext /\ UNCHANGED <<vars, mlVars, agentVars, muxVars>>
  \/ Init /\ ApprovalInit /\ AgentInit /\ MuxInit
     /\ MLNext /\ UNCHANGED <<vars, approvalVars, agentVars, muxVars>>
  \/ Init /\ ApprovalInit /\ MLInit /\ MuxInit
     /\ AgentNext /\ UNCHANGED <<vars, approvalVars, mlVars, muxVars>>
  \/ Init /\ ApprovalInit /\ MLInit /\ AgentInit
     /\ MuxNext /\ UNCHANGED <<vars, approvalVars, mlVars, agentVars>>
AllSpec == AllInit /\ [][AllNext]_allVars

TypesOK == TypeOK /\ ApprovalTypeOK /\ MLTypeOK /\ AgentTypeOK /\ MuxTypeOK

\* A small exact match, then one thing about it that is different.
Plain == [amount |-> 4999, exact_match |-> TRUE, known_variance |-> FALSE, evidence_complete |-> TRUE,
          unresolved |-> FALSE, confidence |-> NoConfidence, missing_evidence |-> FALSE]
Variance == [Plain EXCEPT !.exact_match = FALSE, !.known_variance = TRUE]
Varied ==
  UNION {{c, [c EXCEPT !.amount = -9000], [c EXCEPT !.amount = 5000], [c EXCEPT !.evidence_complete = FALSE],
          [c EXCEPT !.confidence = 94], [c EXCEPT !.confidence = 95]} : c \in {Plain, Variance}}
    \cup {[Plain EXCEPT !.amount = 5001], [Plain EXCEPT !.unresolved = TRUE], [Plain EXCEPT !.missing_evidence = TRUE]}

Line(d, c, a, y) == [debit |-> d, credit |-> c, account |-> a, currency |-> y]
LineShapes == {Line(10, 0, TRUE, "USD"), Line(0, 10, TRUE, "USD"), Line(10, 10, TRUE, "USD"), Line(0, 0, TRUE, "USD"),
               Line(-10, 0, TRUE, "USD"), Line(0, 10, TRUE, "EUR"), Line(0, 10, FALSE, "USD")}
Journal(lines) == [lines |-> lines, key_executed |-> FALSE, period_closed |-> FALSE, sources_valid |-> TRUE,
                   reconciled |-> FALSE, llm_generated |-> FALSE]
Sample == Journal(<<Line(10, 0, TRUE, "USD"), Line(0, 10, TRUE, "USD")>>)
SmallJournals ==
  {Journal(lines) : lines \in {<<>>, <<Line(10, 10, TRUE, "USD")>>, <<Line(10, 0, TRUE, "EURO"), Line(0, 10, TRUE, "EURO")>>}
                               \cup {<<Line(10, 0, TRUE, "USD"), l>> : l \in LineShapes}}
    \cup {[Sample EXCEPT !.key_executed = TRUE], [Sample EXCEPT !.llm_generated = TRUE]}

\* Records of one day: two amounts, two parties, one record the graph blocks.
Money(a, p) == [amount |-> a, currency |-> "USD", date |-> 0, party |-> p]
LateRecord == [Money(1, NoParty) EXCEPT !.date = 9]
Pairs == {Money(1, NoParty), Money(1, "p"), Money(2, "q")}
TwoByTwo == (Pairs \X Pairs) \X ({Money(1, NoParty), Money(1, "p"), LateRecord} \X {Money(1, "p"), Money(2, NoParty)})
OneByThree == {<<<<Money(3, NoParty)>>, <<Money(a, NoParty), Money(b, NoParty), Money(3, NoParty)>>>> : a, b \in {1, 2, 3}}
SmallLedgers == TwoByTwo \cup OneByThree

Artifact(t, g, s, p) == [threshold |-> t, gate |-> g, supported |-> s, policy |-> p]
Limit(t, c, b) == [turns |-> t, calls |-> c, bytes |-> b]
SmallLimits == {Limit(1, 2, 3), Limit(2, 1, 3), Limit(1, 0, 3)}

Artifacts == {Artifact(86, TRUE, TRUE, TRUE), Artifact(86, FALSE, TRUE, TRUE)}
==============================================================================

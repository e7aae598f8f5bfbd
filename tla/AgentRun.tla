-------------------------------- MODULE AgentRun --------------------------------
(* What bounds and records the run of an agent: InvestigationBudget of        *)
(* services/agents/runtime.py and RunTrace of observability/tracing.py.  The  *)
(* investigation controller is a run of one turn and no tool call.            *)
EXTENDS Integers, Sequences, FiniteSetsExt

CONSTANTS Limits,     \* the InvestigationLimits: [turns, calls, bytes]
          Signatures, \* the tool calls: a name and its arguments
          Sizes,      \* of the encoded results
          MaxAsked,   \* bound: tool calls asked for
          MaxEvents   \* bound: events of the trace

ASSUME AgentRunAssumption ==
  /\ Sizes \subseteq Nat /\ {MaxAsked, MaxEvents} \subseteq Nat
  /\ \A l \in Limits : l.turns \in Nat /\ l.calls \in Nat /\ l.bytes \in Nat \ {0}

VARIABLES limits,
          turns, toolCalls, contextBytes, toolSignatures, \* of the budget
          askedFor, \* history: every tool call asked for, and the answer
          trace     \* the events of the RunTrace

agentVars == <<limits, turns, toolCalls, contextBytes, toolSignatures, askedFor, trace>>

NoLimits == [turns |-> 0, calls |-> 0, bytes |-> 1]

AgentInit ==
  /\ limits = NoLimits /\ turns = 0 /\ toolCalls = 0 /\ contextBytes = 0
  /\ toolSignatures = {} /\ askedFor = <<>> /\ trace = <<>>

StartRun ==
  /\ trace = <<>>
  /\ limits' \in Limits
  /\ trace' = <<"RUN_STARTED">>
  /\ UNCHANGED <<turns, toolCalls, contextBytes, toolSignatures, askedFor>>

RegisterTurn ==
  /\ trace # <<>> /\ turns < limits.turns
  /\ turns' = turns + 1
  /\ UNCHANGED <<limits, toolCalls, contextBytes, toolSignatures, askedFor, trace>>

\* Refused as a repetition, then for their number, then for the size.
Answer(signature, size) ==
  IF signature \in toolSignatures THEN "duplicate"
  ELSE IF toolCalls >= limits.calls THEN "tool-call limit"
  ELSE IF contextBytes + size > limits.bytes THEN "context limit" ELSE "accepted"

\* Mutant: the call is remembered before its size is looked at.
CountEarly(signature, size, answer) ==
  /\ toolSignatures' = toolSignatures \cup {signature}
  /\ IF answer = "accepted"
     THEN toolCalls' = toolCalls + 1 /\ contextBytes' = contextBytes + size
     ELSE UNCHANGED <<toolCalls, contextBytes>>

Count(signature, size, answer) ==
  IF answer = "accepted"
  THEN /\ toolCalls' = toolCalls + 1 /\ contextBytes' = contextBytes + size
       /\ toolSignatures' = toolSignatures \cup {signature}
  ELSE UNCHANGED <<toolCalls, contextBytes, toolSignatures>>

RegisterToolCall ==
  /\ trace # <<>> /\ Len(askedFor) < MaxAsked
  /\ \E signature \in Signatures, size \in Sizes :
       /\ Count(signature, size, Answer(signature, size))
       /\ askedFor' = Append(askedFor, [signature |-> signature, size |-> size, answer |-> Answer(signature, size)])
  /\ UNCHANGED <<limits, turns, trace>>

Ends == {"RUN_COMPLETED", "RUN_FAILED"}

\* Of the events that end nothing, one stands for all.
RecordEvent ==
  /\ trace # <<>> /\ Len(trace) < MaxEvents
  /\ trace[Len(trace)] \notin Ends
  /\ \E event \in Ends \cup {"TOOL_CALL"} : trace' = Append(trace, event)
  /\ UNCHANGED <<limits, turns, toolCalls, contextBytes, toolSignatures, askedFor>>

AgentNext == StartRun \/ RegisterTurn \/ RegisterToolCall \/ RecordEvent

AgentSpec == AgentInit /\ [][AgentNext]_agentVars

-----------------------------------------------------------------------------
AgentTypeOK ==
  /\ limits \in Limits \cup {NoLimits} /\ toolSignatures \subseteq Signatures
  /\ {turns, toolCalls, contextBytes} \subseteq Nat
  /\ \A k \in DOMAIN askedFor : askedFor[k].signature \in Signatures /\ askedFor[k].size \in Sizes

Accepted == {k \in DOMAIN askedFor : askedFor[k].answer = "accepted"}
SizeOf(K) == MapThenSumSet(LAMBDA k : askedFor[k].size, K)
Before(K, k) == {j \in K : j < k}

\* Whatever an agent asks for, what it is given stays within its limits, no call
\* is accepted twice, and no call is refused that would not have broken a limit
\* or repeated one that was accepted: a refused call costs nothing.  A run that
\* has ended records nothing more.
RunBounded ==
  /\ turns <= limits.turns /\ Cardinality(Accepted) <= limits.calls
  /\ SizeOf(Accepted) <= limits.bytes
  /\ \A j, k \in Accepted : j # k => askedFor[j].signature # askedFor[k].signature
  /\ \A k \in (DOMAIN askedFor) \ Accepted :
       LET earlier == Before(Accepted, k) IN
       \/ \E j \in earlier : askedFor[j].signature = askedFor[k].signature
       \/ Cardinality(earlier) >= limits.calls
       \/ SizeOf(earlier) + askedFor[k].size > limits.bytes
  /\ \A k \in DOMAIN trace : trace[k] \in Ends => k = Len(trace)
==============================================================================

------------------------------ MODULE TensorMux ------------------------------
(* generate_structured of services/agents/tensormux.py: one structured answer *)
(* of the model gateway, with retries, and one telemetry record of the call.  *)
(* Prompts, tokens, costs and the lengths of the pauses are left out; what a  *)
(* request comes back with is one of six kinds.                               *)
EXTENDS Naturals, Sequences

CONSTANTS ModelCalls, \* calls of generate_structured, each on a client of its own
          MaxRetries, \* settings.max_retries
          FlakySinks  \* the calls whose telemetry sink may raise

ASSUME TensorMuxAssumption == MaxRetries \in Nat

\* What a request may come back with:
\*   transport  no response, or a timeout          busy     one of _RETRYABLE_STATUS
\*   refused    any other status that is an error  invalid  not the structure asked for
\*   no_usage   raises what no except names (usage is null)     valid
Replies == {"transport", "busy", "refused", "invalid", "no_usage", "valid"}
Transient == {"transport", "busy"}

VARIABLES pc,      \* of each call
          attempt, \* the loop's counter
          asked,   \* what each of its requests came back with
          told     \* the telemetry its sink has recorded

muxVars == <<pc, attempt, asked, told>>

MuxInit ==
  /\ pc = [c \in ModelCalls |-> "posting"]
  /\ attempt = [c \in ModelCalls |-> 0]
  /\ asked = [c \in ModelCalls |-> <<>>]
  /\ told = [c \in ModelCalls |-> <<>>]

MuxTo(c, from, to) == pc[c] = from /\ pc' = [pc EXCEPT ![c] = to]

-----------------------------------------------------------------------------
(* One iteration of the loop.                                                 *)

\* Mutants: the status is not retried; an invalid answer is asked for again.
RetryableTransport == {"transport"}
RetryableInvalid == {"transport", "busy", "invalid"}

\* A TransportError, or a status in _RETRYABLE_STATUS.
Retryable == {"transport", "busy"}

\* Mutant: one attempt too many.
CanRetryLate(c) == attempt[c] < MaxRetries + 1

CanRetry(c) == attempt[c] + 1 < MaxRetries + 1

Post(c, answer, to) ==
  /\ MuxTo(c, "posting", to)
  /\ asked' = [asked EXCEPT ![c] = Append(@, answer)]
  /\ UNCHANGED <<attempt, told>>

Retry(c) == CanRetry(c) /\ \E answer \in Retryable : Post(c, answer, "pausing")

Fail(c) ==
  \E answer \in Replies \ {"valid", "no_usage"} :
    /\ answer \in Retryable => ~CanRetry(c)
    /\ Post(c, answer, "failing")

Accept(c) == Post(c, "valid", "telling")

\* A null usage makes _telemetry raise AttributeError, a body that cannot be
\* decompressed is a DecodingError: no except names them, they leave the method.
Escape(c) == Post(c, "no_usage", "crashed")

Pause(c) ==
  /\ MuxTo(c, "pausing", "posting")
  /\ attempt' = [attempt EXCEPT ![c] = @ + 1]
  /\ UNCHANGED <<asked, told>>

-----------------------------------------------------------------------------
(* _emit.                                                                     *)

\* Mutant: the number of requests instead of the number of retries.
RecordRequests(c, status) == [status |-> status, retries |-> attempt[c] + 1]

Record(c, status) == [status |-> status, retries |-> attempt[c]]

Emit(c, status) ==
  /\ told' = [told EXCEPT ![c] = Append(@, Record(c, status))]
  /\ UNCHANGED <<attempt, asked>>

\* Mutant: a success that is not recorded.
ReturnUntold(c) == MuxTo(c, "telling", "returned") /\ UNCHANGED <<attempt, asked, told>>

Return(c) == MuxTo(c, "telling", "returned") /\ Emit(c, "success")

RaiseError(c) == MuxTo(c, "failing", "raised") /\ Emit(c, "error")

MayRecord(c, status) == Emit(c, status) \/ UNCHANGED <<attempt, asked, told>>

\* A sink that raises, before or after it has recorded.  What the except clauses
\* of the loop name is taken for a failure of the request, which may be tried
\* again or ends the loop; everything else leaves the method.
SinkRaises(c) ==
  /\ c \in FlakySinks
  /\ \/ /\ \/ CanRetry(c) /\ MuxTo(c, "telling", "pausing")
           \/ MuxTo(c, "telling", "failing")
           \/ MuxTo(c, "telling", "crashed")
        /\ MayRecord(c, "success")
     \/ MuxTo(c, "failing", "crashed") /\ MayRecord(c, "error")

CallStep(c) ==
  \/ Retry(c) \/ Fail(c) \/ Accept(c) \/ Escape(c) \/ Pause(c)
  \/ Return(c) \/ RaiseError(c) \/ SinkRaises(c)

MuxNext == \E c \in ModelCalls : CallStep(c)

MuxSpec == MuxInit /\ [][MuxNext]_muxVars

-----------------------------------------------------------------------------
MuxPcs == {"posting", "pausing", "telling", "failing", "returned", "raised", "crashed"}
Ended == {"returned", "raised", "crashed"}

MuxTypeOK ==
  /\ pc \in [ModelCalls -> MuxPcs]
  /\ attempt \in [ModelCalls -> 0..MaxRetries]
  /\ asked \in [ModelCalls -> Seq(Replies)]
  /\ told \in [ModelCalls -> Seq([status: {"success", "error"}, retries: 0..MaxRetries])]

LastReply(c) == asked[c][Len(asked[c])]

\* The gateway is asked at most max_retries + 1 times for one answer, and once
\* more only if it has not given one: an answer is paid for once, good or bad.
\* (A sink that raises a transport error has a good answer asked for again.)
AskedOnce ==
  \A c \in ModelCalls :
    /\ Len(asked[c]) <= MaxRetries + 1
    /\ c \notin FlakySinks =>
         \A k \in DOMAIN asked[c] : k < Len(asked[c]) => asked[c][k] \in Transient

\* A call gives up only on an answer that will not get better, or after every
\* attempt it was allowed: fewer hiccups of the gateway go unnoticed.  (A sink
\* that raises may spoil a good answer.)
FailureJustified ==
  \A c \in ModelCalls \ FlakySinks : pc[c] \in {"failing", "raised"} =>
    LastReply(c) \in {"refused", "invalid"} \/ Len(asked[c]) = MaxRetries + 1

\* A call that ends with a result or a TensorMuxError leaves exactly one record,
\* and the record says which; a call still under way has left none.  A call that
\* ends in any other way is the matter of FailuresTold.
OneRecord ==
  \A c \in ModelCalls \ FlakySinks :
    /\ pc[c] = "returned" => Len(told[c]) = 1 /\ told[c][1].status = "success"
    /\ pc[c] = "raised" => Len(told[c]) = 1 /\ told[c][1].status = "error"
    /\ pc[c] \notin Ended => told[c] = <<>>

\* Whatever the sink does, what it has recorded is true: a success after n
\* retries is of a request whose n + 1st answer was valid, and an error is
\* recorded once, last, with the retries that were made.
RecordsTrue ==
  \A c \in ModelCalls : \A k \in DOMAIN told[c] :
    LET r == told[c][k] IN
    /\ r.retries < Len(asked[c])
    /\ r.status = "success" => asked[c][r.retries + 1] = "valid"
    /\ r.status = "error" => k = Len(told[c]) /\ r.retries + 1 = Len(asked[c])

\* docs/phase8-tensormux.md:34 says "Every success or terminal failure emits
\* `ModelCallTelemetry`": a call that has ended, however it ended, has a record.
\* False: a null usage ends the call by an exception that nothing records.
FailuresTold ==
  \A c \in ModelCalls \ FlakySinks : pc[c] \in Ended => told[c] # <<>>
==============================================================================

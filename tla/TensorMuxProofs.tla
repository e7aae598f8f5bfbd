--------------------------- MODULE TensorMuxProofs ---------------------------
(* Theorems of TensorMux, for any number of calls, any number of retries and  *)
(* any set of calls whose sink may raise.                                     *)
EXTENDS TensorMux, SequenceTheorems, TLAPS

\* What the loop knows: the counter is the number of requests before this one.
Counted ==
  \A c \in ModelCalls :
    /\ pc[c] = "posting" => Len(asked[c]) = attempt[c]
    /\ pc[c] # "posting" => Len(asked[c]) = attempt[c] + 1
    /\ pc[c] = "pausing" => attempt[c] < MaxRetries

\* A call whose sink is sound goes on only after transient answers.
OnlyTransient ==
  \A c \in ModelCalls \ FlakySinks :
    pc[c] \in {"posting", "pausing"} =>
      \A k \in DOMAIN asked[c] : asked[c][k] \in Transient

\* What is about to be recorded is so; after an error nothing is recorded.
RecordsFollow ==
  \A c \in ModelCalls :
    /\ pc[c] = "telling" => LastReply(c) = "valid"
    /\ pc[c] \notin {"raised", "crashed"} =>
         \A k \in DOMAIN told[c] : told[c][k].status = "success"

-----------------------------------------------------------------------------
(* Type correctness.                                                          *)

\* A call begins with no request, no retry and no record.
LEMMA InitTyped == MuxInit => MuxTypeOK
  BY TensorMuxAssumption DEF MuxInit, MuxTypeOK, MuxPcs

\* Appending an element keeps a function into the sequences over a set.
LEMMA AppendKeeps ==
  ASSUME NEW S, NEW f \in [ModelCalls -> Seq(S)], NEW c \in ModelCalls, NEW x \in S
  PROVE  [f EXCEPT ![c] = Append(@, x)] \in [ModelCalls -> Seq(S)]
<1>1. Append(f[c], x) \in Seq(S)
  OBVIOUS
<1> QED  BY <1>1

\* Every step keeps the counter in its range: the loop pauses only before an
\* attempt it may make.
LEMMA NextTyped == MuxTypeOK /\ Counted /\ [MuxNext]_muxVars => MuxTypeOK'
<1> SUFFICES ASSUME MuxTypeOK, Counted, [MuxNext]_muxVars
             PROVE  MuxTypeOK'
  OBVIOUS
<1> USE TensorMuxAssumption
<1>1. ASSUME NEW c \in ModelCalls, CallStep(c) PROVE MuxTypeOK'
  <2>1. pc' \in [ModelCalls -> MuxPcs]
    BY <1>1 DEF MuxTypeOK, CallStep, Retry, Fail, Accept, Escape, Pause, Return, RaiseError,
       SinkRaises, Post, MuxTo, MuxPcs
  <2>2. asked' \in [ModelCalls -> Seq(Replies)]
    <3>1. \/ \E answer \in Replies : asked' = [asked EXCEPT ![c] = Append(@, answer)]
          \/ asked' = asked
      BY <1>1 DEF CallStep, Retry, Fail, Accept, Escape, Pause, Return, RaiseError,
         SinkRaises, MayRecord, Emit, Post, Replies, Retryable
    <3>2. ASSUME NEW answer \in Replies, asked' = [asked EXCEPT ![c] = Append(@, answer)]
          PROVE  asked' \in [ModelCalls -> Seq(Replies)]
      BY <3>2, AppendKeeps DEF MuxTypeOK
    <3> QED  BY <3>1, <3>2 DEF MuxTypeOK
  <2>3. attempt' \in [ModelCalls -> 0..MaxRetries]
    <3>1. \/ attempt' = attempt
          \/ pc[c] = "pausing" /\ attempt' = [attempt EXCEPT ![c] = @ + 1]
      BY <1>1 DEF CallStep, Retry, Fail, Accept, Escape, Pause, Return, RaiseError,
         SinkRaises, MayRecord, Emit, Post, MuxTo
    <3>2. pc[c] = "pausing" => attempt[c] + 1 \in 0..MaxRetries
      BY DEF MuxTypeOK, Counted
    <3> QED  BY <3>1, <3>2 DEF MuxTypeOK
  <2>4. told' \in [ModelCalls -> Seq([status: {"success", "error"}, retries: 0..MaxRetries])]
    <3>1. \/ told' = told
          \/ \E s \in {"success", "error"} : Emit(c, s)
      BY <1>1 DEF CallStep, Retry, Fail, Accept, Escape, Pause, Return, RaiseError,
         SinkRaises, MayRecord, Post
    <3>2. \A s \in {"success", "error"} :
            Record(c, s) \in [status: {"success", "error"}, retries: 0..MaxRetries]
      BY DEF MuxTypeOK, Record
    <3>3. ASSUME NEW s \in {"success", "error"}, Emit(c, s)
          PROVE  told' \in [ModelCalls -> Seq([status: {"success", "error"},
                                         retries: 0..MaxRetries])]
      <4>1. told' = [told EXCEPT ![c] = Append(@, Record(c, s))]
        BY <3>3 DEF Emit
      <4> QED  BY <4>1, <3>2, AppendKeeps DEF MuxTypeOK
    <3> QED  BY <3>1, <3>3 DEF MuxTypeOK
  <2> QED  BY <2>1, <2>2, <2>3, <2>4 DEF MuxTypeOK
<1>2. CASE UNCHANGED muxVars
  BY <1>2 DEF MuxTypeOK, muxVars
<1> QED  BY <1>1, <1>2 DEF MuxNext

-----------------------------------------------------------------------------
(* One step, as what it does to its own call.                                 *)

\* A step of one call leaves the others alone.
LEMMA OthersKept ==
  ASSUME MuxTypeOK, NEW c \in ModelCalls, CallStep(c), NEW d \in ModelCalls, d # c
  PROVE  /\ pc'[d] = pc[d] /\ attempt'[d] = attempt[d]
         /\ asked'[d] = asked[d] /\ told'[d] = told[d]
  BY DEF MuxTypeOK, CallStep, Retry, Fail, Accept, Escape, Pause, Return, RaiseError,
     SinkRaises, MayRecord, Emit, Post, MuxTo

\* A request leaves the loop on its way to one of four places.
Requested(c) ==
  \E answer \in Replies :
    /\ pc[c] = "posting" /\ attempt'[c] = attempt[c] /\ told'[c] = told[c]
    /\ asked'[c] = Append(asked[c], answer)
    /\ \/ pc'[c] = "pausing" /\ answer \in Transient /\ CanRetry(c)
       \/ pc'[c] = "failing" /\ (answer \in {"refused", "invalid"} \/ ~CanRetry(c))
       \/ pc'[c] = "telling" /\ answer = "valid"
       \/ pc'[c] = "crashed"

Paused(c) ==
  /\ pc[c] = "pausing" /\ pc'[c] = "posting" /\ attempt'[c] = attempt[c] + 1
  /\ asked'[c] = asked[c] /\ told'[c] = told[c]

Told(c) ==
  /\ attempt'[c] = attempt[c] /\ asked'[c] = asked[c]
  /\ \/ /\ pc[c] = "telling"
        /\ \/ pc'[c] = "returned" /\ told'[c] = Append(told[c], Record(c, "success"))
           \/ /\ c \in FlakySinks
              /\ \/ pc'[c] \in {"failing", "crashed"}
                 \/ pc'[c] = "pausing" /\ CanRetry(c)
              /\ told'[c] \in {told[c], Append(told[c], Record(c, "success"))}
     \/ /\ pc[c] = "failing"
        /\ \/ pc'[c] = "raised" /\ told'[c] = Append(told[c], Record(c, "error"))
           \/ /\ c \in FlakySinks /\ pc'[c] = "crashed"
              /\ told'[c] \in {told[c], Append(told[c], Record(c, "error"))}

\* Those are all the steps of a call.
LEMMA StepCases ==
  ASSUME MuxTypeOK, NEW c \in ModelCalls, CallStep(c)
  PROVE  Requested(c) \/ Paused(c) \/ Told(c)
<1>1. CASE Retry(c) \/ Fail(c) \/ Accept(c) \/ Escape(c)
  <2> SUFFICES Requested(c)
    OBVIOUS
  <2> QED  BY <1>1 DEF MuxTypeOK, Retry, Fail, Accept, Escape, Post, MuxTo, Requested, Replies,
              Transient, Retryable
<1>2. CASE Pause(c)
  BY <1>2 DEF MuxTypeOK, Pause, MuxTo, Paused
<1>3. CASE Return(c) \/ RaiseError(c)
  BY <1>3 DEF MuxTypeOK, Return, RaiseError, Emit, MuxTo, Told
<1>4. CASE SinkRaises(c)
  BY <1>4 DEF MuxTypeOK, SinkRaises, MayRecord, Emit, MuxTo, Told
<1> QED  BY <1>1, <1>2, <1>3, <1>4 DEF CallStep

-----------------------------------------------------------------------------
(* The strengthening is inductive.                                            *)

Knows == MuxTypeOK /\ Counted /\ OnlyTransient /\ RecordsFollow

\* The strengthening holds of calls that have not begun.
LEMMA InitKnows == MuxInit => Knows
  BY InitTyped DEF MuxInit, Knows, Counted, OnlyTransient, RecordsFollow

\* The step of a call keeps its counter right: only a pause that an attempt follows adds one.
LEMMA CountedKept ==
  ASSUME MuxTypeOK, Counted, NEW c \in ModelCalls, Requested(c) \/ Paused(c) \/ Told(c)
  PROVE  /\ pc'[c] = "posting" => Len(asked'[c]) = attempt'[c]
         /\ pc'[c] # "posting" => Len(asked'[c]) = attempt'[c] + 1
         /\ pc'[c] = "pausing" => attempt'[c] < MaxRetries
<1>0. /\ attempt[c] \in Nat /\ asked[c] \in Seq(Replies)
      /\ \A answer \in Replies : Len(Append(asked[c], answer)) = Len(asked[c]) + 1
      /\ CanRetry(c) => attempt[c] < MaxRetries
  BY TensorMuxAssumption DEF MuxTypeOK, CanRetry
<1>1. CASE Requested(c)
  BY <1>0, <1>1 DEF Counted, Requested
<1>2. CASE Paused(c)
  BY <1>0, <1>2 DEF Counted, Paused
<1>3. CASE Told(c)
  BY <1>0, <1>3 DEF Counted, Told
<1> QED  BY <1>1, <1>2, <1>3

\* A call with a sound sink stays in the loop by transient answers only.
LEMMA TransientKept ==
  ASSUME MuxTypeOK, OnlyTransient, NEW c \in ModelCalls \ FlakySinks,
         Requested(c) \/ Paused(c) \/ Told(c), pc'[c] \in {"posting", "pausing"}
  PROVE  \A k \in DOMAIN asked'[c] : asked'[c][k] \in Transient
<1>0. asked[c] \in Seq(Replies)
  BY DEF MuxTypeOK
<1>1. CASE Requested(c)
  <2>1. PICK answer \in Transient :
          pc[c] = "posting" /\ asked'[c] = Append(asked[c], answer)
    BY <1>1 DEF Requested
  <2>2. \A k \in DOMAIN asked[c] : asked[c][k] \in Transient
    BY <2>1 DEF OnlyTransient
  <2>3. asked[c] \in Seq(Transient)
    BY <1>0, <2>2
  <2> QED  BY <2>1, <2>3
<1>2. CASE Paused(c)
  BY <1>2 DEF Paused, OnlyTransient
<1>3. CASE Told(c)
  BY <1>3 DEF Told
<1> QED  BY <1>1, <1>2, <1>3

\* Nothing but the answer just accepted is told as a success, and an error ends the call.
LEMMA RecordsKept ==
  ASSUME MuxTypeOK, RecordsFollow, NEW c \in ModelCalls, Requested(c) \/ Paused(c) \/ Told(c)
  PROVE  /\ pc'[c] = "telling" => asked'[c][Len(asked'[c])] = "valid"
         /\ pc'[c] \notin {"raised", "crashed"} =>
              \A k \in DOMAIN told'[c] : told'[c][k].status = "success"
<1>0. /\ asked[c] \in Seq(Replies)
      /\ told[c] \in Seq([status: {"success", "error"}, retries: 0..MaxRetries])
      /\ Record(c, "success") \in [status: {"success", "error"}, retries: 0..MaxRetries]
      /\ Record(c, "success").status = "success"
  BY DEF MuxTypeOK, Record
<1>1. CASE Requested(c)
  <2>1. PICK answer \in Replies :
          /\ pc[c] = "posting" /\ told'[c] = told[c]
          /\ asked'[c] = Append(asked[c], answer)
          /\ pc'[c] = "telling" => answer = "valid"
    BY <1>1 DEF Requested
  <2>2. asked'[c][Len(asked'[c])] = answer
    BY <1>0, <2>1
  <2> QED  BY <2>1, <2>2 DEF RecordsFollow
<1>2. CASE Paused(c)
  BY <1>2 DEF Paused, RecordsFollow
<1>3. CASE Told(c)
  <2>1. pc'[c] \notin {"raised", "crashed"} =>
          /\ pc[c] = "telling"
          /\ told'[c] = told[c] \/ told'[c] = Append(told[c], Record(c, "success"))
    BY <1>3 DEF Told
  <2>2. pc'[c] # "telling"
    BY <1>3 DEF Told
  <2>3. pc[c] = "telling" => \A k \in DOMAIN told[c] : told[c][k].status = "success"
    BY DEF RecordsFollow
  <2>4. pc[c] = "telling" =>
          \A k \in DOMAIN Append(told[c], Record(c, "success")) :
            Append(told[c], Record(c, "success"))[k].status = "success"
    BY <1>0, <2>3
  <2> QED  BY <2>1, <2>2, <2>3, <2>4
<1> QED  BY <1>1, <1>2, <1>3

\* Every step keeps the strengthening, by the step of the call that moved.
LEMMA NextKnows == Knows /\ [MuxNext]_muxVars => Knows'
<1> SUFFICES ASSUME Knows, [MuxNext]_muxVars
             PROVE  Knows'
  OBVIOUS
<1>1. MuxTypeOK /\ Counted /\ OnlyTransient /\ RecordsFollow
  BY DEF Knows
<1>2. ASSUME NEW c \in ModelCalls, CallStep(c) PROVE Knows'
  <2>1. Requested(c) \/ Paused(c) \/ Told(c)
    BY <1>1, <1>2, StepCases
  <2>2. \A d \in ModelCalls : d # c =>
          /\ pc'[d] = pc[d] /\ attempt'[d] = attempt[d]
          /\ asked'[d] = asked[d] /\ told'[d] = told[d]
    BY <1>1, <1>2, OthersKept
  <2>3. MuxTypeOK'
    BY <1>1, NextTyped
  <2>4. Counted'
    BY <1>1, <2>1, <2>2, CountedKept DEF Counted
  <2>5. OnlyTransient'
    BY <1>1, <2>1, <2>2, TransientKept DEF OnlyTransient
  <2>6. RecordsFollow'
    BY <1>1, <2>1, <2>2, RecordsKept DEF RecordsFollow, LastReply
  <2> QED  BY <2>3, <2>4, <2>5, <2>6 DEF Knows
<1>3. CASE UNCHANGED muxVars
  BY <1>1, <1>3 DEF Knows, MuxTypeOK, Counted, OnlyTransient, RecordsFollow, LastReply, muxVars
<1> QED  BY <1>2, <1>3 DEF MuxNext

\* Every call keeps its types, for any number of calls and retries.
THEOREM CallsTyped == MuxSpec => []MuxTypeOK
<1>1. Knows => MuxTypeOK
  BY DEF Knows
<1> QED  BY <1>1, InitKnows, NextKnows, PTL DEF MuxSpec

-----------------------------------------------------------------------------
(* The properties.                                                            *)

\* What a step does to the property of the call that moved is what it does to
\* the property: every request before the last was answered transiently.
LEMMA AskedKept ==
  ASSUME Knows, AskedOnce, NEW c \in ModelCalls, Requested(c) \/ Paused(c) \/ Told(c)
  PROVE  c \notin FlakySinks =>
           \A k \in DOMAIN asked'[c] : k < Len(asked'[c]) => asked'[c][k] \in Transient
<1>0. asked[c] \in Seq(Replies)
  BY DEF Knows, MuxTypeOK
<1>1. CASE Requested(c)
  <2>1. PICK answer \in Replies : asked'[c] = Append(asked[c], answer)
    BY <1>1 DEF Requested
  <2>2. c \notin FlakySinks => \A k \in DOMAIN asked[c] : asked[c][k] \in Transient
    BY <1>1 DEF Requested, Knows, OnlyTransient
  <2>3. \A k \in DOMAIN asked'[c] : k < Len(asked'[c]) =>
          k \in DOMAIN asked[c] /\ asked'[c][k] = asked[c][k]
    BY <1>0, <2>1
  <2> QED  BY <2>2, <2>3
<1>2. CASE Paused(c) \/ Told(c)
  <2>1. asked'[c] = asked[c]
    BY <1>2 DEF Paused, Told
  <2> QED  BY <2>1 DEF AskedOnce
<1> QED  BY <1>1, <1>2

\* A call that gives up has a final answer or no attempt left.
LEMMA FailureKept ==
  ASSUME Knows, FailureJustified, NEW c \in ModelCalls \ FlakySinks,
         Requested(c) \/ Paused(c) \/ Told(c), pc'[c] \in {"failing", "raised"}
  PROVE  \/ asked'[c][Len(asked'[c])] \in {"refused", "invalid"}
         \/ Len(asked'[c]) = MaxRetries + 1
<1>0. asked[c] \in Seq(Replies) /\ attempt[c] \in 0..MaxRetries
  BY DEF Knows, MuxTypeOK
<1>1. CASE Requested(c)
  <2>1. PICK answer \in Replies :
          /\ asked'[c] = Append(asked[c], answer)
          /\ answer \in {"refused", "invalid"} \/ ~CanRetry(c)
    BY <1>1 DEF Requested
  <2>2. asked'[c][Len(asked'[c])] = answer /\ Len(asked'[c]) = Len(asked[c]) + 1
    BY <1>0, <2>1
  <2>3. Len(asked[c]) = attempt[c]
    BY <1>1 DEF Requested, Knows, Counted
  <2>4. ~CanRetry(c) => attempt[c] = MaxRetries
    BY <1>0, TensorMuxAssumption DEF CanRetry
  <2> QED  BY <2>1, <2>2, <2>3, <2>4
<1>2. CASE Paused(c)
  BY <1>2 DEF Paused
<1>3. CASE Told(c)
  <2>1. pc[c] = "failing" /\ asked'[c] = asked[c]
    BY <1>3 DEF Told
  <2> QED  BY <2>1 DEF FailureJustified, LastReply
<1> QED  BY <1>1, <1>2, <1>3

\* The record is written in the step that ends the call.
LEMMA OneRecordKept ==
  ASSUME Knows, OneRecord, NEW c \in ModelCalls \ FlakySinks,
         Requested(c) \/ Paused(c) \/ Told(c)
  PROVE  /\ pc'[c] = "returned" => Len(told'[c]) = 1 /\ told'[c][1].status = "success"
         /\ pc'[c] = "raised" => Len(told'[c]) = 1 /\ told'[c][1].status = "error"
         /\ pc'[c] \notin Ended => told'[c] = <<>>
<1>1. CASE Requested(c)
  BY <1>1 DEF Requested, OneRecord, Ended
<1>2. CASE Paused(c)
  BY <1>2 DEF Paused, OneRecord, Ended
<1>3. CASE Told(c)
  <2>1. told[c] = <<>>
    BY <1>3 DEF Told, OneRecord, Ended
  <2>2. \/ pc'[c] = "returned" /\ told'[c] = <<Record(c, "success")>>
        \/ pc'[c] = "raised" /\ told'[c] = <<Record(c, "error")>>
    BY <1>3, <2>1 DEF Told
  <2>3. \A r : Len(<<r>>) = 1 /\ <<r>>[1] = r
    OBVIOUS
  <2>4. Record(c, "success").status = "success" /\ Record(c, "error").status = "error"
    BY DEF Record
  <2> QED  BY <2>2, <2>3, <2>4 DEF Ended
<1> QED  BY <1>1, <1>2, <1>3

\* A later request or record does not make an earlier record wrong.
LEMMA RecordsTrueKept ==
  ASSUME Knows, RecordsTrue, NEW c \in ModelCalls, Requested(c) \/ Paused(c) \/ Told(c)
  PROVE  \A k \in DOMAIN told'[c] :
           /\ told'[c][k].retries < Len(asked'[c])
           /\ told'[c][k].status = "success" =>
                asked'[c][told'[c][k].retries + 1] = "valid"
           /\ told'[c][k].status = "error" =>
                k = Len(told'[c]) /\ told'[c][k].retries + 1 = Len(asked'[c])
<1> DEFINE Records == [status: {"success", "error"}, retries: 0..MaxRetries]
<1>0. asked[c] \in Seq(Replies) /\ attempt[c] \in Nat /\ told[c] \in Seq(Records)
  <2>1. attempt[c] \in 0..MaxRetries
    BY DEF Knows, MuxTypeOK
  <2>2. asked[c] \in Seq(Replies)
    BY DEF Knows, MuxTypeOK
  <2>3. told \in [ModelCalls -> Seq(Records)]
    BY Zenon DEF Knows, MuxTypeOK
  <2>4. told[c] \in Seq(Records)
    <3> HIDE DEF Records
    <3> QED  BY <2>3
  <2> QED  BY <2>1, <2>2, <2>4
<1>1. CASE Requested(c)
  <2>1. PICK answer \in Replies :
          told'[c] = told[c] /\ asked'[c] = Append(asked[c], answer)
    BY <1>1 DEF Requested
  <2>2. \A k \in DOMAIN told[c] : told[c][k].status = "success"
    BY <1>1 DEF Requested, Knows, RecordsFollow
  <2>3. \A n \in 0..MaxRetries : n < Len(asked[c]) =>
          n < Len(asked'[c]) /\ asked'[c][n + 1] = asked[c][n + 1]
    BY <1>0, <2>1
  <2>4. \A k \in DOMAIN told[c] : told[c][k].retries \in 0..MaxRetries
    <3>1. \A k \in DOMAIN told[c] : told[c][k] \in Records
      <4> HIDE DEF Records
      <4> QED  BY <1>0, ElementOfSeq
    <3> QED  BY <3>1
  <2> QED  BY <2>1, <2>2, <2>3, <2>4 DEF RecordsTrue
<1>2. CASE Paused(c)
  BY <1>2 DEF Paused, RecordsTrue
<1>3. CASE Told(c)
  <2>1. /\ asked'[c] = asked[c] /\ Len(asked[c]) = attempt[c] + 1
        /\ \A k \in DOMAIN told[c] : told[c][k].status = "success"
    BY <1>3 DEF Told, Knows, Counted, RecordsFollow
  <2>2. pc[c] = "telling" => asked[c][attempt[c] + 1] = "valid"
    BY <2>1 DEF Knows, RecordsFollow, LastReply
  <2>3. PICK s \in {"success", "error"} :
          /\ told'[c] \in {told[c], Append(told[c], Record(c, s))}
          /\ s = "success" => pc[c] = "telling"
    BY <1>3 DEF Told
  <2>4. CASE told'[c] = told[c]
    BY <2>1, <2>4 DEF RecordsTrue
  <2>5. CASE told'[c] = Append(told[c], Record(c, s))
    <3>1. /\ Len(told'[c]) = Len(told[c]) + 1 /\ told'[c][Len(told'[c])] = Record(c, s)
          /\ \A k \in DOMAIN told'[c] : k # Len(told'[c]) =>
               k \in DOMAIN told[c] /\ told'[c][k] = told[c][k]
      BY <1>0, <2>5
    <3>2. Record(c, s).status = s /\ Record(c, s).retries = attempt[c]
      BY DEF Record
    <3>3. /\ attempt[c] < Len(asked[c])
          /\ s = "success" => asked[c][attempt[c] + 1] = "valid"
      BY <1>0, <2>1, <2>2, <2>3
    <3> QED  BY <2>1, <3>1, <3>2, <3>3 DEF RecordsTrue
  <2> QED  BY <2>3, <2>4, <2>5
<1> QED  BY <1>1, <1>2, <1>3

Promises == AskedOnce /\ FailureJustified /\ OneRecord /\ RecordsTrue

\* The four properties hold of calls that have not begun.
LEMMA InitPromises == MuxInit => Promises
  BY TensorMuxAssumption DEF MuxInit, Promises, AskedOnce, FailureJustified, OneRecord,
     RecordsTrue

\* Every step keeps the four properties, given the strengthening.
LEMMA NextPromises == Knows /\ Promises /\ [MuxNext]_muxVars => Promises'
<1> SUFFICES ASSUME Knows, Promises, [MuxNext]_muxVars
             PROVE  Promises'
  OBVIOUS
<1>1. AskedOnce /\ FailureJustified /\ OneRecord /\ RecordsTrue
  BY DEF Promises
<1>2. ASSUME NEW c \in ModelCalls, CallStep(c) PROVE Promises'
  <2>1. Requested(c) \/ Paused(c) \/ Told(c)
    BY <1>2, StepCases DEF Knows
  <2>2. \A d \in ModelCalls : d # c =>
          /\ pc'[d] = pc[d] /\ asked'[d] = asked[d] /\ told'[d] = told[d]
    BY <1>2, OthersKept DEF Knows
  <2>3. AskedOnce'
    <3>1. \A d \in ModelCalls : Len(asked'[d]) <= MaxRetries + 1
      <4>1. Knows'
        BY NextKnows
      <4>2. \A d \in ModelCalls :
              /\ attempt'[d] \in 0..MaxRetries
              /\ Len(asked'[d]) = attempt'[d] \/ Len(asked'[d]) = attempt'[d] + 1
        <5>1. \A d \in ModelCalls : attempt'[d] \in 0..MaxRetries
          BY <4>1 DEF Knows, MuxTypeOK
        <5>2. \A d \in ModelCalls : Len(asked'[d]) = attempt'[d] \/ Len(asked'[d]) = attempt'[d] + 1
          BY <4>1 DEF Knows, Counted
        <5> QED  BY <5>1, <5>2
      <4> QED  BY <4>2, TensorMuxAssumption
    <3>2. \A d \in ModelCalls \ FlakySinks : \A k \in DOMAIN asked'[d] :
            k < Len(asked'[d]) => asked'[d][k] \in Transient
      BY <1>1, <2>1, <2>2, AskedKept DEF AskedOnce
    <3> QED  BY <3>1, <3>2 DEF AskedOnce
  <2>4. FailureJustified'
    BY <1>1, <2>1, <2>2, FailureKept DEF FailureJustified, LastReply
  <2>5. OneRecord'
    BY <1>1, <2>1, <2>2, OneRecordKept DEF OneRecord, Ended
  <2>6. RecordsTrue'
    BY <1>1, <2>1, <2>2, RecordsTrueKept DEF RecordsTrue, LastReply
  <2> QED  BY <2>3, <2>4, <2>5, <2>6 DEF Promises
<1>3. CASE UNCHANGED muxVars
  BY <1>1, <1>3 DEF Promises, AskedOnce, FailureJustified, OneRecord, RecordsTrue, LastReply,
     Ended, muxVars
<1> QED  BY <1>2, <1>3 DEF MuxNext

\* So the strengthening and the properties hold of every state.
LEMMA Kept == MuxSpec => [](Knows /\ Promises)
  BY InitKnows, NextKnows, InitPromises, NextPromises, PTL DEF MuxSpec

\* A call makes at most max_retries + 1 requests, and another one only after an
\* answer that did not arrive or asked for patience.
THEOREM BoundedRequests == MuxSpec => []AskedOnce
<1>1. Promises => AskedOnce
  BY DEF Promises
<1> QED  BY <1>1, Kept, PTL

\* A call gives up only on a final answer or after its last attempt.
THEOREM GivesUpLate == MuxSpec => []FailureJustified
<1>1. Promises => FailureJustified
  BY DEF Promises
<1> QED  BY <1>1, Kept, PTL

\* A call that returned or raised its TensorMuxError has one record, of that
\* outcome; one under way has none.  Calls that end otherwise are left out.
THEOREM RecordedOnce == MuxSpec => []OneRecord
<1>1. Promises => OneRecord
  BY DEF Promises
<1> QED  BY <1>1, Kept, PTL

\* What was recorded is what happened, even through a sink that raises.
THEOREM RecordedTruly == MuxSpec => []RecordsTrue
<1>1. Promises => RecordsTrue
  BY DEF Promises
<1> QED  BY <1>1, Kept, PTL
==============================================================================

-------------------------- MODULE DocumentLifecycle --------------------------
(* What the document endpoints promise a user about one import: the status    *)
(* column of ingestion_documents moves only along these edges.  A document is *)
(* received, ingested, parsed or failed; a failed or waiting one may be run   *)
(* again; a parsed one may be confirmed, and a confirmed one is final.        *)
CONSTANT Docs
VARIABLE status

Move(d, from, to) ==
  /\ status[d] \in from
  /\ \E s \in to : status' = [status EXCEPT ![d] = s]

Receive(d) == Move(d, {"ABSENT"}, {"UPLOADED"})
Start(d)   == Move(d, {"UPLOADED"}, {"INGESTING"})
Finish(d)  == Move(d, {"INGESTING"}, {"PARSED", "FAILED"})
GiveUp(d)  == Move(d, {"UPLOADED", "INGESTING"}, {"FAILED"})
Rerun(d)   == Move(d, {"INGESTING", "FAILED"}, {"UPLOADED"})
Accept(d)  == Move(d, {"PARSED"}, {"CONFIRMED"})

Init == status = [d \in Docs |-> "ABSENT"]
Next == \E d \in Docs : \/ Receive(d) \/ Start(d) \/ Finish(d)
                        \/ GiveUp(d) \/ Rerun(d) \/ Accept(d)
Spec == Init /\ [][Next]_status
==============================================================================

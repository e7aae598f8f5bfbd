----------------------------- MODULE MCIngestion -----------------------------
(* Small instances of Ingestion for TLC.                                      *)
EXTENDS Ingestion, TLC

SameContent == [d \in Docs |-> "same bytes"]
OwnContent == [d \in Docs |-> d]
OneLoop == [d \in Docs |-> "api"]
LoopEach == [d \in Docs |-> d]

AnyParse == [d \in Docs |-> ParseOutcomes]
CleanParse == [d \in Docs |-> {"clean"}]
Parses == [d \in Docs |-> {"clean", "errors"}]

BeforeResult == {"get", "reading", "started", "load", "parsing", "extracting", "result"}
EveryCall == TryPcs \ Computing

\* The audit trail is only ever appended to: nothing reads it.
ButTheTrail == <<objects, docs, jobs, apiVars, workerVars>>

WorkerSymmetry == Permutations(Workers)
==============================================================================

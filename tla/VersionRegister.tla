---------------------------- MODULE VersionRegister ----------------------------
(***************************************************************************)
(* What the ingestion subsystem promises a reader of a document: its       *)
(* active_document_version_id is a register that only ever moves forward,  *)
(* to a version nobody has been served before, or to nothing when the      *)
(* document is deleted.  A version that was replaced or withdrawn never    *)
(* comes back, whatever jobs fail, are retried or are delivered twice.     *)
(***************************************************************************)
CONSTANTS Docs, Vers, None

VARIABLES
  cur,        \* document -> the version served for it, or None
  published   \* versions that have ever been served

regVars == <<cur, published>>

RegInit ==
  /\ cur = [d \in Docs |-> None]
  /\ published = {}

\* A finished run serves a version for the first time.
Publish(d, v) ==
  /\ v \notin published
  /\ published' = published \cup {v}
  /\ cur' = [cur EXCEPT ![d] = v]

\* A delete clean-up withdraws whatever is served.
Retire(d) ==
  /\ cur' = [cur EXCEPT ![d] = None]
  /\ UNCHANGED published

RegNext == \E d \in Docs : Retire(d) \/ \E v \in Vers : Publish(d, v)

RegSpec == RegInit /\ [][RegNext]_regVars
=============================================================================

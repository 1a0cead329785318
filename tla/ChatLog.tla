-------------------------------- MODULE ChatLog --------------------------------
(***************************************************************************)
(* What a chat session promises its reader: a log of turns in which an     *)
(* answer never stands without its question, nothing that was written      *)
(* changes or disappears, and a deleted session is empty for ever.         *)
(***************************************************************************)
CONSTANTS Turns, Sessions, None

VARIABLES
  log,      \* turn -> nothing, its question, or its question and answer
  home,     \* turn -> the session it was written to
  closed    \* deleted sessions

logVars == <<log, home, closed>>

LogInit ==
  /\ log = [t \in Turns |-> "none"]
  /\ home = [t \in Turns |-> None]
  /\ closed = {}

\* The question alone, the answer to a question that is there, or both at once.
Write(t, s, to) ==
  /\ s \notin closed
  /\ \/ log[t] = "none" /\ to \in {"asked", "answered"}
     \/ log[t] = "asked" /\ home[t] = s /\ to = "answered"
  /\ log' = [log EXCEPT ![t] = to]
  /\ home' = [home EXCEPT ![t] = s]
  /\ UNCHANGED closed

Close(s) ==
  /\ closed' = closed \cup {s}
  /\ log' = [t \in Turns |-> IF home[t] = s THEN "none" ELSE log[t]]
  /\ home' = [t \in Turns |-> IF home[t] = s THEN None ELSE home[t]]

LogNext ==
  \/ \E t \in Turns, s \in Sessions, to \in {"asked", "answered"} : Write(t, s, to)
  \/ \E s \in Sessions : Close(s)

LogSpec == LogInit /\ [][LogNext]_logVars
=============================================================================

------------------------------- MODULE ChatTurn -------------------------------
(***************************************************************************)
(* Turns of chat sessions: POST /chat and POST /chat/stream, deletion of a *)
(* session, clients that disconnect and an API process that dies.          *)
(*                                                                         *)
(* A turn runs in one database session.  The ORM does not flush by itself  *)
(* (autoflush=False), so the rows a turn adds reach the database when it   *)
(* flushes or commits; until then they are "pending" here.  created_at is  *)
(* PostgreSQL's now(): the start of the transaction that inserts the row.  *)
(* An answer is abstracted to how many deltas of it were shown.            *)
(***************************************************************************)
EXTENDS Naturals, FiniteSets, Sequences

CONSTANTS
  Turns,         \* turn ids: the request and the message_id of its answer
  Sessions,      \* session ids
  None,
  ExitOrders,    \* is the dependency left before or after the response is sent?
  ProviderEnds,  \* how the provider's stream ends: "stop", "cut" (the body ends without
                 \* an end marker), "error" (an LLMError) or "raise" (another exception)
  Window,        \* how many messages of history a turn reads
  MaxDeltas      \* bound: deltas of one answer

ASSUME ConstantsAssumption ==
  /\ None \notin Turns \cup Sessions
  /\ ExitOrders \subseteq {"before_response", "after_response"}
  /\ ProviderEnds \subseteq {"stop", "cut", "error", "raise"}
  /\ Window \in Nat /\ MaxDeltas \in Nat

VARIABLES
  live,    \* rows of sessions
  msgs,    \* committed rows of messages
  clock,   \* transactions started
  turn     \* the turns

vars == <<live, msgs, clock, turn>>

-----------------------------------------------------------------------------
(* Types *)

Roles == {"user", "assistant"}
MessageStatus == {"complete", "interrupted"}
\* second: of two rows with one created_at, this one has the larger random id.
Message ==
  [turn : Turns, role : Roles, session : Sessions, status : MessageStatus,
   created : Nat, second : BOOLEAN, deltas : Nat]

TurnPcs ==
  {"new", "preparing", "generating", "flushed", "replying", "closing", "opening",
   "streaming", "failing", "breaking", "storing", "reporting", "leaving", "ended"}

\* told: the terminal event or response the client got.  pending: rows added and not
\* inserted.  last: how the provider ended the answer.
Turn ==
  [pc : TurnPcs, session : Sessions \cup {None}, mode : {"once", "stream", None},
   order : {"before_response", "after_response", None}, started : Nat,
   answerFirst : BOOLEAN, pending : SUBSET Roles, deltas : Nat,
   last : {None, "stop", "cut", "error", "raise"}, connected : BOOLEAN,
   told : {"nothing", "done", "error"}]

TypeOK ==
  /\ live \subseteq Sessions
  /\ msgs \subseteq Message
  /\ clock \in Nat
  /\ turn \in [Turns -> Turn]

NewTurn ==
  [pc |-> "new", session |-> None, mode |-> None, order |-> None, started |-> 0,
   answerFirst |-> FALSE, pending |-> {}, deltas |-> 0, last |-> None,
   connected |-> TRUE, told |-> "nothing"]

Init ==
  /\ live = Sessions
  /\ msgs = {}
  /\ clock = 0
  /\ turn = [t \in Turns |-> NewTurn]

-----------------------------------------------------------------------------
(* Rows *)

Row(t, role, created) ==
  [turn |-> t, role |-> role, session |-> turn[t].session, status |-> "complete",
   created |-> created,
   second |-> (role = "assistant") # turn[t].answerFirst,
   deltas |-> IF role = "assistant" THEN turn[t].deltas ELSE 0]

\* Mutant: a rollback between the question and the answer has dropped the question.
AnswerOnly(t) == turn[t].pending \ {"user"}
\* The rows a commit inserts.
Inserted(t) == turn[t].pending

\* The foreign key of messages: the insert fails once the session is deleted.
Insertable(t) == turn[t].session \in live

\* Mutant: the rows carry the time of the request.
RequestTime(t) == turn[t].started
\* The transaction of the rows: the turn's own, or a new one if that was committed.
CreatedAt(t) ==
  IF turn[t].mode = "stream" /\ turn[t].order = "before_response" /\ turn[t].pc # "opening"
  THEN clock ELSE turn[t].started

Commit(t) ==
  /\ msgs' = msgs \cup {Row(t, role, CreatedAt(t)) : role \in Inserted(t)}
  /\ clock' = IF CreatedAt(t) = clock THEN clock + 1 ELSE clock
  /\ UNCHANGED live

NoRows == UNCHANGED <<live, msgs, clock>>

\* order_by(created_at, id): history reads the newest rows of it, list_messages all.
Before(m, n) == m.created < n.created \/ (m.created = n.created /\ ~m.second /\ n.second)
InOrder(s) ==
  LET rows == {m \in msgs : m.session = s}
  IN  [i \in 1..Cardinality(rows) |->
        CHOOSE m \in rows : Cardinality({n \in rows : Before(n, m)}) = i - 1]
History(s) == LET all == InOrder(s)
              IN  SubSeq(all, IF Len(all) > Window THEN Len(all) - Window + 1 ELSE 1, Len(all))

Move(t, pc) == turn' = [turn EXCEPT ![t].pc = pc]
End(t, told) == turn' = [turn EXCEPT ![t] = [@ EXCEPT !.pc = "ended", !.told = told,
                                                     !.pending = {}]]

-----------------------------------------------------------------------------
(* _prepare: the session and the history are read, the question is added, the *)
(* evidence is gathered                                                       *)

Open(t) ==
  /\ turn[t].pc = "new"
  /\ \E s \in live, mode \in {"once", "stream"}, order \in ExitOrders, first \in BOOLEAN :
       turn' = [turn EXCEPT ![t] = [@ EXCEPT !.pc = "preparing", !.session = s, !.mode = mode,
                                             !.order = order, !.started = clock,
                                             !.answerFirst = first, !.pending = {"user"}]]
  /\ clock' = clock + 1
  /\ UNCHANGED <<live, msgs>>

\* The search raises: no index, or no embedding.  get_session rolls back.
PrepareFails(t) ==
  /\ turn[t].pc = "preparing"
  /\ End(t, "error")
  /\ NoRows

\* The response object of a stream is made before anything is streamed; the
\* dependency is left now or at the end.
Prepared(t) ==
  /\ turn[t].pc = "preparing"
  /\ Move(t, IF turn[t].mode = "once" THEN "generating"
             ELSE IF turn[t].order = "before_response" THEN "opening"
             ELSE "streaming")
  /\ NoRows

-----------------------------------------------------------------------------
(* POST /chat *)

\* generate() answers, the answer is added, and flush() inserts both rows.
Generate(t) ==
  /\ turn[t].pc = "generating"
  /\ Insertable(t)
  /\ turn' = [turn EXCEPT ![t] = [@ EXCEPT !.pc = "flushed", !.pending = Roles, !.last = "stop"]]
  /\ NoRows

\* An LLMError or any other exception, or a flush for a session that was deleted: an error
\* response and a rollback.
GenerateFails(t) ==
  /\ turn[t].pc = "generating"
  /\ End(t, "error")
  /\ NoRows

\* get_session commits, before the response is sent or after it.
CommitTurn(t) ==
  /\ \/ /\ turn[t].pc = "flushed" /\ turn[t].order = "before_response"
        /\ Move(t, "replying")
     \/ turn[t].pc = "closing" /\ Move(t, "ended")
  /\ Commit(t)

Reply(t) ==
  /\ \/ /\ turn[t].pc = "replying"
        /\ End(t, "done")
     \/ /\ turn[t].pc = "flushed" /\ turn[t].order = "after_response"
        /\ turn' = [turn EXCEPT ![t] = [@ EXCEPT !.pc = "closing", !.told = "done"]]
  /\ NoRows

-----------------------------------------------------------------------------
(* POST /chat/stream *)

\* get_session commits the question before the stream starts.
CommitQuestion(t) ==
  /\ turn[t].pc = "opening" /\ Insertable(t)
  /\ turn' = [turn EXCEPT ![t] = [@ EXCEPT !.pc = "streaming", !.pending = {}]]
  /\ Commit(t)

QuestionRefused(t) ==
  /\ turn[t].pc = "opening" /\ ~Insertable(t)
  /\ End(t, "error")
  /\ NoRows

Delta(t) ==
  /\ turn[t].pc = "streaming" /\ turn[t].deltas < MaxDeltas
  /\ turn' = [turn EXCEPT ![t].deltas = @ + 1]
  /\ NoRows

\* Mutant: the provider's exception ends the loop like the end of the stream.
EndsLoop(kind) == "storing"
\* stream() makes an LLMError of an HTTP error, but not of every exception: a chunk with
\* "usage": null raises AttributeError.  A body that just ends, ends the loop.
AfterStream(kind) ==
  CASE kind \in {"stop", "cut"} -> "storing"
    [] kind = "error" -> "failing"
    [] kind = "raise" -> "breaking"

StreamEnds(t) ==
  /\ turn[t].pc = "streaming"
  /\ \E kind \in ProviderEnds :
       turn' = [turn EXCEPT ![t] =
                 [@ EXCEPT !.pc = AfterStream(kind), !.last = kind,
                           !.pending = turn[t].pending
                             \cup IF AfterStream(kind) = "storing" THEN {"assistant"} ELSE {}]]
  /\ NoRows

\* Mutants: an event the protocol does not have; the error is logged and nothing is sent.
UnknownEvent == "failed"
Silent == "nothing"
ErrorVerdict == "error"

\* except LLMError: what is pending is rolled back, then the error event is sent.
StreamFails(t) ==
  /\ turn[t].pc = "failing"
  /\ End(t, ErrorVerdict)
  /\ NoRows

\* Any other exception leaves the generator: the stream breaks off without an event, and
\* what is pending is rolled back.
StreamBreaks(t) ==
  /\ turn[t].pc = "breaking"
  /\ End(t, "nothing")
  /\ NoRows

\* db.commit() before the done event.
Store(t) ==
  /\ turn[t].pc = "storing" /\ Insertable(t)
  /\ turn' = [turn EXCEPT ![t] = [@ EXCEPT !.pc = "reporting", !.pending = {}]]
  /\ Commit(t)

\* The session is gone: the commit raises, no handler is left, the stream breaks off.
StoreRefused(t) ==
  /\ turn[t].pc = "storing" /\ ~Insertable(t)
  /\ End(t, "nothing")
  /\ NoRows

\* Mutant: done is sent before the commit.
EarlyReport == {"storing", "reporting"}
Reportable == {"reporting"}

Report(t) ==
  /\ turn[t].pc \in Reportable
  /\ End(t, "done")
  /\ NoRows

-----------------------------------------------------------------------------
(* Clients and the process *)

\* The client disconnects and the generator is cancelled: at its await of the
\* provider, in the commit (which then took place or not), or before the last event.
Disconnect(t) ==
  LET gone == [turn[t] EXCEPT !.connected = FALSE]
  IN  \/ /\ turn[t].pc = "streaming"
         /\ turn' = [turn EXCEPT ![t] = [gone EXCEPT !.pc = "leaving"]]
         /\ NoRows
      \/ /\ turn[t].pc \in {"storing", "reporting"}
         /\ turn' = [turn EXCEPT ![t] = [gone EXCEPT !.pc = "ended", !.pending = {}]]
         /\ \/ NoRows
            \/ turn[t].pc = "storing" /\ Insertable(t) /\ Commit(t)

\* A cancelled stream leaves the dependency: whether that commits the question that
\* is still pending or rolls it back depends on the server.
Leave(t) ==
  /\ turn[t].pc = "leaving"
  /\ End(t, "nothing")
  /\ \/ NoRows
     \/ Insertable(t) /\ Inserted(t) # {} /\ Commit(t)

\* The API process dies: every open transaction rolls back, every client is cut off.
Running(t) == turn[t].pc \notin {"new", "ended"}
Crash ==
  /\ \E t \in Turns : Running(t)
  /\ turn' = [t \in Turns |->
               IF Running(t)
               THEN [turn[t] EXCEPT !.pc = "ended", !.pending = {}, !.connected = FALSE]
               ELSE turn[t]]
  /\ NoRows

\* ON DELETE CASCADE.
Cascaded(s) == {m \in msgs : m.session # s}

\* delete_session waits for a transaction that has inserted messages of the session.
DeleteSession(s) ==
  /\ s \in live
  /\ \A t \in Turns : turn[t].session = s => turn[t].pc \notin {"flushed", "closing"}
  /\ live' = live \ {s}
  /\ msgs' = Cascaded(s)
  /\ UNCHANGED <<clock, turn>>

-----------------------------------------------------------------------------
TurnStep(t) ==
  \/ Open(t) \/ PrepareFails(t) \/ Prepared(t)
  \/ Generate(t) \/ GenerateFails(t) \/ CommitTurn(t) \/ Reply(t)
  \/ CommitQuestion(t) \/ QuestionRefused(t) \/ Delta(t) \/ StreamEnds(t) \/ StreamFails(t)
  \/ StreamBreaks(t) \/ Store(t) \/ StoreRefused(t) \/ Report(t) \/ Disconnect(t) \/ Leave(t)

Next ==
  \/ \E t \in Turns : TurnStep(t)
  \/ Crash
  \/ \E s \in Sessions : DeleteSession(s)

Spec == Init /\ [][Next]_vars

-----------------------------------------------------------------------------
(* Properties *)

HasRow(t, role) == \E m \in msgs : m.turn = t /\ m.role = role

\* A client that was told done finds the answer it saw in the session, complete, as
\* long as the session exists; a client that was told error finds none.  (POST /chat
\* with a dependency that is left after the response answers before it commits.)
VerdictMatchesStore ==
  \A t \in Turns :
    /\ /\ turn[t].told = "done" /\ turn[t].session \in live
       /\ turn[t].mode = "stream" \/ turn[t].order = "before_response"
       => \E m \in msgs : /\ m.turn = t /\ m.role = "assistant"
                          /\ m.status = "complete" /\ m.deltas = turn[t].deltas
    /\ turn[t].told = "error" => ~HasRow(t, "assistant")

\* An answer stored as complete is one whose generation the provider finished.
CompleteIsWhole ==
  \A m \in msgs : m.role = "assistant" /\ m.status = "complete" => turn[m.turn].last = "stop"

\* A stream whose client stayed to the end, and whose session and server did, tells how the
\* provider ended: done after the end of its answer, error after an LLMError or when nothing
\* was streamed.  It breaks off with neither, against docs/spec.md:673, only after another
\* exception of the provider, and then no answer is stored.
StreamEndsWithVerdict ==
  \A t \in Turns :
    turn[t].pc = "ended" /\ turn[t].mode = "stream" /\ turn[t].connected
    /\ turn[t].session \in live =>
         \/ turn[t].told = "done" /\ turn[t].last \in {"stop", "cut"}
         \/ turn[t].told = "error" /\ turn[t].last \in {None, "error"}
         \/ turn[t].told = "nothing" /\ turn[t].last = "raise" /\ ~HasRow(t, "assistant")

\* What a turn reads as history has every question before its answer, when the two were
\* committed apart.  (Committed together they have one created_at, and their random ids
\* decide: POST /chat, and a stream whose dependency is left after the response.)
QuestionBeforeAnswer ==
  \A s \in Sessions : LET h == History(s) IN
    \A i, j \in 1..Len(h) :
      /\ h[i].turn = h[j].turn /\ h[i].role = "user" /\ h[j].role = "assistant"
      /\ turn[h[i].turn].mode = "stream" /\ turn[h[i].turn].order = "before_response"
      => i < j

\* A session is the log ChatLog describes: rows are only added, an answer together
\* with or after its question, and only a deletion of the session removes any.
Log == INSTANCE ChatLog
         WITH log <- [t \in Turns |->
                       IF HasRow(t, "user")
                       THEN IF HasRow(t, "assistant") THEN "answered" ELSE "asked"
                       ELSE IF HasRow(t, "assistant") THEN "answer alone" ELSE "none"],
              home <- [t \in Turns |-> IF HasRow(t, "user") \/ HasRow(t, "assistant")
                                       THEN turn[t].session ELSE None],
              closed <- Sessions \ live
RefinesChatLog == Log!LogSpec
=============================================================================

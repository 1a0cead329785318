---------------------------- MODULE ChatTurnProofs ----------------------------
(***************************************************************************)
(* Proofs about ChatTurn for any sets of turns and sessions, any order of  *)
(* the dependency's exit and any bounds.                                   *)
(*                                                                         *)
(* The inductive invariant IInv says what a turn that is at some point of  *)
(* its handler has in the database and what it still has to insert: its    *)
(* question is pending or stored, its answer is stored only after the      *)
(* commit, and the rows of a turn stand and fall with its session.  TInv   *)
(* adds that rows of one created_at are of one turn, so that the order in  *)
(* which a history is read is total.                                       *)
(***************************************************************************)
EXTENDS ChatTurn, DataInduction

Asked(t) == HasRow(t, "user")
Answered(t) == HasRow(t, "assistant")
\* The stored answer is the one the client was shown.
AnswerStored(t) ==
  \E m \in msgs : /\ m.turn = t /\ m.role = "assistant"
                  /\ m.status = "complete" /\ m.deltas = turn[t].deltas

\* Where a turn of POST /chat and one of POST /chat/stream can be.
OncePcs == {"generating", "flushed", "replying", "closing"}
StreamPcs == {"opening", "streaming", "failing", "breaking", "storing", "reporting",
              "leaving"}

\* The rows a turn still has to insert, by where it is.
QuestionPending(q) == IF q.order = "before_response" THEN {} ELSE {"user"}
PendingAt(q) ==
  /\ q.pc \in {"new", "reporting"} => q.pending = {}
  /\ q.pc \in {"preparing", "generating", "opening"} => q.pending = {"user"}
  /\ q.pc \in {"flushed", "closing"} => q.pending = Roles
  /\ q.pc \in {"streaming", "failing", "breaking", "leaving"} => q.pending = QuestionPending(q)
  /\ q.pc = "storing" => q.pending = QuestionPending(q) \cup {"assistant"}

\* How the provider ended the answer, by where the turn is and what its client was told.
LastAt(q) ==
  /\ q.pc \in {"new", "preparing", "generating", "opening", "streaming"} => q.last = None
  /\ q.pc = "failing" => q.last = "error"
  /\ q.pc = "breaking" => q.last = "raise"
  /\ q.pc \in {"storing", "reporting"} => q.last \in {"stop", "cut"}
  /\ q.pc = "ended" /\ q.mode = "stream" =>
       /\ q.told = "done" => q.last \in {"stop", "cut"}
       /\ q.told = "error" => q.last \in {None, "error"}

\* What the record of a turn alone keeps.
RecordOK(q) ==
  /\ q.pc # "new" => /\ q.session \in Sessions /\ q.mode \in {"once", "stream"}
                     /\ q.order \in {"before_response", "after_response"}
  /\ q.pc \in OncePcs => q.mode = "once"
  /\ q.pc \in StreamPcs => q.mode = "stream"
  /\ q.pc \in {"opening", "replying"} => q.order = "before_response"
  /\ q.pc = "closing" => q.order = "after_response"
  /\ q.pc = "leaving" => ~q.connected
  /\ q.told = "done" => q.pc \in {"closing", "ended"}
  /\ q.told = "error" => q.pc = "ended"
  /\ "assistant" \in q.pending /\ "cut" \notin ProviderEnds => q.last = "stop"
  /\ PendingAt(q) /\ LastAt(q)

\* A turn that is past its commit has its answer, as long as its session exists.
MustBeStored(q) ==
  \/ q.pc \in {"replying", "reporting"}
  \/ q.told = "done" /\ q.pc = "ended" /\ (q.mode = "stream" \/ q.order = "before_response")
\* A turn has no answer before that, nor once the client was told of an error.
MustNotBeStored(q) ==
  \/ q.pc \in {"new", "preparing", "generating", "flushed", "closing", "opening", "streaming",
               "failing", "breaking", "storing", "leaving"}
  \/ q.told = "error"

TurnOK(t) ==
  LET q == turn[t] IN
  /\ RecordOK(q)
  /\ q.pc # "new" => q.started < clock
  /\ q.pc \in {"flushed", "closing"} => q.session \in live
  /\ q.pc = "new" => ~Asked(t)
  /\ "user" \in q.pending /\ q.pc \notin {"replying", "ended"} => ~Asked(t)
  /\ q.pc \in {"streaming", "failing", "breaking", "storing"} /\ q.session \in live
       => "user" \in q.pending \/ Asked(t)
  /\ MustNotBeStored(q) => ~Answered(t)
  /\ MustBeStored(q) /\ q.session \in live => AnswerStored(t)
  /\ q.pc = "ended" /\ q.mode = "stream" /\ q.connected /\ q.session \in live
       => q.told # "nothing" \/ (q.last = "raise" /\ ~Answered(t))
  /\ Answered(t) => Asked(t)
TurnsOK == \A t \in Turns : TurnOK(t)

\* A row belongs to its turn's session, which exists; a question committed before the
\* stream has the time of the turn's first transaction, its answer a later one.
RowOK(m) ==
  LET q == turn[m.turn] IN
  /\ m.session = q.session /\ m.session \in live
  /\ m.status = "complete"
  /\ m.role = "assistant" /\ "cut" \notin ProviderEnds => q.last = "stop"
  /\ q.mode = "stream" /\ q.order = "before_response" =>
       /\ m.role = "user" => m.created = q.started
       /\ m.role = "assistant" => q.started < m.created
RowsOK == \A m \in msgs : RowOK(m)

IInv == TypeOK /\ RowsOK /\ TurnsOK

-----------------------------------------------------------------------------
(* Rows *)

\* A message has the role of a question or of an answer.
LEMMA RowTyped ==
  ASSUME TypeOK, NEW m \in msgs
  PROVE  /\ m \in Message /\ m.turn \in Turns /\ m.role \in Roles
         /\ m.role = "user" => Asked(m.turn)
         /\ m.role = "assistant" => Answered(m.turn)
  BY DEF TypeOK, Message, Asked, Answered, HasRow

\* A turn without a question and without an answer has no row.
LEMMA NoRowOfTurn ==
  ASSUME TypeOK, NEW t \in Turns, ~Asked(t), ~Answered(t)
  PROVE  \A m \in msgs : m.turn # t
  BY RowTyped DEF Roles

\* The rows that a commit inserts are messages of the turn.
LEMMA InsertedRow ==
  ASSUME IInv, NEW t \in Turns, turn[t].pc # "new", NEW role \in Roles
  PROVE  LET m == Row(t, role, CreatedAt(t))
         IN  /\ m \in Message
             /\ m.turn = t /\ m.role = role /\ m.session = turn[t].session
             /\ m.status = "complete" /\ m.created = CreatedAt(t)
             /\ role = "assistant" => m.deltas = turn[t].deltas
<1>1. turn[t] \in Turn /\ clock \in Nat
  BY DEF IInv, TypeOK
<1>2. turn[t].session \in Sessions
  BY DEF IInv, TurnsOK, TurnOK, RecordOK
<1>3. CreatedAt(t) \in Nat
  BY <1>1 DEF CreatedAt, Turn
<1>4. (IF role = "assistant" THEN turn[t].deltas ELSE 0) \in Nat
  BY <1>1 DEF Turn
<1>5. ((role = "assistant") # turn[t].answerFirst) \in BOOLEAN
  OBVIOUS
<1> QED
  BY <1>2, <1>3, <1>4, <1>5 DEF Row, Message, MessageStatus

\* A commit adds exactly the rows that are pending; the clock does not go back.
LEMMA CommitRows ==
  ASSUME IInv, NEW t \in Turns, turn[t].pc # "new", Commit(t)
  PROVE  /\ msgs' \subseteq Message
         /\ clock' \in Nat /\ clock <= clock'
         /\ \A u \in Turns, role \in Roles :
              HasRow(u, role)' <=> HasRow(u, role) \/ (u = t /\ role \in turn[t].pending)
         /\ "assistant" \in turn[t].pending =>
              \E m \in msgs' : /\ m.turn = t /\ m.role = "assistant"
                               /\ m.status = "complete" /\ m.deltas = turn[t].deltas
<1> DEFINE new(role) == Row(t, role, CreatedAt(t))
<1>1. turn[t].pending \subseteq Roles /\ clock \in Nat /\ msgs \subseteq Message
  BY DEF IInv, TypeOK, Turn
<1>2. msgs' = msgs \cup {new(role) : role \in turn[t].pending}
  BY DEF Commit, Inserted
<1>3. \A role \in turn[t].pending :
        /\ new(role) \in Message /\ new(role).turn = t /\ new(role).role = role
        /\ new(role).status = "complete"
        /\ role = "assistant" => new(role).deltas = turn[t].deltas
  BY <1>1, InsertedRow
<1> HIDE DEF new
<1>4. msgs' \subseteq Message
  BY <1>1, <1>2, <1>3
<1>5. clock' \in Nat /\ clock <= clock'
  BY <1>1 DEF Commit
<1>6. \A u \in Turns, role \in Roles :
        HasRow(u, role)' <=> HasRow(u, role) \/ (u = t /\ role \in turn[t].pending)
  <2> SUFFICES ASSUME NEW u \in Turns, NEW role \in Roles
               PROVE  HasRow(u, role)' <=> HasRow(u, role) \/ (u = t /\ role \in turn[t].pending)
    OBVIOUS
  <2>1. ASSUME HasRow(u, role)' PROVE HasRow(u, role) \/ (u = t /\ role \in turn[t].pending)
    <3>1. PICK m \in msgs' : m.turn = u /\ m.role = role
      BY <2>1 DEF HasRow
    <3> QED
      BY <1>2, <1>3, <3>1 DEF HasRow
  <2>2. ASSUME HasRow(u, role) PROVE HasRow(u, role)'
    BY <1>2, <2>2 DEF HasRow
  <2>3. ASSUME u = t, role \in turn[t].pending PROVE HasRow(u, role)'
    BY <1>2, <1>3, <2>3 DEF HasRow
  <2> QED
    BY <2>1, <2>2, <2>3
<1>7. "assistant" \in turn[t].pending =>
        \E m \in msgs' : /\ m.turn = t /\ m.role = "assistant"
                         /\ m.status = "complete" /\ m.deltas = turn[t].deltas
  BY <1>2, <1>3
<1> QED
  BY <1>4, <1>5, <1>6, <1>7

-----------------------------------------------------------------------------
(* Steps of one turn *)

\* What the rows of a turn say of it does not change when these fields do not.
SameOpening(p, q) ==
  p.session = q.session /\ p.mode = q.mode /\ p.order = q.order /\ p.started = q.started

\* A turn moves on without a row; it keeps what its rows say of it, or has no row.
LEMMA TurnMoves ==
  ASSUME IInv, NEW t \in Turns, NEW q \in Turn, turn' = [turn EXCEPT ![t] = q],
         UNCHANGED <<live, msgs>>, clock' \in Nat, clock <= clock',
         TurnOK(t)',
         SameOpening(turn[t], q) \/ (~Asked(t) /\ ~Answered(t)),
         q.last = turn[t].last \/ ~Answered(t)
  PROVE  IInv'
<1>1. turn'[t] = q /\ \A u \in Turns \ {t} : turn'[u] = turn[u]
  BY DEF IInv, TypeOK
<1>2. TypeOK'
  BY DEF IInv, TypeOK
<1>3. TurnsOK'
  <2> SUFFICES ASSUME NEW u \in Turns, u # t PROVE TurnOK(u)'
    BY DEF TurnsOK
  <2>1. TurnOK(u) /\ turn'[u] = turn[u] /\ turn[u] \in Turn /\ clock \in Nat
    BY <1>1 DEF IInv, TurnsOK, TypeOK
  <2>2. turn[u].started < clock => turn[u].started < clock'
    BY <2>1 DEF Turn
  <2>3. (Asked(u)' <=> Asked(u)) /\ (Answered(u)' <=> Answered(u))
    BY DEF Asked, Answered, HasRow
  <2>4. AnswerStored(u)' <=> AnswerStored(u)
    BY <2>1 DEF AnswerStored
  <2> QED
    BY <2>1, <2>2, <2>3, <2>4 DEF TurnOK
<1>4. RowsOK'
  <2> SUFFICES ASSUME NEW m \in msgs PROVE RowOK(m)'
    BY DEF RowsOK
  <2>1. m.turn \in Turns /\ RowOK(m)
    BY RowTyped DEF IInv, RowsOK
  <2>2. CASE m.turn # t
    BY <1>1, <2>1, <2>2 DEF RowOK
  <2>3. CASE m.turn = t
    <3>1. Asked(t) \/ Answered(t)
      BY <2>3, NoRowOfTurn DEF IInv
    <3>2. SameOpening(turn[t], q)
      BY <3>1
    <3>3. m.role = "assistant" => q.last = turn[t].last
      BY <2>3, RowTyped DEF IInv
    <3> QED
      BY <1>1, <2>1, <2>3, <3>2, <3>3 DEF RowOK, SameOpening
  <2> QED
    BY <2>2, <2>3
<1> QED
  BY <1>2, <1>3, <1>4 DEF IInv

\* A turn moves on without a row, keeps what its rows say of it, and shows no delta.
LEMMA PlainMoves ==
  ASSUME IInv, NEW t \in Turns, NEW q \in Turn, turn' = [turn EXCEPT ![t] = q], NoRows
  PROVE  /\ turn'[t] = q
         /\ Asked(t)' <=> Asked(t)
         /\ Answered(t)' <=> Answered(t)
         /\ q.deltas = turn[t].deltas => (AnswerStored(t)' <=> AnswerStored(t))
<1>1. turn'[t] = q
  BY DEF IInv, TypeOK
<1> QED
  BY <1>1 DEF NoRows, Asked, Answered, HasRow, AnswerStored

\* A turn commits: the rows it had pending are stored now, with the time that their
\* transaction started.
LEMMA CommitMoves ==
  ASSUME IInv, NEW t \in Turns, NEW q \in Turn, turn' = [turn EXCEPT ![t] = q], Commit(t),
         turn[t].pc \in {"flushed", "closing", "opening", "storing", "leaving"},
         turn[t].session \in live, SameOpening(turn[t], q), q.last = turn[t].last,
         TurnOK(t)'
  PROVE  IInv'
<1> DEFINE p == turn[t]
<1>1. turn'[t] = q /\ \A u \in Turns \ {t} : turn'[u] = turn[u]
  BY DEF IInv, TypeOK
<1>2. /\ msgs' \subseteq Message
      /\ clock' \in Nat /\ clock <= clock'
      /\ \A u \in Turns, role \in Roles :
           HasRow(u, role)' <=> HasRow(u, role) \/ (u = t /\ role \in turn[t].pending)
  BY CommitRows
<1>3. live' = live /\ msgs \subseteq msgs'
  BY DEF Commit
<1>4. TypeOK'
  BY <1>2, <1>3 DEF IInv, TypeOK
<1>5. TurnsOK'
  <2> SUFFICES ASSUME NEW u \in Turns, u # t PROVE TurnOK(u)'
    BY DEF TurnsOK
  <2>1. TurnOK(u) /\ turn'[u] = turn[u] /\ turn[u] \in Turn /\ clock \in Nat
    BY <1>1 DEF IInv, TurnsOK, TypeOK
  <2>2. turn[u].started < clock => turn[u].started < clock'
    BY <1>2, <2>1 DEF Turn
  <2>3. (Asked(u)' <=> Asked(u)) /\ (Answered(u)' <=> Answered(u))
    BY <1>2 DEF Asked, Answered, Roles
  <2>4. AnswerStored(u) => AnswerStored(u)'
    BY <1>3, <2>1 DEF AnswerStored
  <2> QED
    BY <1>3, <2>1, <2>2, <2>3, <2>4 DEF TurnOK
<1>6. RowsOK'
  <2> SUFFICES ASSUME NEW m \in msgs' PROVE RowOK(m)'
    BY DEF RowsOK
  <2>1. CASE m \in msgs
    <3>1. m.turn \in Turns /\ RowOK(m)
      BY <2>1, RowTyped DEF IInv, RowsOK
    <3>2. CASE m.turn # t
      BY <1>1, <1>3, <3>1, <3>2 DEF RowOK
    <3>3. CASE m.turn = t
      BY <1>1, <1>3, <3>1, <3>3 DEF RowOK, SameOpening
    <3> QED
      BY <3>2, <3>3
  <2>2. CASE m \notin msgs
    <3>1. PICK role \in p.pending : m = Row(t, role, CreatedAt(t))
      BY <2>2 DEF Commit, Inserted
    <3>2. p \in Turn /\ clock \in Nat /\ TurnOK(t) /\ role \in Roles /\ p.pc # "new"
      BY <3>1 DEF IInv, TypeOK, TurnsOK, Turn
    <3>3. /\ m.turn = t /\ m.role = role /\ m.session = p.session
          /\ m.status = "complete" /\ m.created = CreatedAt(t)
      BY <3>1, <3>2, InsertedRow
    <3>4. role = "assistant" /\ "cut" \notin ProviderEnds => p.last = "stop"
      BY <3>1, <3>2 DEF TurnOK, RecordOK
    <3>5. ASSUME p.mode = "stream", p.order = "before_response"
          PROVE  /\ role = "user" => m.created = p.started
                 /\ role = "assistant" => p.started < m.created
      <4>1. p.pc \in {"opening", "storing"}
        BY <3>1, <3>2, <3>5 DEF TurnOK, RecordOK, PendingAt, LastAt, QuestionPending, OncePcs
      <4>2. CASE p.pc = "opening"
        <5>1. role = "user"
          BY <3>1, <3>2, <4>2 DEF TurnOK, RecordOK, PendingAt
        <5> QED
          BY <3>3, <3>5, <4>2, <5>1 DEF CreatedAt
      <4>3. CASE p.pc = "storing"
        <5>1. role = "assistant"
          BY <3>1, <3>2, <3>5, <4>3 DEF TurnOK, RecordOK, PendingAt, LastAt, QuestionPending
        <5> QED
          BY <3>2, <3>3, <3>5, <4>3, <5>1 DEF CreatedAt, TurnOK
      <4> QED
        BY <4>1, <4>2, <4>3
    <3> HIDE DEF p
    <3>6. /\ q.session = p.session /\ q.mode = p.mode /\ q.order = p.order
          /\ q.started = p.started /\ q.last = p.last
      BY DEF SameOpening, p
    <3> QED
      BY <1>1, <1>3, <3>3, <3>4, <3>5, <3>6 DEF RowOK, p
  <2> QED
    BY <2>1, <2>2
<1> QED
  BY <1>4, <1>5, <1>6 DEF IInv

\* A turn ends without a row: an error needs that no answer is stored, done that it is,
\* and silence that nobody is left to be told or that the provider's exception broke it off.
LEMMA EndMoves ==
  ASSUME IInv, NEW t \in Turns, NEW told \in {"nothing", "done", "error"}, End(t, told), NoRows,
         turn[t].pc # "new", turn[t].told # "error",
         told = "error" => ~Answered(t),
         /\ told = "done" /\ turn[t].session \in live
         /\ turn[t].mode = "stream" \/ turn[t].order = "before_response"
         => AnswerStored(t),
         told = "done" /\ turn[t].mode = "stream" => turn[t].last \in {"stop", "cut"},
         told = "error" /\ turn[t].mode = "stream" => turn[t].last \in {None, "error"},
         /\ told = "nothing" /\ turn[t].mode = "stream" /\ turn[t].connected
         /\ turn[t].session \in live
         => turn[t].last = "raise" /\ ~Answered(t)
  PROVE  IInv'
<1> DEFINE q == [turn[t] EXCEPT !.pc = "ended", !.told = told, !.pending = {}]
<1>1. turn[t] \in Turn /\ TurnOK(t) /\ clock \in Nat
  BY DEF IInv, TypeOK, TurnsOK
<1>2. q \in Turn
  BY <1>1 DEF Turn, TurnPcs
<1>3. turn' = [turn EXCEPT ![t] = q]
  BY DEF End
<1>4. /\ q.pc = "ended" /\ q.told = told /\ q.pending = {} /\ q.deltas = turn[t].deltas
      /\ q.connected = turn[t].connected /\ q.last = turn[t].last
      /\ SameOpening(turn[t], q)
  BY <1>1 DEF Turn, SameOpening
<1> HIDE DEF q
<1>5. /\ turn'[t] = q
      /\ Asked(t)' <=> Asked(t)
      /\ Answered(t)' <=> Answered(t)
      /\ AnswerStored(t)' <=> AnswerStored(t)
  BY <1>2, <1>3, <1>4, PlainMoves
<1>6. RecordOK(q)
  BY <1>1, <1>4 DEF TurnOK, RecordOK, PendingAt, LastAt, SameOpening, OncePcs, StreamPcs
<1>7. TurnOK(t)'
  BY <1>1, <1>4, <1>5, <1>6 DEF TurnOK, MustBeStored, MustNotBeStored, SameOpening, NoRows
<1>8. UNCHANGED <<live, msgs>> /\ clock' \in Nat /\ clock <= clock'
  BY <1>1 DEF NoRows
<1> QED
  BY <1>2, <1>3, <1>4, <1>7, <1>8, TurnMoves

\* The turn is over, or its handler raises.
EndStep(t) ==
  \/ PrepareFails(t) \/ GenerateFails(t) \/ QuestionRefused(t) \/ StreamFails(t)
  \/ StreamBreaks(t) \/ StoreRefused(t) \/ Report(t)

LEMMA EndSteps ==
  ASSUME IInv, NEW t \in Turns,
         \/ EndStep(t)
         \/ turn[t].pc = "replying" /\ Reply(t)
         \/ Leave(t) /\ NoRows
  PROVE  IInv'
<1>0. TurnOK(t)
  BY DEF IInv, TurnsOK
<1>1. turn[t].told = "error" => turn[t].pc = "ended"
  BY <1>0 DEF TurnOK, RecordOK
<1>2. CASE PrepareFails(t) \/ GenerateFails(t) \/ QuestionRefused(t) \/ StreamFails(t)
  <2>1. End(t, "error") /\ NoRows /\ turn[t].pc \in {"preparing", "generating", "opening", "failing"}
    BY <1>2 DEF PrepareFails, GenerateFails, QuestionRefused, StreamFails, ErrorVerdict
  <2>2. ~Answered(t) /\ turn[t].last \in {None, "error"}
    BY <1>0, <2>1 DEF TurnOK, MustNotBeStored, RecordOK, LastAt
  <2> QED
    BY <1>1, <2>1, <2>2, EndMoves
<1>3. CASE StoreRefused(t)
  BY <1>1, <1>3, EndMoves DEF StoreRefused, Insertable
<1>6. CASE StreamBreaks(t)
  <2>1. End(t, "nothing") /\ NoRows /\ turn[t].pc = "breaking"
    BY <1>6 DEF StreamBreaks
  <2>2. ~Answered(t) /\ turn[t].last = "raise"
    BY <1>0, <2>1 DEF TurnOK, MustNotBeStored, RecordOK, LastAt
  <2> QED
    BY <1>1, <2>1, <2>2, EndMoves
<1>4. CASE Report(t) \/ (turn[t].pc = "replying" /\ Reply(t))
  <2>1. End(t, "done") /\ NoRows /\ turn[t].pc \in {"reporting", "replying"}
    BY <1>4 DEF Report, Reply, Reportable
  <2>2. /\ turn[t].session \in live => AnswerStored(t)
        /\ turn[t].mode = "stream" => turn[t].last \in {"stop", "cut"}
    BY <1>0, <2>1 DEF TurnOK, MustBeStored, RecordOK, LastAt, OncePcs
  <2> QED
    BY <1>1, <2>1, <2>2, EndMoves
<1>5. CASE Leave(t) /\ NoRows
  <2>1. turn[t].pc = "leaving" /\ End(t, "nothing")
    BY <1>5 DEF Leave
  <2>2. ~turn[t].connected
    BY <1>0, <2>1 DEF TurnOK, RecordOK
  <2> QED
    BY <1>1, <1>5, <2>1, <2>2, EndMoves
<1> QED
  BY <1>2, <1>3, <1>4, <1>5, <1>6 DEF EndStep

\* A session, a way to answer and a place in the transaction order are drawn.
LEMMA OpenStep ==
  ASSUME IInv, NEW t \in Turns, Open(t)
  PROVE  IInv'
<1>1. PICK s \in live, mode \in {"once", "stream"}, order \in ExitOrders, first \in BOOLEAN :
        turn' = [turn EXCEPT ![t] = [@ EXCEPT !.pc = "preparing", !.session = s, !.mode = mode,
                                              !.order = order, !.started = clock,
                                              !.answerFirst = first, !.pending = {"user"}]]
  BY DEF Open
<1> DEFINE q == [turn[t] EXCEPT !.pc = "preparing", !.session = s, !.mode = mode,
                                !.order = order, !.started = clock,
                                !.answerFirst = first, !.pending = {"user"}]
<1>2. turn[t] \in Turn /\ TurnOK(t) /\ clock \in Nat /\ turn[t].pc = "new"
  BY DEF IInv, TypeOK, TurnsOK, Open
<1>3. order \in {"before_response", "after_response"} /\ s \in Sessions /\ s # None
  BY ConstantsAssumption DEF IInv, TypeOK, ConstantsAssumption
<1>4. q \in Turn
  BY <1>2, <1>3 DEF Turn, TurnPcs, Roles
<1>5. turn' = [turn EXCEPT ![t] = q]
  BY <1>1
<1>6. /\ q.pc = "preparing" /\ q.told = turn[t].told /\ q.pending = {"user"}
      /\ q.session = s /\ q.mode = mode /\ q.order = order /\ q.started = clock
      /\ q.last = turn[t].last
  BY <1>2 DEF Turn
<1> HIDE DEF q
<1>7. turn'[t] = q /\ clock' = clock + 1 /\ UNCHANGED <<live, msgs>>
  BY <1>5 DEF Open, IInv, TypeOK
<1>8. ~Asked(t) /\ ~Answered(t) /\ q.told = "nothing" /\ q.last = None
  BY <1>2, <1>6 DEF TurnOK, MustNotBeStored, RecordOK, LastAt, Turn
<1>9. ~Asked(t)' /\ ~Answered(t)'
  BY <1>7, <1>8 DEF Asked, Answered, HasRow
<1>10. RecordOK(q)
  BY <1>3, <1>6, <1>8 DEF RecordOK, PendingAt, LastAt, OncePcs, StreamPcs
<1>11. TurnOK(t)'
  BY <1>2, <1>6, <1>7, <1>8, <1>9, <1>10 DEF TurnOK, MustBeStored
<1>12. clock' \in Nat /\ clock <= clock' /\ UNCHANGED <<live, msgs>>
  BY <1>2, <1>7
<1> QED
  BY <1>4, <1>5, <1>8, <1>11, <1>12, TurnMoves

\* A turn goes on where it has nothing to tell or to store yet.
LEMMA WaitMoves ==
  ASSUME IInv, NEW t \in Turns, NEW q \in Turn, turn' = [turn EXCEPT ![t] = q], NoRows,
         SameOpening(turn[t], q), q.told = turn[t].told, q.last = turn[t].last \/ ~Answered(t),
         turn[t].pc # "new", q.pc # "new", q.pc # "ended", ~MustBeStored(q),
         RecordOK(q),
         MustNotBeStored(q) => MustNotBeStored(turn[t]),
         q.pc \in {"flushed", "closing"} => q.session \in live,
         "user" \in q.pending => ~Asked(t),
         q.pc \in {"streaming", "failing", "breaking", "storing"} /\ q.session \in live
           => "user" \in q.pending \/ Asked(t)
  PROVE  IInv'
<1>1. turn[t] \in Turn /\ TurnOK(t) /\ clock \in Nat
  BY DEF IInv, TypeOK, TurnsOK
<1>2. /\ turn'[t] = q
      /\ Asked(t)' <=> Asked(t)
      /\ Answered(t)' <=> Answered(t)
  BY PlainMoves
<1>3. TurnOK(t)'
  BY <1>1, <1>2 DEF TurnOK, SameOpening, NoRows
<1>4. UNCHANGED <<live, msgs>> /\ clock' \in Nat /\ clock <= clock'
  BY <1>1 DEF NoRows
<1> QED
  BY <1>3, <1>4, TurnMoves

LEMMA PreparedStep ==
  ASSUME IInv, NEW t \in Turns, Prepared(t)
  PROVE  IInv'
<1> DEFINE p == turn[t]
<1>1. p \in Turn /\ TurnOK(t) /\ p.pc = "preparing" /\ NoRows
  BY DEF IInv, TypeOK, TurnsOK, Prepared
<1>2. PICK pc \in {"generating", "opening", "streaming"} :
        /\ Move(t, pc)
        /\ pc = "generating" <=> p.mode = "once"
        /\ pc = "opening" <=> p.mode = "stream" /\ p.order = "before_response"
        /\ pc = "streaming" <=> p.mode = "stream" /\ p.order = "after_response"
  <2>1. p.mode \in {"once", "stream"} /\ p.order \in {"before_response", "after_response"}
    BY <1>1 DEF TurnOK, RecordOK
  <2> QED
    BY <2>1 DEF Prepared
<1> DEFINE q == [p EXCEPT !.pc = pc]
<1>3. q \in Turn
  BY <1>1 DEF Turn, TurnPcs
<1>4. turn' = [turn EXCEPT ![t] = q]
  BY <1>2 DEF Move
<1>5. /\ q.pc = pc /\ q.told = p.told /\ q.last = p.last /\ q.pending = p.pending
      /\ q.connected = p.connected /\ SameOpening(p, q)
  BY <1>1 DEF Turn, SameOpening
<1> HIDE DEF q
<1>6. p.pending = {"user"} /\ ~Asked(t) /\ p.told = "nothing"
  BY <1>1 DEF TurnOK, RecordOK, PendingAt, LastAt, Turn
<1> HIDE DEF p
<1>7. RecordOK(q)
  BY <1>1, <1>2, <1>5, <1>6 DEF p, TurnOK, RecordOK, PendingAt, LastAt, QuestionPending, OncePcs, StreamPcs,
                               SameOpening
<1>8. ~MustBeStored(q) /\ MustNotBeStored(p)
  BY <1>1, <1>2, <1>5, <1>6 DEF MustBeStored, MustNotBeStored
<1> QED
  BY <1>1, <1>2, <1>3, <1>4, <1>5, <1>6, <1>7, <1>8, WaitMoves DEF p

\* The answer is there, and the flush has locked the rows of a session that exists.
LEMMA GenerateStep ==
  ASSUME IInv, NEW t \in Turns, Generate(t)
  PROVE  IInv'
<1> DEFINE p == turn[t]
           q == [p EXCEPT !.pc = "flushed", !.pending = Roles, !.last = "stop"]
<1>1. p \in Turn /\ TurnOK(t) /\ p.pc = "generating" /\ NoRows /\ p.session \in live
  BY DEF IInv, TypeOK, TurnsOK, Generate, Insertable
<1>2. q \in Turn
  BY <1>1 DEF Turn, TurnPcs
<1>3. turn' = [turn EXCEPT ![t] = q]
  BY DEF Generate
<1>4. /\ q.pc = "flushed" /\ q.told = p.told /\ q.last = "stop" /\ q.pending = Roles
      /\ q.connected = p.connected /\ SameOpening(p, q)
  BY <1>1 DEF Turn, SameOpening
<1> HIDE DEF q
<1>5. ~Asked(t) /\ ~Answered(t) /\ p.told = "nothing" /\ MustNotBeStored(p)
  BY <1>1 DEF TurnOK, RecordOK, PendingAt, LastAt, Turn, MustNotBeStored
<1> HIDE DEF p
<1>6. RecordOK(q)
  BY <1>1, <1>4, <1>5 DEF p, TurnOK, RecordOK, PendingAt, LastAt, OncePcs, StreamPcs, SameOpening
<1>7. ~MustBeStored(q) /\ q.session \in live
  BY <1>1, <1>4, <1>5 DEF MustBeStored, SameOpening
<1> QED
  BY <1>1, <1>2, <1>3, <1>4, <1>5, <1>6, <1>7, WaitMoves DEF p

LEMMA DeltaStep ==
  ASSUME IInv, NEW t \in Turns, Delta(t)
  PROVE  IInv'
<1> DEFINE p == turn[t]
           q == [p EXCEPT !.deltas = @ + 1]
<1>1. p \in Turn /\ TurnOK(t) /\ p.pc = "streaming" /\ NoRows
  BY DEF IInv, TypeOK, TurnsOK, Delta
<1>2. q \in Turn
  BY <1>1 DEF Turn
<1>3. turn' = [turn EXCEPT ![t] = q]
  BY DEF Delta
<1>4. /\ q.pc = "streaming" /\ q.told = p.told /\ q.last = p.last /\ q.pending = p.pending
      /\ q.connected = p.connected /\ SameOpening(p, q)
  BY <1>1 DEF Turn, SameOpening
<1> HIDE DEF q
<1>5. RecordOK(q) /\ p.told # "done"
  BY <1>1, <1>4 DEF TurnOK, RecordOK, PendingAt, LastAt, QuestionPending, OncePcs, StreamPcs, SameOpening
<1>6. ~MustBeStored(q) /\ MustNotBeStored(p)
  BY <1>1, <1>4, <1>5 DEF MustBeStored, MustNotBeStored
<1>7. /\ "user" \in q.pending => ~Asked(t)
      /\ q.session \in live => "user" \in q.pending \/ Asked(t)
  BY <1>1, <1>4 DEF TurnOK, SameOpening
<1> HIDE DEF p
<1> QED
  BY <1>1, <1>2, <1>3, <1>4, <1>5, <1>6, <1>7, WaitMoves DEF p

\* The loop over the provider's stream ends, or raises.
LEMMA StreamEndsStep ==
  ASSUME IInv, NEW t \in Turns, StreamEnds(t)
  PROVE  IInv'
<1> DEFINE p == turn[t]
<1>1. p \in Turn /\ TurnOK(t) /\ p.pc = "streaming" /\ NoRows
  BY DEF IInv, TypeOK, TurnsOK, StreamEnds
<1> DEFINE pend(kind) == p.pending \cup IF AfterStream(kind) = "storing" THEN {"assistant"} ELSE {}
           next(kind) == [p EXCEPT !.pc = AfterStream(kind), !.last = kind,
                                   !.pending = pend(kind)]
<1>2. PICK kind \in ProviderEnds : turn' = [turn EXCEPT ![t] = next(kind)]
  BY DEF StreamEnds
<1>3. /\ pend(kind) \subseteq Roles /\ kind \in {"stop", "cut", "error", "raise"}
      /\ AfterStream(kind) \in {"failing", "breaking", "storing"}
  BY <1>1, ConstantsAssumption DEF Turn, Roles, AfterStream, ConstantsAssumption
<1>4. /\ AfterStream(kind) = "storing" => pend(kind) = p.pending \cup {"assistant"}
      /\ AfterStream(kind) # "storing" => pend(kind) = p.pending
      /\ AfterStream(kind) = "storing" => kind \in {"stop", "cut"}
      /\ AfterStream(kind) = "failing" => kind = "error"
      /\ AfterStream(kind) = "breaking" => kind = "raise"
  BY <1>3 DEF AfterStream
<1> DEFINE q == next(kind)
<1>5. turn' = [turn EXCEPT ![t] = q]
  BY <1>2
<1> HIDE DEF pend
<1>6. q \in Turn
  BY <1>1, <1>3 DEF Turn, TurnPcs
<1>7. /\ q.pc = AfterStream(kind) /\ q.told = p.told /\ q.last = kind /\ q.pending = pend(kind)
      /\ q.connected = p.connected /\ SameOpening(p, q)
  BY <1>1 DEF Turn, SameOpening
<1> HIDE DEF q, next
<1>8. p.told # "done" /\ ~Answered(t) /\ MustNotBeStored(p)
  BY <1>1 DEF TurnOK, RecordOK, MustNotBeStored
<1>9. RecordOK(q)
  BY <1>1, <1>3, <1>4, <1>7, <1>8
     DEF TurnOK, RecordOK, PendingAt, LastAt, QuestionPending, OncePcs, StreamPcs, SameOpening
<1>10. ~MustBeStored(q)
  BY <1>3, <1>7, <1>8 DEF MustBeStored
<1>11. /\ "user" \in q.pending => ~Asked(t)
       /\ q.session \in live => "user" \in q.pending \/ Asked(t)
  BY <1>1, <1>3, <1>4, <1>7 DEF TurnOK, SameOpening
<1> HIDE DEF p
<1> QED
  BY <1>1, <1>3, <1>5, <1>6, <1>7, <1>8, <1>9, <1>10, <1>11, WaitMoves DEF p

\* POST /chat commits before or after its response: the delete of the session has waited
\* for it since the flush.
LEMMA CommitTurnStep ==
  ASSUME IInv, NEW t \in Turns, CommitTurn(t)
  PROVE  IInv'
<1> DEFINE p == turn[t]
<1>1. p \in Turn /\ TurnOK(t) /\ p.pc \in {"flushed", "closing"} /\ Commit(t)
  BY DEF IInv, TypeOK, TurnsOK, CommitTurn
<1>2. PICK pc \in {"replying", "ended"} :
        /\ Move(t, pc)
        /\ pc = "replying" => p.pc = "flushed" /\ p.order = "before_response"
        /\ pc = "ended" => p.pc = "closing"
  BY DEF CommitTurn
<1> DEFINE q == [p EXCEPT !.pc = pc]
<1>3. q \in Turn
  BY <1>1 DEF Turn, TurnPcs
<1>4. turn' = [turn EXCEPT ![t] = q]
  BY <1>2 DEF Move
<1>5. /\ q.pc = pc /\ q.told = p.told /\ q.last = p.last /\ q.pending = p.pending
      /\ q.connected = p.connected /\ q.deltas = p.deltas /\ SameOpening(p, q)
  BY <1>1 DEF Turn, SameOpening
<1> HIDE DEF q
<1>6. p.pending = Roles /\ p.session \in live /\ p.mode = "once" /\ p.told # "error"
  BY <1>1 DEF TurnOK, RecordOK, PendingAt, LastAt, OncePcs
<1>7. turn'[t] = q
  BY <1>4 DEF IInv, TypeOK
<1>8. Asked(t)' /\ Answered(t)' /\ clock' \in Nat /\ clock <= clock'
  BY <1>1, <1>6, CommitRows DEF Asked, Answered, Roles
<1>9. AnswerStored(t)'
  <2>1. PICK m \in msgs' : /\ m.turn = t /\ m.role = "assistant"
                          /\ m.status = "complete" /\ m.deltas = turn[t].deltas
    BY <1>1, <1>6, CommitRows DEF Roles
  <2> QED
    BY <1>5, <1>7, <2>1 DEF AnswerStored
<1>10. RecordOK(q)
  BY <1>1, <1>2, <1>5, <1>6
     DEF TurnOK, RecordOK, PendingAt, LastAt, OncePcs, StreamPcs, SameOpening
<1>11. ~MustNotBeStored(q)
  BY <1>2, <1>5, <1>6 DEF MustNotBeStored
<1>12. q.pc # "new" /\ q.pc \notin {"flushed", "closing", "streaming", "failing", "breaking", "storing"}
       /\ q.mode = "once" /\ q.started < clock'
  <2>1. p.started < clock /\ p.started \in Nat /\ clock \in Nat
    BY <1>1 DEF TurnOK, Turn, IInv, TypeOK
  <2> QED
    BY <1>2, <1>5, <1>6, <1>8, <2>1 DEF SameOpening
<1>13. TurnOK(t)'
  BY <1>2, <1>5, <1>7, <1>8, <1>9, <1>10, <1>11, <1>12 DEF TurnOK
<1> HIDE DEF p
<1> QED
  BY <1>1, <1>3, <1>4, <1>5, <1>6, <1>13, CommitMoves DEF p

\* The dependency commits the question before the stream starts.
LEMMA CommitQuestionStep ==
  ASSUME IInv, NEW t \in Turns, CommitQuestion(t)
  PROVE  IInv'
<1> DEFINE p == turn[t]
           q == [p EXCEPT !.pc = "streaming", !.pending = {}]
<1>1. p \in Turn /\ TurnOK(t) /\ p.pc = "opening" /\ Commit(t) /\ p.session \in live
  BY DEF IInv, TypeOK, TurnsOK, CommitQuestion, Insertable
<1>2. q \in Turn
  BY <1>1 DEF Turn, TurnPcs
<1>3. turn' = [turn EXCEPT ![t] = q]
  BY DEF CommitQuestion
<1>4. /\ q.pc = "streaming" /\ q.told = p.told /\ q.last = p.last /\ q.pending = {}
      /\ q.connected = p.connected /\ q.deltas = p.deltas /\ SameOpening(p, q)
  BY <1>1 DEF Turn, SameOpening
<1> HIDE DEF q
<1>5. /\ p.pending = {"user"} /\ p.mode = "stream" /\ p.order = "before_response"
      /\ p.told = "nothing" /\ ~Answered(t)
  BY <1>1 DEF TurnOK, RecordOK, PendingAt, LastAt, StreamPcs, Turn, MustNotBeStored
<1>6. turn'[t] = q
  BY <1>3 DEF IInv, TypeOK
<1>7. Asked(t)' /\ ~Answered(t)' /\ clock' \in Nat /\ clock <= clock'
  BY <1>1, <1>5, CommitRows DEF Asked, Answered, Roles
<1>8. RecordOK(q)
  BY <1>1, <1>4, <1>5
     DEF TurnOK, RecordOK, PendingAt, LastAt, QuestionPending, OncePcs, StreamPcs, SameOpening
<1>9. q.started < clock' /\ ~MustBeStored(q)
  <2>1. p.started < clock /\ p.started \in Nat /\ clock \in Nat
    BY <1>1 DEF TurnOK, Turn, IInv, TypeOK
  <2> QED
    BY <1>4, <1>5, <1>7, <2>1 DEF SameOpening, MustBeStored
<1>10. TurnOK(t)'
  BY <1>4, <1>6, <1>7, <1>8, <1>9 DEF TurnOK
<1> HIDE DEF p
<1> QED
  BY <1>1, <1>2, <1>3, <1>4, <1>10, CommitMoves DEF p

\* The answer is stored: before the done event, or at once with the disconnection.
LEMMA StoreMoves ==
  ASSUME IInv, NEW t \in Turns, NEW q \in Turn, turn' = [turn EXCEPT ![t] = q], Commit(t),
         turn[t].pc = "storing", turn[t].session \in live,
         q.pc \in {"reporting", "ended"}, q.pending = {}, q.told = turn[t].told,
         q.last = turn[t].last, q.deltas = turn[t].deltas, SameOpening(turn[t], q),
         q.pc = "ended" => ~q.connected
  PROVE  IInv'
<1> DEFINE p == turn[t]
<1>1. p \in Turn /\ TurnOK(t)
  BY DEF IInv, TypeOK, TurnsOK
<1>2. /\ p.pending = QuestionPending(p) \cup {"assistant"} /\ p.mode = "stream"
      /\ p.told = "nothing" /\ "assistant" \in p.pending
      /\ "user" \in p.pending \/ Asked(t)
  BY <1>1 DEF TurnOK, RecordOK, PendingAt, LastAt, StreamPcs, Turn
<1>3. turn'[t] = q
  BY DEF IInv, TypeOK
<1>4. Asked(t)' /\ Answered(t)' /\ clock' \in Nat /\ clock <= clock'
  BY <1>2, CommitRows DEF Asked, Answered, Roles
<1>5. AnswerStored(t)'
  <2>1. PICK m \in msgs' : /\ m.turn = t /\ m.role = "assistant"
                          /\ m.status = "complete" /\ m.deltas = turn[t].deltas
    BY <1>2, CommitRows DEF Roles
  <2> QED
    BY <1>3, <2>1 DEF AnswerStored
<1>6. RecordOK(q)
  BY <1>1, <1>2 DEF TurnOK, RecordOK, PendingAt, LastAt, OncePcs, StreamPcs, SameOpening
<1>7. q.started < clock' /\ ~MustNotBeStored(q)
  <2>1. p.started < clock /\ p.started \in Nat /\ clock \in Nat
    BY <1>1 DEF TurnOK, Turn, IInv, TypeOK
  <2> QED
    BY <1>2, <1>4, <2>1 DEF SameOpening, MustNotBeStored
<1>8. TurnOK(t)'
  BY <1>2, <1>3, <1>4, <1>5, <1>6, <1>7 DEF TurnOK
<1> QED
  BY <1>2, <1>8, CommitMoves

LEMMA StoreStep ==
  ASSUME IInv, NEW t \in Turns, Store(t)
  PROVE  IInv'
<1> DEFINE p == turn[t]
           q == [p EXCEPT !.pc = "reporting", !.pending = {}]
<1>1. p \in Turn /\ p.pc = "storing" /\ Commit(t) /\ p.session \in live
  BY DEF IInv, TypeOK, Store, Insertable
<1>2. q \in Turn
  BY <1>1 DEF Turn, TurnPcs
<1>3. turn' = [turn EXCEPT ![t] = q]
  BY DEF Store
<1>4. /\ q.pc = "reporting" /\ q.told = p.told /\ q.last = p.last /\ q.pending = {}
      /\ q.deltas = p.deltas /\ SameOpening(p, q)
  BY <1>1 DEF Turn, SameOpening
<1> HIDE DEF q
<1> QED
  BY <1>1, <1>2, <1>3, <1>4, StoreMoves

\* The generator is cancelled where it awaits: nothing is told any more.
LEMMA DisconnectStep ==
  ASSUME IInv, NEW t \in Turns, Disconnect(t)
  PROVE  IInv'
<1> DEFINE p == turn[t]
<1>1. p \in Turn /\ TurnOK(t) /\ clock \in Nat
  BY DEF IInv, TypeOK, TurnsOK
<1>2. CASE p.pc = "streaming"
  <2> DEFINE q == [p EXCEPT !.connected = FALSE, !.pc = "leaving"]
  <2>1. turn' = [turn EXCEPT ![t] = q] /\ NoRows
    BY <1>2 DEF Disconnect
  <2>2. q \in Turn
    BY <1>1 DEF Turn, TurnPcs
  <2>3. /\ q.pc = "leaving" /\ q.told = p.told /\ q.last = p.last /\ q.pending = p.pending
        /\ q.connected = FALSE /\ SameOpening(p, q)
    BY <1>1 DEF Turn, SameOpening
  <2> HIDE DEF q
  <2>4. p.told = "nothing" /\ MustNotBeStored(p) /\ ("user" \in p.pending => ~Asked(t))
    BY <1>1, <1>2 DEF TurnOK, RecordOK, Turn, MustNotBeStored
  <2>5. RecordOK(q) /\ ~MustBeStored(q)
    BY <1>1, <1>2, <2>3, <2>4 DEF TurnOK, RecordOK, PendingAt, LastAt, QuestionPending, OncePcs, StreamPcs,
                                  SameOpening, MustBeStored
  <2> HIDE DEF p
  <2> QED
    BY <1>2, <2>1, <2>2, <2>3, <2>4, <2>5, WaitMoves DEF p
<1>3. CASE p.pc # "streaming"
  <2> DEFINE q == [p EXCEPT !.connected = FALSE, !.pc = "ended", !.pending = {}]
  <2>1. /\ p.pc \in {"storing", "reporting"}
        /\ turn' = [turn EXCEPT ![t] = q]
        /\ NoRows \/ (p.pc = "storing" /\ p.session \in live /\ Commit(t))
    BY <1>3 DEF Disconnect, Insertable
  <2>2. q \in Turn
    BY <1>1 DEF Turn, TurnPcs
  <2>3. /\ q.pc = "ended" /\ q.told = p.told /\ q.last = p.last /\ q.pending = {}
        /\ q.connected = FALSE /\ q.deltas = p.deltas /\ SameOpening(p, q)
    BY <1>1 DEF Turn, SameOpening
  <2> HIDE DEF q
  <2>4. p.told = "nothing"
    BY <1>1, <2>1 DEF TurnOK, RecordOK, Turn
  <2>5. CASE NoRows
    <3>1. /\ turn'[t] = q
          /\ Asked(t)' <=> Asked(t)
          /\ Answered(t)' <=> Answered(t)
      BY <2>1, <2>2, <2>5, PlainMoves
    <3>2. RecordOK(q) /\ ~MustBeStored(q) /\ ~MustNotBeStored(q)
      BY <1>1, <2>1, <2>3, <2>4
         DEF TurnOK, RecordOK, PendingAt, LastAt, OncePcs, StreamPcs, SameOpening, MustBeStored,
             MustNotBeStored
    <3>3. TurnOK(t)'
      BY <1>1, <2>1, <2>3, <2>5, <3>1, <3>2 DEF TurnOK, SameOpening, NoRows
    <3>4. UNCHANGED <<live, msgs>> /\ clock' \in Nat /\ clock <= clock'
      BY <1>1, <2>5 DEF NoRows
    <3> QED
      BY <2>1, <2>2, <2>3, <3>3, <3>4, TurnMoves
  <2>6. CASE ~NoRows
    BY <2>1, <2>2, <2>3, <2>6, StoreMoves
  <2> QED
    BY <2>5, <2>6
<1> QED
  BY <1>2, <1>3

\* A cancelled stream leaves its dependency: a pending question is stored or is not.
LEMMA LeaveStep ==
  ASSUME IInv, NEW t \in Turns, Leave(t)
  PROVE  IInv'
<1>1. CASE NoRows
  BY <1>1, EndSteps
<1>2. CASE ~NoRows
  <2> DEFINE p == turn[t]
             q == [p EXCEPT !.pc = "ended", !.told = "nothing", !.pending = {}]
  <2>1. /\ p \in Turn /\ TurnOK(t) /\ p.pc = "leaving"
        /\ Commit(t) /\ p.session \in live /\ p.pending # {}
    BY <1>2 DEF IInv, TypeOK, TurnsOK, Leave, Insertable, Inserted
  <2>2. q \in Turn
    BY <2>1 DEF Turn, TurnPcs
  <2>3. turn' = [turn EXCEPT ![t] = q]
    BY DEF Leave, End
  <2>4. /\ q.pc = "ended" /\ q.told = "nothing" /\ q.last = p.last /\ q.pending = {}
        /\ q.connected = p.connected /\ SameOpening(p, q)
    BY <2>1 DEF Turn, SameOpening
  <2> HIDE DEF q
  <2>5. p.pending = {"user"} /\ ~Answered(t) /\ ~p.connected
    BY <2>1 DEF TurnOK, RecordOK, PendingAt, LastAt, QuestionPending, MustNotBeStored
  <2>6. turn'[t] = q
    BY <2>3 DEF IInv, TypeOK
  <2>7. Asked(t)' /\ ~Answered(t)' /\ clock' \in Nat /\ clock <= clock'
    BY <2>1, <2>5, CommitRows DEF Asked, Answered, Roles
  <2>8. RecordOK(q)
    BY <2>1, <2>4 DEF TurnOK, RecordOK, PendingAt, LastAt, OncePcs, StreamPcs, SameOpening
  <2>9. q.started < clock' /\ ~MustBeStored(q)
    <3>1. p.started < clock /\ p.started \in Nat /\ clock \in Nat
      BY <2>1 DEF TurnOK, Turn, IInv, TypeOK
    <3> QED
      BY <2>4, <2>7, <3>1 DEF SameOpening, MustBeStored
  <2>10. TurnOK(t)'
    BY <2>4, <2>5, <2>6, <2>7, <2>8, <2>9 DEF TurnOK
  <2> HIDE DEF p
  <2> QED
    BY <2>1, <2>2, <2>3, <2>4, <2>10, CommitMoves DEF p
<1> QED
  BY <1>1, <1>2

-----------------------------------------------------------------------------
(* Steps of the process and of a session *)

\* Every turn that runs is cut off; nothing that is committed changes.
LEMMA CrashStep ==
  ASSUME IInv, Crash
  PROVE  IInv'
<1> DEFINE cut(t) == [turn[t] EXCEPT !.pc = "ended", !.pending = {}, !.connected = FALSE]
<1>1. /\ turn' = [t \in Turns |-> IF Running(t) THEN cut(t) ELSE turn[t]]
      /\ UNCHANGED <<live, msgs, clock>>
  BY DEF Crash, NoRows
<1>2. \A t \in Turns : turn[t] \in Turn /\ TurnOK(t)
  BY DEF IInv, TypeOK, TurnsOK
<1>3. ASSUME NEW t \in Turns
      PROVE  /\ cut(t) \in Turn
             /\ cut(t).pc = "ended" /\ cut(t).pending = {} /\ cut(t).connected = FALSE
             /\ cut(t).told = turn[t].told /\ cut(t).last = turn[t].last
             /\ SameOpening(turn[t], cut(t))
  BY <1>2 DEF Turn, TurnPcs, SameOpening
<1> HIDE DEF cut
<1>4. TypeOK'
  BY <1>1, <1>2, <1>3 DEF IInv, TypeOK
<1>5. RowsOK'
  <2> SUFFICES ASSUME NEW m \in msgs PROVE RowOK(m)'
    BY <1>1 DEF RowsOK
  <2>1. m.turn \in Turns /\ RowOK(m)
    BY RowTyped DEF IInv, RowsOK
  <2>2. SameOpening(turn[m.turn], turn'[m.turn]) /\ turn'[m.turn].last = turn[m.turn].last
    BY <1>1, <1>3, <2>1 DEF SameOpening
  <2> QED
    BY <1>1, <2>1, <2>2 DEF RowOK, SameOpening
<1>6. TurnsOK'
  <2> SUFFICES ASSUME NEW t \in Turns PROVE TurnOK(t)'
    BY DEF TurnsOK
  <2>1. (Asked(t)' <=> Asked(t)) /\ (Answered(t)' <=> Answered(t))
    BY <1>1 DEF Asked, Answered, HasRow
  <2>2. CASE ~Running(t)
    <3>1. turn'[t] = turn[t]
      BY <1>1, <2>2
    <3>2. AnswerStored(t)' <=> AnswerStored(t)
      BY <1>1, <3>1 DEF AnswerStored
    <3> QED
      BY <1>1, <1>2, <2>1, <3>1, <3>2 DEF TurnOK
  <2>3. CASE Running(t)
    <3> DEFINE p == turn[t]
               q == cut(t)
    <3>1. turn'[t] = q
      BY <1>1, <2>3
    <3>2. p.pc # "new" /\ p.pc # "ended" /\ p.told # "error" /\ (p.told = "done" => p.pc = "closing")
      BY <1>2, <2>3 DEF Running, TurnOK, RecordOK
    <3>3. p.told = "done" => p.mode = "once" /\ p.order = "after_response"
      BY <1>2, <3>2 DEF TurnOK, RecordOK, OncePcs
    <3>4. RecordOK(q)
      BY <1>2, <1>3, <3>2 DEF TurnOK, RecordOK, PendingAt, LastAt, OncePcs, StreamPcs, SameOpening
    <3>5. ~MustBeStored(q) /\ ~MustNotBeStored(q)
      BY <1>3, <3>2, <3>3 DEF MustBeStored, MustNotBeStored, SameOpening
    <3>6. q.started < clock
      BY <1>2, <1>3, <3>2 DEF TurnOK, SameOpening
    <3>7. Answered(t) => Asked(t)
      BY <1>2 DEF TurnOK
    <3>8. q.pc = "ended" /\ q.pending = {} /\ q.connected = FALSE
      BY <1>3
    <3> HIDE DEF q
    <3> QED
      BY <1>1, <2>1, <3>1, <3>4, <3>5, <3>6, <3>7, <3>8 DEF TurnOK
  <2> QED
    BY <2>2, <2>3
<1> QED
  BY <1>4, <1>5, <1>6 DEF IInv

\* The rows of a session go with it; the rows of the others stay.
LEMMA DeleteSessionStep ==
  ASSUME IInv, NEW s \in Sessions, DeleteSession(s)
  PROVE  IInv'
<1>1. /\ live' = live \ {s} /\ turn' = turn /\ clock' = clock
      /\ msgs' = {m \in msgs : m.session # s}
      /\ \A t \in Turns : turn[t].session = s => turn[t].pc \notin {"flushed", "closing"}
  BY DEF DeleteSession, Cascaded
<1>2. TypeOK'
  BY <1>1 DEF IInv, TypeOK
<1>3. RowsOK'
  BY <1>1 DEF IInv, RowsOK, RowOK
<1>4. TurnsOK'
  <2> SUFFICES ASSUME NEW t \in Turns PROVE TurnOK(t)'
    BY DEF TurnsOK
  <2>1. TurnOK(t) /\ \A m \in msgs : m.turn = t => m.session = turn[t].session
    BY DEF IInv, TurnsOK, RowsOK, RowOK
  <2>2. CASE turn[t].session = s
    <3>1. ~Asked(t)' /\ ~Answered(t)'
      BY <1>1, <2>1, <2>2 DEF Asked, Answered, HasRow
    <3>2. turn'[t].session \notin live'
      BY <1>1, <2>2
    <3> QED
      BY <1>1, <2>1, <2>2, <3>1, <3>2 DEF TurnOK
  <2>3. CASE turn[t].session # s
    <3>1. (Asked(t)' <=> Asked(t)) /\ (Answered(t)' <=> Answered(t))
      BY <1>1, <2>1, <2>3 DEF Asked, Answered, HasRow
    <3>2. AnswerStored(t)' <=> AnswerStored(t)
      BY <1>1, <2>1, <2>3 DEF AnswerStored
    <3>3. turn'[t].session \in live' <=> turn[t].session \in live
      BY <1>1, <2>3
    <3> QED
      BY <1>1, <2>1, <3>1, <3>2, <3>3 DEF TurnOK
  <2> QED
    BY <2>2, <2>3
<1> QED
  BY <1>2, <1>3, <1>4 DEF IInv

-----------------------------------------------------------------------------
(* The invariant *)

\* POST /chat answers before it commits when its dependency is left after the response.
LEMMA ReplyStep ==
  ASSUME IInv, NEW t \in Turns, Reply(t)
  PROVE  IInv'
<1> DEFINE p == turn[t]
<1>1. CASE p.pc = "replying"
  BY <1>1, EndSteps
<1>2. CASE p.pc # "replying"
  <2> DEFINE q == [p EXCEPT !.pc = "closing", !.told = "done"]
  <2>1. /\ p \in Turn /\ TurnOK(t) /\ p.pc = "flushed" /\ p.order = "after_response"
        /\ NoRows /\ clock \in Nat
    BY <1>2 DEF IInv, TypeOK, TurnsOK, Reply
  <2>2. q \in Turn
    BY <2>1 DEF Turn, TurnPcs
  <2>3. turn' = [turn EXCEPT ![t] = q]
    BY <1>2 DEF Reply
  <2>4. /\ q.pc = "closing" /\ q.told = "done" /\ q.last = p.last /\ q.pending = p.pending
        /\ SameOpening(p, q)
    BY <2>1 DEF Turn, SameOpening
  <2> HIDE DEF q
  <2>5. RecordOK(q) /\ ~MustBeStored(q)
    BY <2>1, <2>4 DEF TurnOK, RecordOK, PendingAt, LastAt, OncePcs, StreamPcs, SameOpening, MustBeStored
  <2>6. /\ turn'[t] = q
        /\ Asked(t)' <=> Asked(t)
        /\ Answered(t)' <=> Answered(t)
    BY <2>1, <2>2, <2>3, PlainMoves
  <2>7. ~Answered(t)
    BY <2>1 DEF TurnOK, MustNotBeStored
  <2>8. TurnOK(t)'
    BY <2>1, <2>4, <2>5, <2>6, <2>7 DEF TurnOK, SameOpening, NoRows
  <2>9. UNCHANGED <<live, msgs>> /\ clock' \in Nat /\ clock <= clock'
    BY <2>1 DEF NoRows
  <2> QED
    BY <2>2, <2>3, <2>4, <2>8, <2>9, TurnMoves
<1> QED
  BY <1>1, <1>2

LEMMA InitInv == Init => IInv
<1> SUFFICES ASSUME Init PROVE IInv
  OBVIOUS
<1>1. NewTurn \in Turn
  BY DEF NewTurn, Turn, TurnPcs, Roles
<1>2. TypeOK /\ RowsOK
  BY <1>1 DEF Init, TypeOK, RowsOK
<1>3. TurnsOK
  <2> SUFFICES ASSUME NEW t \in Turns PROVE TurnOK(t)
    BY DEF TurnsOK
  <2>1. turn[t] = NewTurn /\ ~Asked(t) /\ ~Answered(t)
    BY DEF Init, Asked, Answered, HasRow
  <2>2. NewTurn.pc = "new" /\ NewTurn.told = "nothing" /\ NewTurn.pending = {} /\ NewTurn.last = None
    BY DEF NewTurn
  <2>3. RecordOK(NewTurn) /\ ~MustBeStored(NewTurn)
    BY <2>2 DEF RecordOK, PendingAt, LastAt, OncePcs, StreamPcs, MustBeStored
  <2> QED
    BY <2>1, <2>2, <2>3 DEF TurnOK
<1> QED
  BY <1>2, <1>3 DEF IInv

LEMMA NextInv == IInv /\ [Next]_vars => IInv'
<1> SUFFICES ASSUME IInv, [Next]_vars PROVE IInv'
  OBVIOUS
<1>1. CASE UNCHANGED vars
  BY <1>1 DEF vars, IInv, TypeOK, RowsOK, RowOK, TurnsOK, TurnOK, Asked, Answered, HasRow,
              AnswerStored
<1>2. ASSUME NEW t \in Turns, TurnStep(t) PROVE IInv'
  <2>1. CASE EndStep(t)
    BY <2>1, EndSteps
  <2>2. CASE \/ Open(t) \/ Prepared(t) \/ Generate(t) \/ Delta(t) \/ StreamEnds(t) \/ Reply(t)
             \/ Disconnect(t)
    BY <2>2, OpenStep, PreparedStep, GenerateStep, DeltaStep, StreamEndsStep, ReplyStep,
       DisconnectStep
  <2>3. CASE CommitTurn(t) \/ CommitQuestion(t) \/ Store(t) \/ Leave(t)
    BY <2>3, CommitTurnStep, CommitQuestionStep, StoreStep, LeaveStep
  <2> QED
    BY <1>2, <2>1, <2>2, <2>3 DEF TurnStep, EndStep
<1> QED
  BY <1>1, <1>2, CrashStep, DeleteSessionStep DEF Next

\* The strengthened invariant holds in every reachable state.
THEOREM TurnsInductive == Spec => []IInv
  BY InitInv, NextInv, PTL DEF Spec

\* The state keeps its types, for any number of turns and sessions.
THEOREM ChatTypeCorrect == Spec => []TypeOK
<1>1. IInv => TypeOK
  BY DEF IInv
<1> QED
  BY <1>1, TurnsInductive, PTL

\* What a client is told and what the database holds agree: done means that the answer
\* it saw is stored, error that none is, whoever disconnects, crashes or deletes.
THEOREM VerdictHolds == Spec => []VerdictMatchesStore
<1>1. IInv => VerdictMatchesStore
  <2> SUFFICES ASSUME IInv, NEW t \in Turns
               PROVE  /\ /\ turn[t].told = "done" /\ turn[t].session \in live
                         /\ turn[t].mode = "stream" \/ turn[t].order = "before_response"
                         => AnswerStored(t)
                      /\ turn[t].told = "error" => ~Answered(t)
    BY DEF VerdictMatchesStore, AnswerStored, Answered
  <2>1. TurnOK(t)
    BY DEF IInv, TurnsOK
  <2>2. turn[t].told = "done" /\ (turn[t].mode = "stream" \/ turn[t].order = "before_response")
        => turn[t].pc = "ended"
    BY <2>1 DEF TurnOK, RecordOK, OncePcs
  <2> QED
    BY <2>1, <2>2 DEF TurnOK, MustBeStored, MustNotBeStored
<1> QED
  BY <1>1, TurnsInductive, PTL

\* A provider that marks the end of its streams leaves no partial answer in the history.
THEOREM StoredAnswersWhole ==
  ASSUME "cut" \notin ProviderEnds
  PROVE  Spec => []CompleteIsWhole
<1>1. IInv => CompleteIsWhole
  BY DEF IInv, RowsOK, RowOK, CompleteIsWhole
<1> QED
  BY <1>1, TurnsInductive, PTL

\* While its client, session and server are there, a stream tells how the provider ended, and
\* only an exception other than LLMError leaves it without a verdict and without an answer.
THEOREM VerdictIsSent == Spec => []StreamEndsWithVerdict
<1>1. IInv => StreamEndsWithVerdict
  <2> SUFFICES ASSUME IInv, NEW t \in Turns, turn[t].pc = "ended", turn[t].mode = "stream",
                      turn[t].connected, turn[t].session \in live
               PROVE  \/ turn[t].told = "done" /\ turn[t].last \in {"stop", "cut"}
                      \/ turn[t].told = "error" /\ turn[t].last \in {None, "error"}
                      \/ turn[t].told = "nothing" /\ turn[t].last = "raise" /\ ~Answered(t)
    BY DEF StreamEndsWithVerdict, Answered
  <2>1. TurnOK(t) /\ turn[t].told \in {"nothing", "done", "error"}
    BY DEF IInv, TurnsOK, TypeOK, Turn
  <2> QED
    BY <2>1 DEF TurnOK, RecordOK, LastAt
<1> QED
  BY <1>1, TurnsInductive, PTL

-----------------------------------------------------------------------------
(* The times of the rows *)

\* What Open chose for a turn: its session, the time of its first transaction, and which of
\* its rows gets the larger id.
SameTurn(p, q) ==
  /\ q.session = p.session /\ q.started = p.started /\ q.answerFirst = p.answerFirst
  /\ q.pc = "new" <=> p.pc = "new"

\* A turn keeps that once it is open.
LEMMA KeepsTurn ==
  ASSUME TypeOK, NEW t \in Turns, TurnStep(t), ~Open(t)
  PROVE  \A u \in Turns : SameTurn(turn[u], turn'[u])
<1>1. turn \in [Turns -> Turn] /\ turn[t] \in Turn
  BY DEF TypeOK
<1>2. turn[t].pc # "new"
  BY DEF TurnStep, Open, PrepareFails, Prepared, Generate, GenerateFails, CommitTurn, Reply,
         CommitQuestion, QuestionRefused, Delta, StreamEnds, StreamFails, StreamBreaks, Store,
         StoreRefused,
         Report, Disconnect, Leave, Reportable
<1>3. ASSUME NEW q, turn' = [turn EXCEPT ![t] = q], SameTurn(turn[t], q)
      PROVE  \A u \in Turns : SameTurn(turn[u], turn'[u])
  BY <1>1, <1>3 DEF SameTurn
<1>4. ASSUME NEW told, End(t, told) PROVE \A u \in Turns : SameTurn(turn[u], turn'[u])
  <2> DEFINE q == [turn[t] EXCEPT !.pc = "ended", !.told = told, !.pending = {}]
  <2>1. SameTurn(turn[t], q)
    BY <1>1, <1>2 DEF Turn, SameTurn
  <2> QED
    BY <1>3, <1>4, <2>1 DEF End
<1>5. ASSUME NEW pc, pc # "new", Move(t, pc) PROVE \A u \in Turns : SameTurn(turn[u], turn'[u])
  <2> DEFINE q == [turn[t] EXCEPT !.pc = pc]
  <2>1. SameTurn(turn[t], q)
    BY <1>1, <1>2, <1>5 DEF Turn, SameTurn
  <2> QED
    BY <1>3, <1>5, <2>1 DEF Move
<1>6. CASE EndStep(t)
  BY <1>4, <1>6 DEF EndStep, PrepareFails, GenerateFails, QuestionRefused, StreamFails,
                    StreamBreaks, StoreRefused, Report
<1>7. CASE Prepared(t) \/ CommitTurn(t) \/ Leave(t)
  BY <1>4, <1>5, <1>7 DEF Prepared, CommitTurn, Leave
<1>8. CASE Generate(t)
  <2> DEFINE q == [turn[t] EXCEPT !.pc = "flushed", !.pending = Roles, !.last = "stop"]
  <2>1. SameTurn(turn[t], q)
    BY <1>1, <1>2 DEF Turn, SameTurn
  <2> QED
    BY <1>3, <1>8, <2>1 DEF Generate
<1>9. CASE Reply(t)
  <2> DEFINE q == [turn[t] EXCEPT !.pc = "closing", !.told = "done"]
  <2>1. SameTurn(turn[t], q)
    BY <1>1, <1>2 DEF Turn, SameTurn
  <2>2. turn' = [turn EXCEPT ![t] = q] \/ End(t, "done")
    BY <1>9 DEF Reply
  <2> QED
    BY <1>3, <1>4, <2>1, <2>2
<1>10. CASE CommitQuestion(t) \/ Store(t)
  <2> DEFINE q(pc) == [turn[t] EXCEPT !.pc = pc, !.pending = {}]
  <2>1. SameTurn(turn[t], q("streaming")) /\ SameTurn(turn[t], q("reporting"))
    BY <1>1, <1>2 DEF Turn, SameTurn
  <2>2. turn' = [turn EXCEPT ![t] = q("streaming")] \/ turn' = [turn EXCEPT ![t] = q("reporting")]
    BY <1>10 DEF CommitQuestion, Store
  <2> HIDE DEF q
  <2> QED
    BY <1>3, <2>1, <2>2
<1>11. CASE Delta(t)
  <2> DEFINE q == [turn[t] EXCEPT !.deltas = @ + 1]
  <2>1. SameTurn(turn[t], q)
    BY <1>1, <1>2 DEF Turn, SameTurn
  <2> QED
    BY <1>3, <1>11, <2>1 DEF Delta
<1>12. CASE StreamEnds(t)
  <2> DEFINE q(kind) == [turn[t] EXCEPT !.pc = AfterStream(kind), !.last = kind,
                           !.pending = turn[t].pending
                             \cup IF AfterStream(kind) = "storing" THEN {"assistant"} ELSE {}]
  <2>1. PICK kind \in ProviderEnds : turn' = [turn EXCEPT ![t] = q(kind)]
    BY <1>12 DEF StreamEnds
  <2>2. AfterStream(kind) # "new"
    BY ConstantsAssumption DEF AfterStream, ConstantsAssumption
  <2>3. SameTurn(turn[t], q(kind))
    BY <1>1, <1>2, <2>2 DEF Turn, SameTurn
  <2> HIDE DEF q
  <2> QED
    BY <1>3, <2>1, <2>3
<1>13. CASE Disconnect(t)
  <2> DEFINE q == [turn[t] EXCEPT !.connected = FALSE, !.pc = "leaving"]
             r == [turn[t] EXCEPT !.connected = FALSE, !.pc = "ended", !.pending = {}]
  <2>1. SameTurn(turn[t], q) /\ SameTurn(turn[t], r)
    BY <1>1, <1>2 DEF Turn, SameTurn
  <2>2. turn' = [turn EXCEPT ![t] = q] \/ turn' = [turn EXCEPT ![t] = r]
    BY <1>13 DEF Disconnect
  <2> HIDE DEF q, r
  <2> QED
    BY <1>3, <2>1, <2>2
<1> QED
  BY <1>6, <1>7, <1>8, <1>9, <1>10, <1>11, <1>12, <1>13 DEF TurnStep, EndStep

\* Transactions start at different times, of different turns at least, and a row carries the
\* time of its transaction: rows with one created_at are the two rows of a turn, and the
\* larger of their ids is known.
Opened(t) == turn[t].pc # "new"
TimesOK ==
  /\ \A t, u \in Turns : t # u /\ Opened(t) /\ Opened(u) => turn[t].started # turn[u].started
  /\ \A m \in msgs : /\ Opened(m.turn) /\ m.created < clock
                     /\ \A u \in Turns : u # m.turn /\ Opened(u) => m.created # turn[u].started
RowsApart ==
  /\ IsFiniteSet(msgs)
  /\ \A m, n \in msgs : m.created = n.created => m.turn = n.turn
  /\ \A m, n \in msgs : m.turn = n.turn /\ m.role = n.role => m = n
  /\ \A m \in msgs : m.second <=> ~(m.role = "assistant" <=> turn[m.turn].answerFirst)

TInv == IInv /\ TimesOK /\ RowsApart

\* A step that inserts no row, and that leaves turns and clock as they were to the rows.
LEMMA NoNewRows ==
  ASSUME TInv, msgs' \subseteq msgs, clock' = clock,
         \A u \in Turns : SameTurn(turn[u], turn'[u])
  PROVE  TimesOK' /\ RowsApart'
<1>1. \A m \in msgs : m.turn \in Turns
  BY RowTyped DEF TInv, IInv
<1>2. TimesOK'
  BY <1>1 DEF TInv, TimesOK, Opened, SameTurn
<1>3. IsFiniteSet(msgs')
  BY FS_Subset DEF TInv, RowsApart
<1>4. \A m \in msgs' : m.second <=> ~(m.role = "assistant" <=> turn'[m.turn].answerFirst)
  BY <1>1 DEF TInv, RowsApart, SameTurn
<1> QED
  BY <1>2, <1>3, <1>4 DEF TInv, RowsApart

\* A turn that opens takes a time that no row and no other turn has.
LEMMA OpenTimes ==
  ASSUME TInv, NEW t \in Turns, Open(t)
  PROVE  TimesOK' /\ RowsApart'
<1>1. /\ msgs' = msgs /\ clock' = clock + 1 /\ clock \in Nat
      /\ turn \in [Turns -> Turn] /\ ~Opened(t)
      /\ \A u \in Turns : Opened(u) => turn[u].started < clock
  BY DEF TInv, IInv, TypeOK, TurnsOK, TurnOK, Open, Opened
<1>2. \A u \in Turns \ {t} : turn'[u] = turn[u]
  BY <1>1 DEF Open
<1>3. turn'[t].started = clock
  <2>1. PICK s \in live, mode \in {"once", "stream"}, order \in ExitOrders, first \in BOOLEAN :
          turn' = [turn EXCEPT ![t] = [@ EXCEPT !.pc = "preparing", !.session = s, !.mode = mode,
                                                !.order = order, !.started = clock,
                                                !.answerFirst = first, !.pending = {"user"}]]
    BY DEF Open
  <2>2. turn[t] \in Turn
    BY <1>1
  <2> QED
    BY <1>1, <2>1, <2>2 DEF Turn
<1>4. \A m \in msgs : m.turn \in Turns \ {t} /\ m.created \in Nat /\ m.created < clock
  BY <1>1, RowTyped DEF TInv, IInv, TimesOK, Message
<1>5. TimesOK'
  <2>1. \A u \in Turns \ {t} : Opened(u)' <=> Opened(u)
    BY <1>2 DEF Opened
  <2>2. \A u \in Turns : turn[u].started \in Nat
    BY <1>1 DEF Turn
  <2>3. \A u, v \in Turns : u # v /\ Opened(u)' /\ Opened(v)' => turn'[u].started # turn'[v].started
    BY <1>1, <1>2, <1>3, <2>1, <2>2 DEF TInv, TimesOK
  <2>4. ASSUME NEW m \in msgs
        PROVE  /\ Opened(m.turn)' /\ m.created < clock'
               /\ \A u \in Turns : u # m.turn /\ Opened(u)' => m.created # turn'[u].started
    BY <1>1, <1>2, <1>3, <1>4, <2>1 DEF TInv, TimesOK
  <2> QED
    BY <1>1, <2>3, <2>4 DEF TimesOK
<1>6. RowsApart'
  BY <1>1, <1>2, <1>4 DEF TInv, RowsApart
<1> QED
  BY <1>5, <1>6

\* A commit inserts rows that its turn does not have yet, with a time that is the turn's own
\* or new.
LEMMA CommitTimes ==
  ASSUME TInv, NEW t \in Turns, Opened(t), Commit(t),
         \A role \in turn[t].pending : ~HasRow(t, role),
         \A u \in Turns : SameTurn(turn[u], turn'[u])
  PROVE  TimesOK' /\ RowsApart'
<1> DEFINE p == turn[t]
           time == CreatedAt(t)
           new == {Row(t, role, time) : role \in p.pending}
<1>1. /\ p \in Turn /\ p.pending \subseteq Roles /\ clock \in Nat
      /\ p.started \in Nat /\ p.started < clock
  BY DEF TInv, IInv, TypeOK, TurnsOK, TurnOK, Turn, Opened
<1>2. msgs' = msgs \cup new /\ clock' = IF time = clock THEN clock + 1 ELSE clock
  BY DEF Commit, Inserted
<1>3. time = p.started \/ time = clock
  BY DEF CreatedAt
<1>4. /\ time \in Nat /\ time < clock' /\ clock <= clock'
  BY <1>1, <1>2, <1>3
<1>5. ASSUME NEW m \in new
      PROVE  /\ m.turn = t /\ m.role \in p.pending /\ m.created = time
             /\ m.second <=> ~(m.role = "assistant" <=> p.answerFirst)
             /\ m = Row(t, m.role, time)
  <2>1. PICK role \in p.pending : m = Row(t, role, time)
    BY <1>5
  <2>2. m.turn = t /\ m.role = role /\ m.created = time
        /\ m.second = ((role = "assistant") # p.answerFirst)
    BY <2>1 DEF Row
  <2>3. p.answerFirst \in BOOLEAN
    BY <1>1 DEF Turn
  <2> QED
    BY <2>1, <2>2, <2>3
<1>6. ASSUME NEW m \in msgs
      PROVE  /\ m.turn \in Turns /\ m.created \in Nat /\ m.created < clock
             /\ m.turn # t => m.created # p.started
             /\ m.turn = t => m.role \notin p.pending
  <2>1. m.turn \in Turns /\ m \in Message
    BY RowTyped DEF TInv, IInv
  <2>2. m.turn = t => m.role \notin p.pending
    BY DEF HasRow
  <2> QED
    BY <2>1, <2>2 DEF TInv, TimesOK, Message
<1>7. \A u \in Turns : /\ Opened(u)' <=> Opened(u)
                       /\ turn'[u].started = turn[u].started
                       /\ turn'[u].answerFirst = turn[u].answerFirst
  BY DEF SameTurn, Opened
<1>8. \A u \in Turns : Opened(u) => turn[u].started \in Nat /\ turn[u].started < clock
  BY DEF TInv, IInv, TypeOK, TurnsOK, TurnOK, Turn, Opened
<1>9. IsFiniteSet(new)
  <2> DEFINE question == Row(t, "user", time)
             reply == Row(t, "assistant", time)
  <2>1. new \subseteq {question} \cup {reply}
    BY <1>1 DEF Roles
  <2> HIDE DEF question, reply, new
  <2>2. IsFiniteSet({question} \cup {reply})
    BY FS_Singleton, FS_Union
  <2> QED
    BY <2>1, <2>2, FS_Subset
<1> HIDE DEF new, time
<1>10. TimesOK'
  <2>1. \A u, v \in Turns : u # v /\ Opened(u)' /\ Opened(v)' => turn'[u].started # turn'[v].started
    BY <1>7 DEF TInv, TimesOK
  <2>2. ASSUME NEW m \in msgs'
        PROVE  /\ Opened(m.turn)' /\ m.created < clock'
               /\ \A u \in Turns : u # m.turn /\ Opened(u)' => m.created # turn'[u].started
    <3>1. CASE m \in msgs
      <4>1. m.created < clock'
        BY <1>1, <1>4, <1>6, <3>1, <1>2
      <4> QED
        BY <4>1, <1>6, <1>7, <3>1 DEF TInv, TimesOK
    <3>2. CASE m \in new
      <4>1. m.turn = t /\ m.created = time
        BY <1>5, <3>2
      <4>2. ASSUME NEW u \in Turns, u # t, Opened(u) PROVE time # turn[u].started
        <5>1. p.started # turn[u].started
          BY <4>2 DEF TInv, TimesOK
        <5> QED
          BY <5>1, <4>2, <1>1, <1>3, <1>8
      <4> QED
        BY <4>1, <4>2, <1>4, <1>7
    <3> QED
      BY <3>1, <3>2, <1>2
  <2> QED
    BY <2>1, <2>2 DEF TimesOK
<1>11. RowsApart'
  <2>1. IsFiniteSet(msgs')
    BY <1>2, <1>9, FS_Union DEF TInv, RowsApart
  <2>2. ASSUME NEW m \in msgs', NEW n \in msgs', m.created = n.created PROVE m.turn = n.turn
    <3>1. ASSUME NEW x \in msgs, NEW y \in new, x.created = y.created PROVE x.turn = y.turn
      <4>1. y.turn = t /\ x.created = time
        BY <3>1, <1>5
      <4>2. x.created # clock
        BY <1>6, <1>1
      <4> QED
        BY <4>1, <4>2, <1>3, <1>6
    <3>2. CASE m \in msgs /\ n \in msgs
      BY <2>2, <3>2 DEF TInv, RowsApart
    <3>3. CASE m \in new /\ n \in new
      BY <3>3, <1>5
    <3> QED
      BY <2>2, <3>1, <3>2, <3>3, <1>2
  <2>3. ASSUME NEW m \in msgs', NEW n \in msgs', m.turn = n.turn, m.role = n.role PROVE m = n
    <3>1. CASE m \in msgs /\ n \in msgs
      BY <2>3, <3>1 DEF TInv, RowsApart
    <3>2. CASE m \in new /\ n \in new
      BY <2>3, <3>2, <1>5
    <3>3. ASSUME NEW x \in msgs, NEW y \in new PROVE ~(x.turn = y.turn /\ x.role = y.role)
      BY <1>5, <1>6
    <3> QED
      BY <2>3, <3>1, <3>2, <3>3, <1>2
  <2>4. ASSUME NEW m \in msgs'
        PROVE  m.second <=> ~(m.role = "assistant" <=> turn'[m.turn].answerFirst)
    <3>1. CASE m \in msgs
      BY <3>1, <1>6, <1>7 DEF TInv, RowsApart
    <3>2. CASE m \in new
      BY <3>2, <1>5, <1>7
    <3> QED
      BY <3>1, <3>2, <1>2
  <2> QED
    BY <2>1, <2>2, <2>3, <2>4 DEF RowsApart
<1> QED
  BY <1>10, <1>11

\* Every step keeps the times apart.
LEMMA TimesStep == TInv /\ [Next]_vars => TInv'
<1> SUFFICES ASSUME TInv, [Next]_vars PROVE TimesOK' /\ RowsApart'
  BY NextInv DEF TInv
<1>0. IInv /\ TypeOK /\ turn \in [Turns -> Turn]
  BY DEF TInv, IInv, TypeOK
<1>1. ASSUME NEW t \in Turns, TurnStep(t) PROVE TimesOK' /\ RowsApart'
  <2>1. CASE Open(t)
    BY <2>1, OpenTimes
  <2>2. CASE ~Open(t)
    <3>1. \A u \in Turns : SameTurn(turn[u], turn'[u])
      BY <1>0, <1>1, <2>2, KeepsTurn
    <3>2. CASE NoRows
      BY <3>1, <3>2, NoNewRows DEF NoRows
    <3>3. CASE ~NoRows
      <4>1. Commit(t) /\ turn[t].pc \in {"flushed", "closing", "opening", "storing", "leaving"}
        BY <1>1, <2>2, <3>3
           DEF TurnStep, PrepareFails, Prepared, Generate, GenerateFails, CommitTurn, Reply,
               CommitQuestion, QuestionRefused, Delta, StreamEnds, StreamFails, StreamBreaks, Store,
         StoreRefused,
               Report, Disconnect, Leave
      <4>2. ASSUME NEW role \in turn[t].pending PROVE ~HasRow(t, role)
        <5>1. TurnOK(t) /\ role \in Roles
          BY <1>0, <4>2 DEF IInv, TypeOK, TurnsOK, Turn
        <5>2. ~Answered(t)
          BY <4>1, <5>1 DEF TurnOK, MustNotBeStored
        <5>3. role = "user" => ~Asked(t)
          BY <4>1, <4>2, <5>1 DEF TurnOK
        <5> QED
          BY <5>1, <5>2, <5>3 DEF Roles, Asked, Answered
      <4> QED
        BY <3>1, <4>1, <4>2, CommitTimes DEF Opened
    <3> QED
      BY <3>2, <3>3
  <2> QED
    BY <2>1, <2>2
<1>2. CASE Crash
  <2>1. \A u \in Turns : SameTurn(turn[u], turn'[u])
    BY <1>0, <1>2 DEF Crash, Running, Turn, SameTurn
  <2> QED
    BY <1>2, <2>1, NoNewRows DEF Crash, NoRows
<1>3. ASSUME NEW s \in Sessions, DeleteSession(s) PROVE TimesOK' /\ RowsApart'
  <2>1. \A u \in Turns : SameTurn(turn[u], turn'[u])
    BY <1>3 DEF DeleteSession, SameTurn
  <2> QED
    BY <1>3, <2>1, NoNewRows DEF DeleteSession, Cascaded
<1>4. CASE UNCHANGED vars
  <2>1. \A u \in Turns : SameTurn(turn[u], turn'[u])
    BY <1>4 DEF vars, SameTurn
  <2> QED
    BY <1>4, <2>1, NoNewRows DEF vars
<1> QED
  BY <1>1, <1>2, <1>3, <1>4 DEF Next

\* Rows of one created_at are the question and the answer of one turn: with that, the order
\* of the rows is total, whatever the random ids are.
THEOREM TimesInductive == Spec => []TInv
<1>1. Init => TInv
  <2> SUFFICES ASSUME Init PROVE TimesOK /\ RowsApart
    BY InitInv DEF TInv
  <2>1. msgs = {} /\ \A t \in Turns : turn[t].pc = "new"
    BY DEF Init, NewTurn
  <2> QED
    BY <2>1, FS_EmptySet DEF TimesOK, RowsApart, Opened
<1> QED
  BY <1>1, TimesStep, PTL DEF Spec

\* The rows of a session are strictly ordered.
LEMMA RowsOrdered ==
  ASSUME TInv, NEW rows, rows \subseteq msgs
  PROVE  /\ IsFiniteSet(rows)
         /\ StrictOrder({pair \in rows \X rows : Before(pair[1], pair[2])}, rows)
<1> DEFINE R == {pair \in rows \X rows : Before(pair[1], pair[2])}
<1>1. \A m \in rows : /\ m.created \in Nat /\ m.second \in BOOLEAN /\ m.role \in Roles
  BY RowTyped DEF TInv, IInv, Message
<1>2. \A m \in rows : ~Before(m, m)
  BY <1>1 DEF Before
<1>3. ASSUME NEW m \in rows, NEW n \in rows, m # n PROVE Before(m, n) \/ Before(n, m)
  <2>1. CASE m.created # n.created
    BY <1>1, <2>1 DEF Before
  <2>2. CASE m.created = n.created
    <3>1. m.turn = n.turn
      BY <2>2 DEF TInv, RowsApart
    <3>2. m.role # n.role
      BY <1>3, <3>1 DEF TInv, RowsApart
    <3>3. m.role = "assistant" <=> ~(n.role = "assistant")
      BY <1>1, <3>2 DEF Roles
    <3>4. m.second <=> ~n.second
      BY <3>1, <3>3 DEF TInv, RowsApart
    <3> QED
      BY <2>2, <3>4, <1>1 DEF Before
  <2> QED
    BY <2>1, <2>2
<1>4. ASSUME NEW m \in rows, NEW n \in rows, NEW o \in rows, Before(m, n), Before(n, o)
      PROVE  Before(m, o)
  BY <1>1, <1>4 DEF Before
<1>5. \A m, n \in rows : <<m, n>> \in R <=> Before(m, n)
  OBVIOUS
<1> HIDE DEF R
<1>6. StrictOrder(R, rows)
  BY <1>2, <1>3, <1>4, <1>5 DEF StrictOrder
<1>7. IsFiniteSet(rows)
  BY FS_Subset DEF TInv, RowsApart
<1> QED
  BY <1>6, <1>7 DEF R

\* list_messages has the rows of a session in their order.
LEMMA ListedInOrder ==
  ASSUME TInv, NEW s \in Sessions
  PROVE  /\ InOrder(s) \in Seq(msgs)
         /\ \A i, j \in 1..Len(InOrder(s)) : Before(InOrder(s)[i], InOrder(s)[j]) => i < j
<1> DEFINE rows == {m \in msgs : m.session = s}
           R == {pair \in rows \X rows : Before(pair[1], pair[2])}
           N == Cardinality(rows)
           rank(m) == Cardinality({n \in rows : Before(n, m)})
           at(i) == CHOOSE m \in rows : rank(m) = i - 1
<1>1. IsFiniteSet(rows) /\ StrictOrder(R, rows)
  <2>1. rows \subseteq msgs
    OBVIOUS
  <2> HIDE DEF rows
  <2> QED
    BY <2>1, RowsOrdered
<1>2. \A m \in rows : Below(R, rows, m) = {n \in rows : Before(n, m)}
  BY DEF Below
<1>3. \A m, n \in rows : <<m, n>> \in R <=> Before(m, n)
  OBVIOUS
<1> HIDE DEF rows, R
<1>4. \A m \in rows : rank(m) = Cardinality(Below(R, rows, m))
  BY <1>2
<1> HIDE DEF rank
<1>5. /\ N \in Nat
      /\ \A m, n \in rows : rank(m) < rank(n) <=> Before(m, n)
      /\ \A i \in 1..N : \E m \in rows : rank(m) = i - 1
  <2>1. /\ Cardinality(rows) \in Nat
        /\ \A x, y \in rows : Cardinality(Below(R, rows, x)) < Cardinality(Below(R, rows, y))
                                <=> <<x, y>> \in R
        /\ \A i \in 1..Cardinality(rows) : \E x \in rows : Cardinality(Below(R, rows, x)) = i - 1
    BY <1>1, EveryRankTaken
  <2> QED
    BY <2>1, <1>3, <1>4
<1> HIDE DEF N
<1>6. \A i \in 1..N : at(i) \in rows /\ rank(at(i)) = i - 1
  BY <1>5
<1>7. InOrder(s) = [i \in 1..N |-> at(i)]
  BY DEF InOrder, at, rank, rows, N
<1> HIDE DEF at
<1>8. InOrder(s) \in Seq(rows) /\ Len(InOrder(s)) = N /\ \A i \in 1..N : InOrder(s)[i] = at(i)
  BY <1>5, <1>6, <1>7
<1>9. ASSUME NEW i \in 1..N, NEW j \in 1..N, Before(at(i), at(j)) PROVE i < j
  <2>1. rank(at(i)) < rank(at(j))
    BY <1>5, <1>6, <1>9
  <2> QED
    BY <2>1, <1>6, <1>5
<1>10. InOrder(s) \in Seq(msgs)
  <2>1. rows \subseteq msgs
    BY DEF rows
  <2> QED
    BY <1>8, <2>1
<1> QED
  BY <1>8, <1>9, <1>10

\* A question that was committed before its stream started is older than its answer.
QuestionOlder ==
  \A m, n \in msgs :
    /\ m.turn = n.turn /\ m.role = "user" /\ n.role = "assistant"
    /\ turn[m.turn].mode = "stream" /\ turn[m.turn].order = "before_response"
    => m.created < n.created

\* What the order of a history rests on: the times of the rows, not their random ids.
LEMMA QuestionIsOlder == IInv => QuestionOlder
BY DEF IInv, RowsOK, RowOK, QuestionOlder

\* A turn reads as history no answer before its question (the newest Window rows of the
\* session), when the question was committed before the stream started.
THEOREM HistoryInOrder == Spec => []QuestionBeforeAnswer
<1>1. TInv => QuestionBeforeAnswer
  <2> SUFFICES ASSUME TInv, NEW s \in Sessions, NEW i \in 1..Len(History(s)),
                      NEW j \in 1..Len(History(s)),
                      History(s)[i].turn = History(s)[j].turn,
                      History(s)[i].role = "user", History(s)[j].role = "assistant",
                      turn[History(s)[i].turn].mode = "stream",
                      turn[History(s)[i].turn].order = "before_response"
               PROVE  i < j
    BY DEF QuestionBeforeAnswer
  <2> DEFINE all == InOrder(s)
             first == IF Len(all) > Window THEN Len(all) - Window + 1 ELSE 1
  <2>1. /\ all \in Seq(msgs)
        /\ \A k, l \in 1..Len(all) : Before(all[k], all[l]) => k < l
    BY ListedInOrder
  <2>2. History(s) = SubSeq(all, first, Len(all))
    BY DEF History
  <2> HIDE DEF all
  <2>3. Len(all) \in Nat /\ first \in 1..(Len(all) + 1) /\ first \in Nat
    <3>1. Len(all) \in Nat /\ Window \in Nat
      BY <2>1, ConstantsAssumption
    <3> QED
      BY <3>1
  <2> HIDE DEF first
  <2>4. /\ Len(History(s)) = Len(all) - first + 1
        /\ \A k \in 1..Len(History(s)) : History(s)[k] = all[first + k - 1]
    BY <2>1, <2>2, <2>3
  <2>5. /\ first + i - 1 \in 1..Len(all) /\ first + j - 1 \in 1..Len(all)
        /\ i \in Nat /\ j \in Nat
    BY <2>3, <2>4
  <2> DEFINE a == first + i - 1
             b == first + j - 1
  <2>6. all[a] \in msgs /\ all[b] \in msgs /\ History(s)[i] = all[a] /\ History(s)[j] = all[b]
    BY <2>1, <2>4, <2>5
  <2>7. all[a].created < all[b].created
    <3>1. QuestionOlder
      BY QuestionIsOlder DEF TInv
    <3> HIDE DEF a, b
    <3> QED
      BY <2>6, <3>1 DEF QuestionOlder
  <2>8. a < b
    BY <2>1, <2>5, <2>7 DEF Before
  <2> QED
    BY <2>3, <2>5, <2>8
<1> QED
  BY <1>1, TimesInductive, PTL

-----------------------------------------------------------------------------
(* The refinement of ChatLog *)

\* The log and the home of the refinement mapping.
LogOf == [t \in Turns |->
            IF HasRow(t, "user")
            THEN IF HasRow(t, "assistant") THEN "answered" ELSE "asked"
            ELSE IF HasRow(t, "assistant") THEN "answer alone" ELSE "none"]
HomeOf == [t \in Turns |-> IF HasRow(t, "user") \/ HasRow(t, "assistant")
                            THEN turn[t].session ELSE None]

\* A step that inserts and removes no row is a stuttering step of the log.
LEMMA LogStutters ==
  ASSUME IInv, UNCHANGED <<live, msgs>>,
         \A t \in Turns : Asked(t) \/ Answered(t) => turn'[t].session = turn[t].session
  PROVE  UNCHANGED Log!logVars
<1>1. \A t \in Turns, role \in Roles : HasRow(t, role)' <=> HasRow(t, role)
  BY DEF HasRow
<1>2. LogOf' = LogOf
  BY <1>1 DEF LogOf, Roles
<1>3. HomeOf' = HomeOf
  BY <1>1 DEF HomeOf, Roles, Asked, Answered
<1> QED
  BY <1>2, <1>3 DEF Log!logVars, LogOf, HomeOf

\* A commit writes the question, the answer to it, or both, to an open session.
LEMMA LogWrites ==
  ASSUME IInv, NEW t \in Turns, Commit(t),
         turn[t].pc \in {"flushed", "closing", "opening", "storing", "leaving"},
         turn[t].session \in live, turn[t].pending # {},
         \A u \in Turns : turn'[u].session = turn[u].session
  PROVE  Log!LogNext
<1> DEFINE p == turn[t]
           s == p.session
<1>1. p \in Turn /\ TurnOK(t) /\ s \in Sessions /\ s \in live
  BY DEF IInv, TypeOK, TurnsOK
<1>2. \A u \in Turns, role \in Roles :
        HasRow(u, role)' <=> HasRow(u, role) \/ (u = t /\ role \in p.pending)
  BY CommitRows
<1>3. PICK to \in {"asked", "answered"} :
        /\ \/ ~Asked(t) /\ ~Answered(t)
           \/ Asked(t) /\ ~Answered(t) /\ to = "answered"
        /\ HasRow(t, "user")'
        /\ HasRow(t, "assistant")' <=> to = "answered"
  <2>1. ~Answered(t)
    BY <1>1 DEF TurnOK, MustNotBeStored
  <2>2. p.pending \subseteq Roles
    BY <1>1 DEF Turn
  <2>3. CASE "user" \in p.pending
    <3>1. ~Asked(t)
      BY <1>1, <2>3 DEF TurnOK
    <3>2. HasRow(t, "user")' /\ (HasRow(t, "assistant")' <=> "assistant" \in p.pending)
      BY <1>2, <2>1, <2>3 DEF Answered, Roles
    <3> QED
      BY <2>1, <3>1, <3>2
  <2>4. CASE "user" \notin p.pending
    <3>1. p.pc = "storing" /\ "assistant" \in p.pending
      BY <1>1, <2>2, <2>4 DEF TurnOK, RecordOK, PendingAt, LastAt, QuestionPending, Roles
    <3>2. Asked(t)
      BY <1>1, <2>4, <3>1 DEF TurnOK
    <3>3. HasRow(t, "user")' /\ HasRow(t, "assistant")'
      BY <1>2, <3>1, <3>2 DEF Asked, Roles
    <3> QED
      BY <2>1, <3>2, <3>3
  <2> QED
    BY <2>3, <2>4
<1>4. \A u \in Turns \ {t}, role \in Roles : HasRow(u, role)' <=> HasRow(u, role)
  BY <1>2
<1>5. LogOf' = [LogOf EXCEPT ![t] = to]
  BY <1>3, <1>4 DEF LogOf, Roles
<1>6. HomeOf' = [HomeOf EXCEPT ![t] = s]
  BY <1>3, <1>4 DEF HomeOf, Roles
<1>7. \/ LogOf[t] = "none"
      \/ LogOf[t] = "asked" /\ HomeOf[t] = s /\ to = "answered"
  BY <1>3 DEF LogOf, HomeOf, Asked, Answered
<1>8. live' = live /\ s \notin Sessions \ live
  BY <1>1 DEF Commit
<1> HIDE DEF s, p
<1>9. Log!Write(t, s, to)
  BY <1>5, <1>6, <1>7, <1>8 DEF Log!Write, LogOf, HomeOf
<1> QED
  BY <1>1, <1>9 DEF Log!LogNext

\* The deletion of a session closes it: its rows, and no others, go.
LEMMA LogCloses ==
  ASSUME IInv, NEW s \in Sessions, DeleteSession(s)
  PROVE  Log!LogNext
<1>1. /\ live' = live \ {s} /\ turn' = turn
      /\ msgs' = {m \in msgs : m.session # s}
  BY DEF DeleteSession, Cascaded
<1>2. \A m \in msgs : m.session = turn[m.turn].session
  BY DEF IInv, RowsOK, RowOK
<1>3. \A t \in Turns, role \in Roles :
        HasRow(t, role)' <=> HasRow(t, role) /\ turn[t].session # s
  BY <1>1, <1>2 DEF HasRow
<1>4. s # None
  BY ConstantsAssumption DEF ConstantsAssumption
<1>5. \A t \in Turns : HomeOf[t] = s <=> (Asked(t) \/ Answered(t)) /\ turn[t].session = s
  BY <1>4 DEF HomeOf, Asked, Answered
<1>6. LogOf' = [t \in Turns |-> IF HomeOf[t] = s THEN "none" ELSE LogOf[t]]
  BY <1>3, <1>5 DEF LogOf, Roles, Asked, Answered
<1>7. HomeOf' = [t \in Turns |-> IF HomeOf[t] = s THEN None ELSE HomeOf[t]]
  BY <1>1, <1>3, <1>5 DEF HomeOf, Roles, Asked, Answered
<1>8. (Sessions \ live)' = (Sessions \ live) \cup {s}
  BY <1>1
<1>9. Log!Close(s)
  BY <1>6, <1>7, <1>8 DEF Log!Close, LogOf, HomeOf
<1> QED
  BY <1>9 DEF Log!LogNext

\* Every step writes to the log, closes a session, or leaves the log as it was.
LEMMA LogStep == IInv /\ [Next]_vars => [Log!LogNext]_(Log!logVars)
<1> SUFFICES ASSUME IInv, [Next]_vars PROVE [Log!LogNext]_(Log!logVars)
  OBVIOUS
<1>0. /\ turn \in [Turns -> Turn]
      /\ \A t \in Turns : TurnOK(t) /\ turn[t].pending \subseteq Roles
  BY DEF IInv, TypeOK, TurnsOK, Turn
<1>1. ASSUME UNCHANGED <<live, msgs>>, \A t \in Turns : turn'[t].session = turn[t].session
      PROVE  UNCHANGED Log!logVars
  BY <1>1, LogStutters
<1>2. ASSUME NEW t \in Turns, TurnStep(t) PROVE [Log!LogNext]_(Log!logVars)
  <2>1. CASE Open(t)
    <3>1. ~Asked(t) /\ ~Answered(t)
      BY <1>0, <2>1 DEF Open, TurnOK, MustNotBeStored
    <3>2. UNCHANGED <<live, msgs>> /\ \A u \in Turns \ {t} : turn'[u] = turn[u]
      BY <1>0, <2>1 DEF Open
    <3> QED
      BY <3>1, <3>2, LogStutters
  <2>2. CASE ~Open(t)
    <3>1. \A u \in Turns : turn'[u].session = turn[u].session
      BY <1>2, <2>2, KeepsTurn DEF IInv, SameTurn
    <3>2. CASE NoRows
      BY <1>1, <3>1, <3>2 DEF NoRows
    <3>3. CASE ~NoRows
      <4>1. Commit(t) /\ turn[t].pc \in {"flushed", "closing", "opening", "storing", "leaving"}
        BY <1>2, <2>2, <3>3
           DEF TurnStep, PrepareFails, Prepared, Generate, GenerateFails, CommitTurn, Reply,
               CommitQuestion, QuestionRefused, Delta, StreamEnds, StreamFails, StreamBreaks, Store,
         StoreRefused,
               Report, Disconnect, Leave
      <4>2. turn[t].session \in live
        <5>1. CASE turn[t].pc \in {"flushed", "closing"}
          BY <1>0, <5>1 DEF TurnOK
        <5>2. CASE turn[t].pc \in {"opening", "storing", "leaving"}
          BY <1>2, <2>2, <3>3, <5>2
             DEF TurnStep, PrepareFails, Prepared, Generate, GenerateFails, CommitTurn, Reply,
                 CommitQuestion, QuestionRefused, Delta, StreamEnds, StreamFails, StreamBreaks, Store,
                 StoreRefused, Report, Disconnect, Leave, Insertable
        <5> QED
          BY <4>1, <5>1, <5>2
      <4>3. turn[t].pending # {}
        <5>1. CASE turn[t].pc = "leaving"
          BY <1>2, <2>2, <3>3, <5>1
             DEF TurnStep, PrepareFails, Prepared, Generate, GenerateFails, CommitTurn, Reply,
                 CommitQuestion, QuestionRefused, Delta, StreamEnds, StreamFails, StreamBreaks, Store,
                 StoreRefused, Report, Disconnect, Leave, Inserted
        <5>2. CASE turn[t].pc # "leaving"
          BY <1>0, <4>1, <5>2 DEF TurnOK, RecordOK, PendingAt, LastAt, Roles
        <5> QED
          BY <5>1, <5>2
      <4> QED
        BY <3>1, <4>1, <4>2, <4>3, LogWrites
    <3> QED
      BY <3>2, <3>3
  <2> QED
    BY <2>1, <2>2
<1>3. CASE Crash
  <2>1. \A t \in Turns : turn'[t].session = turn[t].session
    BY <1>0, <1>3 DEF Crash, Turn
  <2> QED
    BY <1>1, <1>3, <2>1 DEF Crash, NoRows
<1>4. ASSUME NEW s \in Sessions, DeleteSession(s) PROVE Log!LogNext
  BY <1>4, LogCloses
<1>5. CASE UNCHANGED vars
  BY <1>1, <1>5 DEF vars
<1> QED
  BY <1>2, <1>3, <1>4, <1>5 DEF Next

\* Whatever order the commits of concurrent turns, crashes and deletions come in, a
\* session is an append-only log of questions and their answers until it is closed.
THEOREM ImplementsChatLog == Spec => RefinesChatLog
<1>1. Init => Log!LogInit
  BY DEF Init, Log!LogInit, HasRow
<1> QED
  BY <1>1, TurnsInductive, LogStep, PTL DEF Spec, RefinesChatLog, Log!LogSpec
=============================================================================

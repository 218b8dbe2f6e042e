----------------------------- MODULE RecorderTurns -----------------------------
(***************************************************************************)
(* integrations/livekit.py, the state VaaniLiveKitRecorder keeps about the *)
(* turns of a call, and what its helpers do to it: the spans of a turn,    *)
(* the tts_node streams rendering its reply, the end of a turn, and the    *)
(* binding of a reply to the turn it answers.                              *)
(*                                                                         *)
(* The recorder is one record: every handler runs on LiveKit's loop without *)
(* awaiting, so a handler is a function from one recorder to the next.     *)
(* A turn is its place in _all_turns, which is also its seq.  _turns (by   *)
(* speech id) is turnOf; the streams _unpinned_streams keeps waiting are   *)
(* the named ones without an owner.  Audio is counted in frames.  Names,   *)
(* times, texts and provider identities are left out.                      *)
(***************************************************************************)
EXTENDS Naturals, Sequences, FiniteSets, FiniteSetsExt

CONSTANTS Speech,     \* ids of LiveKit speech handles
          Stream,     \* invocations of tts_node
          NoSpeech,
          MaxFrames,  \* bound of the model: frames the agent renders
          Tolerance,  \* _PLAYOUT_TOLERANCE_MS, in frames
          TailCap     \* _TAIL_WRITE_OFF_CAP_MS, in frames

ASSUME TurnsAssumption ==
  /\ NoSpeech \notin Speech
  /\ IsFiniteSet(Stream)
  /\ MaxFrames \in Nat /\ Tolerance \in Nat /\ TailCap \in Nat

NoTurn == 0

FreshTurn ==
  [stt |-> "none", words |-> 0,
   wordsOut |-> 0,        \* final transcripts in the span when it was written
   llm |-> FALSE,         \* some llm span was recorded
   tts |-> "none", audio |-> 0, unscoped |-> 0,
   played |-> 0, unscopedThen |-> 0, snapshot |-> FALSE,  \* at publication
   open |-> 0,            \* open_streams
   source |-> "none",     \* reply_source
   handle |-> NoSpeech,   \* speech_handle
   toolOwed |-> FALSE,    \* awaiting_tool_reply
   committed |-> FALSE,   \* user_committed
   complete |-> FALSE,    \* reply_complete
   awaitClose |-> FALSE,  \* awaiting_stream_close
   awaitItem |-> FALSE,   \* awaiting_reply_item
   finished |-> FALSE, finishedAt |-> 0]

\* status is unused, open or closed; held is what it rendered before its owner
\* was known.
FreshStream == [status |-> "unused", sid |-> NoSpeech, owner |-> NoTurn, held |-> 0]

Uncontested == [carry |-> NoTurn, owed |-> "no"]

FreshRecorder ==
  [turns |-> <<>>,
   turnOf |-> [s \in Speech |-> NoTurn],
   streams |-> [st \in Stream |-> FreshStream],
   contested |-> [s \in Speech |-> Uncontested],  \* _contested_pending
   pending |-> NoTurn, collecting |-> NoTurn, preemptive |-> NoTurn,
   current |-> NoTurn, speaking |-> NoTurn, retired |-> NoTurn,
   utterance |-> "silent",                        \* _pending_stt
   inferred |-> FALSE]                            \* _stream_ownership_inferred

-------------------------------------------------------------------------------
(* Turns and their spans *)

AddTurn(r) == [r EXCEPT !.turns = Append(@, FreshTurn)]

Newest(r) == Len(r.turns)

\* A span is written once, with what it holds at that moment.
EndStt(turn) ==
  IF turn.stt = "open" THEN [turn EXCEPT !.stt = "ended", !.wordsOut = turn.words]
  ELSE turn

\* Audio above the tolerance is a reply even if nothing reported it.
EndTts(turn) ==
  LET derived == turn.tts = "none" /\ turn.audio > Tolerance
  IN  IF turn.tts = "open" \/ derived
      THEN [turn EXCEPT !.tts = "ended", !.played = turn.audio,
                        !.unscopedThen = turn.unscoped, !.snapshot = TRUE]
      ELSE turn

FinishTurn(r, t) ==
  IF r.turns[t].finished THEN r
  ELSE [r EXCEPT !.turns[t] = [EndTts(EndStt(@)) EXCEPT !.finished = TRUE,
                                                        !.finishedAt = Newest(r)],
                 !.current = IF @ = t THEN NoTurn ELSE @]

\* Bug: the turn waits for its streams whether or not it has any.
RetireReplyAlways(r, keep) ==
  LET t == r.speaking
      turn == r.turns[t]
      held == [r EXCEPT !.retired = t, !.turns[t].awaitClose = TRUE]
  IN  IF t \in {NoTurn, keep} \/ turn.finished THEN r
      ELSE IF turn.audio > 0 /\ ~turn.complete
      THEN [held EXCEPT !.turns[t].awaitItem = TRUE]
      ELSE held

\* The reply that was being spoken is superseded: it ends now, or when its
\* streams have closed, or when its text has come.
RetireReply(r, keep) ==
  LET t == r.speaking
      turn == r.turns[t]
      held == [r EXCEPT !.retired = t, !.turns[t].awaitClose = @ \/ turn.open > 0]
  IN  IF t \in {NoTurn, keep} \/ turn.finished THEN r
      ELSE IF turn.audio > 0 /\ ~turn.complete
      THEN [held EXCEPT !.turns[t].awaitItem = TRUE]
      ELSE IF turn.open > 0 THEN held
      ELSE FinishTurn(held, t)

\* The tools of a turn are never entered into _TurnState.tools, so they do not
\* count as an answer.
Unanswered(turn, allowFiller) ==
  LET fillerOnly == allowFiller /\ turn.source = "say" /\ ~turn.llm
  IN  /\ ~turn.llm /\ turn.open = 0
      /\ fillerOnly \/ (turn.tts = "none" /\ turn.audio = 0)

Empty(turn) ==
  /\ turn.stt = "none" /\ ~turn.llm /\ turn.tts = "none"
  /\ turn.audio = 0 /\ turn.open = 0

-------------------------------------------------------------------------------
(* Streams *)

Rendering(r) ==
  IF r.speaking = NoTurn \/ r.turns[r.speaking].finished THEN r.current ELSE r.speaking

\* Bug: a stream whose speech is not known yet is given to whoever speaks.
OwnerByTiming(r, st) ==
  LET sid == r.streams[st].sid
  IN  IF sid # NoSpeech /\ r.turnOf[sid] # NoTurn THEN r.turnOf[sid] ELSE Rendering(r)

\* Identity, or nothing yet; timing only for a stream that could not name its speech.
OwnerOf(r, st) ==
  LET sid == r.streams[st].sid
  IN  IF sid = NoSpeech THEN Rendering(r) ELSE r.turnOf[sid]

\* Bug: what a stream brings with it is not asked whose it is.
FlushUnmarked(r, st, t) ==
  [r EXCEPT !.streams[st].held = 0, !.turns[t].audio = @ + r.streams[st].held]

\* A turn that becomes known is credited what its stream had rendered before.
FlushStreamBuffer(r, st, t) ==
  LET stream == r.streams[st]
  IN  [r EXCEPT !.streams[st].held = 0, !.turns[t].audio = @ + stream.held,
                !.inferred = @ \/ (stream.sid = NoSpeech /\ stream.held > 0)]

\* Once; a stream that has already closed brings its audio and nothing to wait for.
PinStream(r, st, t) ==
  LET stream == r.streams[st]
      owned == [r EXCEPT !.streams[st].owner = t,
                         !.turns[t].open = IF stream.status = "open" THEN @ + 1 ELSE @]
  IN  IF stream.owner # NoTurn \/ t = NoTurn THEN r ELSE FlushStreamBuffer(owned, st, t)

WaitingFor(r, s) == {st \in Stream : r.streams[st].sid = s /\ r.streams[st].owner = NoTurn}

ResolveDeferred(r, s, t) ==
  FoldSet(LAMBDA st, q : PinStream(q, st, t), r, WaitingFor(r, s))

CloseStream(r, st) ==
  LET t == r.streams[st].owner
      q == [r EXCEPT !.streams[st].status = "closed"]
      p == [q EXCEPT !.turns[t].open = IF @ > 0 THEN @ - 1 ELSE 0]
      over == [p EXCEPT !.turns[t].awaitClose = FALSE]
  IN  IF t = NoTurn THEN q
      ELSE IF \/ p.turns[t].open > 0 \/ p.turns[t].finished
              \/ ~p.turns[t].awaitClose
      THEN p
      ELSE IF over.turns[t].awaitItem THEN over ELSE FinishTurn(over, t)

\* A frame, from a stream or from a tap without one: what no turn owns yet stays
\* with its stream, what has neither is in the call's total only.
CreditFrame(r, st) ==
  LET t == r.streams[st].owner
  IN  IF t = NoTurn THEN [r EXCEPT !.streams[st].held = @ + 1]
      ELSE [r EXCEPT !.turns[t].audio = @ + 1,
                     !.inferred = @ \/ r.streams[st].sid = NoSpeech]

CreditUnscoped(r) ==
  LET t == Rendering(r)
  IN  IF t = NoTurn THEN r
      ELSE [r EXCEPT !.turns[t].audio = @ + 1, !.turns[t].unscoped = @ + 1,
                     !.inferred = TRUE]

-------------------------------------------------------------------------------
(* Binding a reply *)

\* Bug: the turn is not told how its reply was made.
BindReplyUnlabelled(r, t, s, source) ==
  LET bound == [r EXCEPT !.pending = NoTurn, !.turnOf[s] = t, !.current = t,
                         !.turns[t].toolOwed = FALSE, !.turns[t].handle = s]
  IN  [RetireReply(ResolveDeferred(bound, s, t), t) EXCEPT !.speaking = t]

BindReply(r, t, s, source) ==
  LET bound == [r EXCEPT !.pending = NoTurn, !.turnOf[s] = t, !.current = t,
                         !.turns[t].toolOwed = FALSE, !.turns[t].handle = s,
                         !.turns[t].source = source]
  IN  [RetireReply(ResolveDeferred(bound, s, t), t) EXCEPT !.speaking = t]

BindNew(r, s, source) == BindReply(AddTurn(r), Newest(r) + 1, s, source)

\* The reply answers speech whose transcript is still to come.
BindInFlight(r, s) ==
  LET reuse == r.preemptive # NoTurn /\ Empty(r.turns[r.preemptive])
      q == IF reuse THEN r ELSE AddTurn(r)
      t == IF reuse THEN r.preemptive ELSE Newest(q)
  IN  BindReply([q EXCEPT !.preemptive = t], t, s, "generate_reply")

\* What _reply_origin may say of a contested reply, given the tool result its
\* turn was owed when it was put off.
Origins(owed) ==
  {"completed_turn", "in_flight_speech", "unknown"} \cup
    CASE owed = "no" -> {"framework_speech", "retry_speech"}
      [] owed = "owed" -> {"tool_reply"}
      [] OTHER -> {}

SettleContested(r, s, origin) ==
  LET carry == r.contested[s].carry
      q == [r EXCEPT !.contested[s] = Uncontested]
  IN  CASE q.turnOf[s] # NoTurn -> q
        [] q.turnOf[s] = NoTurn /\ origin = "completed_turn" ->
             IF Unanswered(q.turns[carry], TRUE)
             THEN BindReply(q, carry, s, "generate_reply")
             ELSE BindNew(q, s, "generate_reply")
        [] q.turnOf[s] = NoTurn /\ origin = "tool_reply" ->
             BindReply(q, carry, s, "generate_reply")
        [] q.turnOf[s] = NoTurn /\ origin \in {"framework_speech", "in_flight_speech"} ->
             BindInFlight(q, s)
        [] OTHER -> BindNew(q, s, "generate_reply")

\* Whoever asks for a speech settles it first: the recorders that may result.
SettlePending(r, s) ==
  IF s = NoSpeech \/ r.contested[s] = Uncontested THEN {r}
  ELSE {SettleContested(r, s, o) : o \in Origins(r.contested[s].owed)}
===============================================================================

---------------------------- MODULE LiveKitRecorder ----------------------------
(***************************************************************************)
(* integrations/livekit.py: one call as VaaniLiveKitRecorder hears of it.  *)
(*                                                                         *)
(* LiveKit (external) emits session events, and runs tts_node once per     *)
(* segment of a reply; how the two interleave is not specified, so every   *)
(* order is taken, except that a speech is announced once, its message is  *)
(* committed after that, and no metric names a say() before it.  A reply   *)
(* belongs to the turn of the words it answers, its audio to the turn of   *)
(* the reply, and the call says so when audio is in no published span.     *)
(*                                                                         *)
(* The handles are those of livekit-agents >= 1.2, which list the items    *)
(* of a speech.                                                            *)
(***************************************************************************)
EXTENDS RecorderTurns

CONSTANTS MaxTurns,    \* bound of the model
          MaxInputs    \* ditto: transcripts, frames, metrics, tool results, errors

Sources == {"say", "generate_reply"}
Stages == {"llm", "tts", "eou"}

ASSUME RecorderAssumption == MaxTurns \in Nat /\ MaxInputs \in Nat

VARIABLES
  rec,      \* the recorder
  total,    \* _agent_audio_bytes, in frames
  call,     \* live or over
  gap,      \* the audit reported agent audio that no span accounts for
  source,   \* history: per speech, how LiveKit announced it
  spoken,   \* history: speeches whose message was committed
  finals,   \* history: final transcripts
  rendered, \* history: per stream, its frames
  inputs

env == <<source, spoken, finals, rendered, inputs>>
vars == <<rec, total, call, gap, env>>

Init ==
  /\ rec = FreshRecorder
  /\ total = 0 /\ call = "live" /\ gap = FALSE
  /\ source = [s \in Speech |-> "none"] /\ spoken = {}
  /\ finals = 0 /\ rendered = [st \in Stream |-> 0] /\ inputs = 0

\* _guard: a handler runs while there is a call.
Becomes(r) == call = "live" /\ Len(r.turns) <= MaxTurns /\ rec' = r

Input == inputs < MaxInputs /\ inputs' = inputs + 1

-------------------------------------------------------------------------------
(* The caller *)

UserSpeaking ==
  /\ rec.utterance = "silent"
  /\ Becomes([rec EXCEPT !.utterance = "started"])
  /\ UNCHANGED <<total, call, gap, env>>

InterimTranscript ==
  /\ rec.utterance # "partial"
  /\ Becomes([rec EXCEPT !.utterance = "partial"])
  /\ UNCHANGED <<total, call, gap, env>>

\* Bug: words are added to a span that may have been written.
StillCollectingAlways(r) ==
  LET turn == r.turns[r.collecting]
  IN  /\ r.collecting # NoTurn /\ r.preemptive = NoTurn
      /\ ~turn.committed /\ turn.stt # "none" /\ Unanswered(turn, TRUE)

\* LiveKit has not ended the message, and the span with its first words is open.
StillCollecting(r) ==
  LET turn == r.turns[r.collecting]
  IN  /\ r.collecting # NoTurn /\ r.preemptive = NoTurn
      /\ ~turn.committed /\ turn.stt = "open" /\ Unanswered(turn, TRUE)

ExtendUserTurn(r) == [r EXCEPT !.turns[r.collecting].words = @ + 1, !.utterance = "silent"]

\* A reply generated ahead of these words has the turn they belong to.
OpenUserTurn(r) ==
  LET q == IF r.preemptive = NoTurn THEN AddTurn(r) ELSE r
      t == IF r.preemptive = NoTurn THEN Newest(q) ELSE r.preemptive
  IN  [q EXCEPT !.preemptive = NoTurn, !.utterance = "silent",
                !.pending = t, !.collecting = t, !.current = t,
                !.turns[t].stt = "open", !.turns[t].words = 1]

FinalTranscript ==
  /\ Input /\ finals' = finals + 1
  /\ Becomes(IF StillCollecting(rec) THEN ExtendUserTurn(rec) ELSE OpenUserTurn(rec))
  /\ UNCHANGED <<total, call, gap, source, spoken, rendered>>

\* on_user_turn_completed, or the user's message in the history.
UserCommitted ==
  \E t \in {rec.collecting, IF rec.collecting = NoTurn THEN rec.current
                            ELSE rec.collecting} \ {NoTurn} :
    /\ ~rec.turns[t].committed
    /\ Becomes([rec EXCEPT !.turns[t].committed = TRUE])
    /\ UNCHANGED <<total, call, gap, env>>

-------------------------------------------------------------------------------
(* speech_created *)

Announced(s, src) ==
  /\ source[s] = "none" /\ source' = [source EXCEPT ![s] = src]
  /\ UNCHANGED <<total, call, gap, spoken, finals, rendered, inputs>>

\* A say() is not the answer to a message still open, and a turn has one reply.
AnswersPending(src) ==
  LET turn == rec.turns[rec.pending]
  IN  /\ rec.pending # NoTurn /\ turn.source = "none"
      /\ src = "generate_reply" \/ turn.committed

Adoptable(src) ==
  /\ ~AnswersPending(src)
  /\ src = "generate_reply" /\ rec.collecting # NoTurn
  /\ rec.turns[rec.collecting].stt # "none"

\* A next caller may have begun to speak over the filler.
Contestable(src) == Adoptable(src) /\ rec.utterance = "partial"

Adopts(src) ==
  Adoptable(src) /\ Unanswered(rec.turns[rec.collecting], ~Contestable(src))

\* Bug: the streams that wait for this speech are forgotten.
KnownSpeechUnresolved(s, src) ==
  LET t == rec.turnOf[s]
      q == [rec EXCEPT !.turns[t].handle = s, !.turns[t].source = src, !.current = t]
  IN  [RetireReply(q, t) EXCEPT !.speaking = t]

\* A metric named the speech before it was announced.  Nothing names a say() before:
\* "say() emits speech_created synchronously and only then schedules its TTS task".
KnownSpeech(s, src) ==
  LET t == rec.turnOf[s]
      q == [rec EXCEPT !.turns[t].handle = s, !.turns[t].source = src, !.current = t]
  IN  [RetireReply(ResolveDeferred(q, s, t), t) EXCEPT !.speaking = t]

RegisteredSpeech(s, src) ==
  /\ rec.turnOf[s] # NoTurn /\ src = "generate_reply"
  /\ Becomes(KnownSpeech(s, src))
  /\ Announced(s, src)

AnswerPending(s, src) ==
  /\ rec.turnOf[s] = NoTurn /\ AnswersPending(src)
  /\ Becomes(BindReply(rec, rec.pending, s, src))
  /\ Announced(s, src)

AdoptCollecting(s, src) ==
  /\ rec.turnOf[s] = NoTurn /\ Adopts(src)
  /\ Becomes(BindReply(rec, rec.collecting, s, src))
  /\ Announced(s, src)

\* One iteration of the loop later the handle will tell.
DeferContested(s, src) ==
  /\ rec.turnOf[s] = NoTurn /\ Contestable(src) /\ ~Adopts(src)
  /\ \E owed \in IF rec.turns[rec.collecting].toolOwed THEN {"owed", "expired"}
                 ELSE {"no"} :
       Becomes([rec EXCEPT !.contested[s] = [carry |-> rec.collecting, owed |-> owed]])
  /\ Announced(s, src)

\* Ahead of the final transcript; also a contested reply that cannot be put off,
\* with no loop or a handle that does not report.
Preempt(s, src) ==
  /\ rec.turnOf[s] = NoTurn /\ ~AnswersPending(src) /\ ~Adopts(src)
  /\ src = "generate_reply" /\ rec.utterance # "silent"
  /\ Becomes(BindInFlight(rec, s))
  /\ Announced(s, src)

Unprompted(s, src) ==
  /\ rec.turnOf[s] = NoTurn /\ ~AnswersPending(src) /\ ~Adopts(src)
  /\ src = "say" \/ rec.utterance = "silent"
  /\ Becomes(BindNew(rec, s, src))
  /\ Announced(s, src)

LoopSlice(s) ==
  /\ rec.contested[s] # Uncontested
  /\ \E r \in SettlePending(rec, s) : Becomes(r)
  /\ UNCHANGED <<total, call, gap, env>>

-------------------------------------------------------------------------------
(* tts_node *)

\* sid is NoSpeech where livekit-agents does not expose the speech-handle context.
OpenOutputStream(st, sid) ==
  /\ rec.streams[st].status = "unused"
  /\ \E r \in SettlePending(rec, sid) :
       LET q == [r EXCEPT !.streams[st] = [@ EXCEPT !.status = "open", !.sid = sid]]
       IN  Becomes(PinStream(q, st, OwnerOf(q, st)))
  /\ UNCHANGED <<total, call, gap, env>>

\* _stream_turn(): a stream without an owner asks again.
Asked(st) ==
  {PinStream(r, st, OwnerOf(r, st)) :
     r \in IF rec.streams[st].owner = NoTurn
           THEN SettlePending(rec, rec.streams[st].sid) ELSE {rec}}

TapOutputFrame(st) ==
  /\ rec.streams[st].status = "open"
  /\ total < MaxFrames /\ total' = total + 1 /\ Input
  /\ \E r \in Asked(st) : Becomes(CreditFrame(r, st))
  /\ rendered' = [rendered EXCEPT ![st] = @ + 1]
  /\ UNCHANGED <<call, gap, source, spoken, finals>>

\* The words go where the frames go; which they are is left out.
TapOutputText(st) ==
  /\ rec.streams[st].status = "open"
  /\ \E r \in Asked(st) : Becomes(r)
  /\ UNCHANGED <<total, call, gap, env>>

TapWithoutStream ==
  /\ total < MaxFrames /\ total' = total + 1 /\ Input
  /\ Becomes(CreditUnscoped(rec))
  /\ UNCHANGED <<call, gap, source, spoken, finals, rendered>>

CloseOutputStream(st) ==
  /\ rec.streams[st].status = "open"
  /\ Becomes(CloseStream(rec, st))
  /\ UNCHANGED <<total, call, gap, env>>

-------------------------------------------------------------------------------
(* metrics_collected *)

\* A speech nobody knows takes the turn waiting for a reply, or a new one.
StateFor(r, s) ==
  IF r.turnOf[s] # NoTurn THEN [r EXCEPT !.current = r.turnOf[s]]
  ELSE LET q == IF r.pending = NoTurn THEN AddTurn(r) ELSE r
           t == IF r.pending = NoTurn THEN Newest(q) ELSE r.pending
       IN  [q EXCEPT !.pending = NoTurn, !.turnOf[s] = t, !.current = t]

\* A tts metric that comes after its span was written is only reported.
RecordMetric(r, t, stage) ==
  CASE stage = "llm" -> [r EXCEPT !.turns[t].llm = TRUE]
    [] stage = "tts" -> [r EXCEPT !.turns[t].tts = IF @ = "none" THEN "open" ELSE @]
    [] OTHER -> r

CouldEmit(turn, stage) ==
  turn.source # "none" /\ ~(stage = "llm" /\ turn.source = "say")

Claimants(r, stage) == {t \in DOMAIN r.turns : CouldEmit(r.turns[t], stage)}

\* Bug: being the only open reply is taken for proof.
UnrivalledIfAlone(r, stage) ==
  LET live == {t \in Claimants(r, stage) : ~r.turns[t].finished}
  IN  IF Cardinality(live) = 1 THEN live ELSE {}

\* The only open reply, unless another ended after it had begun.
Unrivalled(r, stage) ==
  LET live == {t \in Claimants(r, stage) : ~r.turns[t].finished}
  IN  {t \in live :
         /\ live = {t}
         /\ \A u \in Claimants(r, stage) \ live : r.turns[u].finishedAt < t}

\* Where a metric without a name may be published, if anywhere.
UnidentifiedMetricTurn(r, stage) ==
  LET trailing == {r.current} \cap Claimants(r, stage)
  IN  IF Unrivalled(r, stage) # {} THEN Unrivalled(r, stage)
      ELSE IF \A t \in Claimants(r, stage) : r.turns[t].finished THEN trailing
      ELSE {}

NamedMetric(stage, s) ==
  /\ Input
  /\ \E r \in SettlePending(rec, s) :
       LET q == StateFor(r, s)
       IN  Becomes(RecordMetric(q, q.current, stage))
  /\ UNCHANGED <<total, call, gap, source, spoken, finals, rendered>>

\* The turns whose reply may have sent it.
Producers(stage) ==
  {rec.turnOf[s] : s \in {x \in Speech :
     source[x] = "generate_reply" \/ (stage = "tts" /\ source[x] = "say")}} \ {NoTurn}

\* One that has no place is counted and reported; stt and eou metrics without a name
\* only decorate the current turn.
UnnamedMetric(stage) ==
  /\ stage # "eou"
  /\ Input
  /\ Producers(stage) # {}
  /\ IF UnidentifiedMetricTurn(rec, stage) = {}
     THEN Becomes(rec)
     ELSE \E t \in UnidentifiedMetricTurn(rec, stage) :
            Becomes(RecordMetric(rec, t, stage))
  /\ UNCHANGED <<total, call, gap, source, spoken, finals, rendered>>

-------------------------------------------------------------------------------
(* conversation_item_added, of the agent *)

\* The superseded reply, if it has sounded and its words are still to come.  A filler
\* that sounds already gives way only if the handle has not told them meanwhile.
LateItemOwners(r) ==
  LET now == r.turns[r.speaking]
      prior == r.turns[r.retired]
      superseded == r.retired \notin {NoTurn, r.speaking} /\ prior.audio > 0 /\ ~prior.complete
      fillerOverAnswer == now.source = "say" /\ prior.source = "generate_reply"
  IN  IF r.speaking = NoTurn \/ now.finished THEN {r.current}
      ELSE IF superseded /\ now.audio = 0 THEN {r.retired}
      ELSE IF superseded /\ fillerOverAnswer THEN {r.retired, r.speaking}
      ELSE {r.speaking}

\* The handle that lists the item says whose it is, while a turn still has it.
ItemOwners(r, s) ==
  LET listed == {t \in DOMAIN r.turns : r.turns[t].handle = s}
  IN  (IF listed = {} THEN LateItemOwners(r) ELSE {Min(listed)}) \ {NoTurn}

\* Whether the owner is more than a guess at whoever is current.
ResolvedExactly(r, s) ==
  \/ \E t \in DOMAIN r.turns : r.turns[t].handle = s
  \/ r.speaking # NoTurn /\ ~r.turns[r.speaking].finished

\* The item opens the spans that no metric did.
SpokenSpan(turn, exact) ==
  IF turn.tts = "none" /\ (exact \/ turn.audio > 0) THEN "open" ELSE turn.tts

LlmSpan(turn, exact, timed) ==
  \/ turn.llm
  \/ timed /\ ~turn.finished /\ (exact \/ SpokenSpan(turn, exact) # "none")

\* A turn that waited for it closes, or goes on to wait for its streams.  An item
\* without words tells of no speech that was not heard.
RecordItem(r, t, exact, timed, worded) ==
  LET turn == r.turns[t]
      q == [r EXCEPT !.turns[t] =
              [turn EXCEPT !.tts = SpokenSpan(turn, exact /\ worded),
                           !.llm = LlmSpan(turn, exact, timed), !.complete = TRUE, !.awaitItem = FALSE,
                           !.awaitClose = turn.awaitClose \/ (turn.awaitItem /\ turn.open > 0)]]
  IN  IF turn.awaitItem /\ turn.open = 0 THEN FinishTurn(q, t) ELSE q

AssistantItem(s) ==
  /\ source[s] # "none" /\ s \notin spoken /\ spoken' = spoken \cup {s}
  /\ \E worded \in BOOLEAN :
       /\ IF worded THEN UNCHANGED inputs ELSE Input
       /\ IF ItemOwners(rec, s) = {} THEN Becomes(rec)
          ELSE \E t \in ItemOwners(rec, s) :
                 Becomes(RecordItem(rec, t, ResolvedExactly(rec, s),
                                    source[s] = "generate_reply", worded))
  /\ UNCHANGED <<total, call, gap, source, finals, rendered>>

-------------------------------------------------------------------------------
(* function_tools_executed, error, and the end of the call *)

ToolsExecuted ==
  /\ rec.current # NoTurn
  /\ \E owed \in BOOLEAN :
       Becomes([rec EXCEPT !.turns[rec.current].toolOwed = owed])
  /\ Input
  /\ UNCHANGED <<total, call, gap, source, spoken, finals, rendered>>

\* The spans of the stage that failed are written at once, with the error and without
\* what was heard or played.
SessionError(stages) ==
  /\ Input
  /\ rec.current # NoTurn
  /\ LET turn == rec.turns[rec.current]
         failed(stage, span) == IF span = "open" /\ stage \in stages THEN "failed" ELSE span
     IN  Becomes([rec EXCEPT !.turns[rec.current] =
           [turn EXCEPT !.stt = failed("stt", turn.stt), !.tts = failed("tts", turn.tts)]])
  /\ UNCHANGED <<total, call, gap, source, spoken, finals, rendered>>

FinalizeOpenSpans(r) ==
  [r EXCEPT !.turns = [t \in DOMAIN r.turns |->
     LET turn == EndTts(EndStt(r.turns[t]))
     IN  IF turn.finished THEN turn
         ELSE [turn EXCEPT !.finished = TRUE, !.finishedAt = Newest(r)]]]

AtMost(n, m) == IF n < m THEN n ELSE m
Above(n, m) == IF n > m THEN n - m ELSE 0

\* Bug: what a turn was given by timing before its span excuses what came after.
ResidualLifetime(turn) ==
  IF turn.tts # "none" /\ ~turn.snapshot THEN 0
  ELSE AtMost(Above(turn.audio, turn.played), turn.unscoped)

\* The tail of a reply the caller spoke over: credited by timing after the span.
Residual(turn) ==
  IF turn.tts # "none" /\ ~turn.snapshot THEN 0
  ELSE AtMost(Above(turn.audio, turn.played), Above(turn.unscoped, turn.unscopedThen))

SumOver(r, Amount(_)) == SumFunction([t \in DOMAIN r.turns |-> Amount(r.turns[t])])

AuditCoverage(r) ==
  LET attributed == SumOver(r, LAMBDA turn : turn.played)
      tail == AtMost(SumOver(r, Residual), TailCap)
  IN  \/ Above(total, attributed + tail) > Tolerance
      \/ Above(attributed, total) > Tolerance
      \/ \E t \in DOMAIN r.turns : r.turns[t].tts = "none" /\ r.turns[t].audio > Tolerance

\* The recorder is then released: no handler reads where it was (_guard).
Finish ==
  LET q == FinalizeOpenSpans(rec)
  IN  /\ Becomes([FreshRecorder EXCEPT
               !.turns = q.turns, !.turnOf = q.turnOf, !.streams = q.streams,
               !.inferred = q.inferred])
      /\ gap' = AuditCoverage(q)
      /\ call' = "over"
      /\ UNCHANGED <<total, env>>

Next ==
  \/ UserSpeaking \/ InterimTranscript \/ FinalTranscript \/ UserCommitted
  \/ \E s \in Speech :
       \/ LoopSlice(s) \/ AssistantItem(s)
       \/ \E src \in Sources :
            \/ RegisteredSpeech(s, src) \/ AnswerPending(s, src)
            \/ AdoptCollecting(s, src) \/ DeferContested(s, src)
            \/ Preempt(s, src) \/ Unprompted(s, src)
       \/ \E stage \in Stages : NamedMetric(stage, s)
  \/ \E st \in Stream :
       \/ \E sid \in Speech \cup {NoSpeech} : OpenOutputStream(st, sid)
       \/ TapOutputFrame(st) \/ TapOutputText(st) \/ CloseOutputStream(st)
  \/ TapWithoutStream
  \/ \E stage \in Stages : UnnamedMetric(stage)
  \/ ToolsExecuted
  \/ \E stages \in {{"stt"}, {"tts"}, {"stt", "tts"}} : SessionError(stages)
  \/ Finish

Spec == Init /\ [][Next]_vars

-------------------------------------------------------------------------------
(* Properties *)

Span == {"none", "open", "ended", "failed"}

Turn == [stt : Span, words : Nat, wordsOut : Nat, llm : BOOLEAN,
         tts : Span, audio : 0..MaxFrames, unscoped : 0..MaxFrames,
         played : 0..MaxFrames, unscopedThen : 0..MaxFrames, snapshot : BOOLEAN,
         open : Nat, source : Sources \cup {"none"}, handle : Speech \cup {NoSpeech},
         toolOwed : BOOLEAN, committed : BOOLEAN, complete : BOOLEAN,
         awaitClose : BOOLEAN, awaitItem : BOOLEAN,
         finished : BOOLEAN, finishedAt : 0..MaxTurns]

\* The recorder's fields have their types, and a turn has the handle of a reply
\* exactly when it knows how that reply was made (_bind_reply).
TypeOK ==
  LET Turns == 0..Newest(rec)
  IN  /\ rec.turns \in Seq(Turn) /\ Newest(rec) <= MaxTurns
      /\ rec.turnOf \in [Speech -> Turns]
      /\ rec.streams \in [Stream -> [status : {"unused", "open", "closed"},
                                     sid : Speech \cup {NoSpeech}, owner : Turns,
                                     held : 0..MaxFrames]]
      /\ rec.contested \in [Speech -> [carry : Turns, owed : {"no", "owed", "expired"}]]
      /\ {rec.pending, rec.collecting, rec.preemptive, rec.current, rec.speaking,
          rec.retired} \subseteq Turns
      /\ rec.utterance \in {"silent", "started", "partial"} /\ rec.inferred \in BOOLEAN
      /\ total \in 0..MaxFrames /\ rendered \in [Stream -> 0..MaxFrames] /\ call \in {"live", "over"} /\ gap \in BOOLEAN
      /\ \A t \in DOMAIN rec.turns :
           (rec.turns[t].handle = NoSpeech) <=> (rec.turns[t].source = "none")

\* A stream that named its speech has never been credited to another reply's turn,
\* whatever was speaking when its frames came (_stream_turn, _pin_stream).
StreamsFollowIdentity ==
  \A st \in Stream :
    LET stream == rec.streams[st]
    IN  stream.sid # NoSpeech /\ stream.owner # NoTurn => stream.owner = rec.turnOf[stream.sid]

\* While the call lasts, no stream waits once its speech has been announced and given
\* its turn: its audio is on the turn even if it had been rendered before
\* (_resolve_deferred_streams).
NothingWaitsForABoundSpeech ==
  \A st \in Stream :
    LET s == rec.streams[st].sid
    IN  call = "live" /\ s # NoSpeech /\ rec.streams[st].owner = NoTurn =>
          source[s] = "none" \/ rec.contested[s] # Uncontested

\* A turn counts the streams still rendering for it, and one kept open for its
\* streams has one: its end is never waited for in vain (close_output_stream).
HeldTurnsHaveStreams ==
  \A t \in DOMAIN rec.turns :
    /\ rec.turns[t].open =
         Cardinality({st \in Stream : rec.streams[st].owner = t /\ rec.streams[st].status = "open"})
    /\ rec.turns[t].awaitClose /\ ~rec.turns[t].finished => rec.turns[t].open > 0

\* The manifest calls the ownership of streams inferred exactly when a turn was given
\* audio that did not name its speech, by whatever route: "attribution that happened
\* rather than attribution that might" (_mark_ownership_inferred).
OwnershipIsTold ==
  LET Named(t) == {st \in Stream : rec.streams[st].sid # NoSpeech /\ rec.streams[st].owner = t}
      ByName(t) == SumFunctionOnSet(rendered, Named(t))
  IN  rec.inferred <=> \E t \in DOMAIN rec.turns : rec.turns[t].audio > ByName(t)

\* A metric that names no speech goes to an open reply only if it is that reply's, or
\* of one that had ended before that reply began (_unidentified_metric_turn).
UnnamedMetricsKeepToTheirReply ==
  \A stage \in {"llm", "tts"} :
    \A from \in Producers(stage), to \in UnidentifiedMetricTurn(rec, stage) :
      ~rec.turns[to].finished =>
        from = to \/ (rec.turns[from].finished /\ rec.turns[from].finishedAt < to)

\* Every final transcript is in a span when it is written, unless that is written by
\* an error: none is added to a span already written, none is left behind at the end
\* of the call (_close_user_turn, finalize_open_spans).
WordsReachTheirSpan ==
  /\ SumOver(rec, LAMBDA turn : turn.words) = finals
  /\ \A t \in DOMAIN rec.turns :
       rec.turns[t].stt = "ended" \/ (call = "over" /\ rec.turns[t].stt # "failed") =>
         rec.turns[t].wordsOut = rec.turns[t].words

\* The same, whatever closes the span: once it is closed, the words it was given are
\* published (_close_user_turn).
ClosedMeansPublished ==
  \A t \in DOMAIN rec.turns :
    rec.turns[t].stt \in {"ended", "failed"} => rec.turns[t].wordsOut = rec.turns[t].words

\* Frames of streams that no published span contains: rendered after their turn's span
\* was written, or into a span an error wrote, or for a speech never announced.
UnpublishedFrames ==
  SumOver(rec, LAMBDA turn :
    Above(turn.audio - turn.unscoped,
          IF turn.snapshot THEN turn.played - turn.unscopedThen ELSE 0))
  + SumFunction([st \in Stream |-> rec.streams[st].held])

\* More of them than the tolerance is never passed over: frames placed by timing
\* excuse themselves and no others (_audit_coverage).
ProvedLossIsReported ==
  call = "over" /\ UnpublishedFrames > Tolerance => gap

\* A turn is closed when its reply is superseded or the call ends, never while its
\* reply is the one being spoken (_on_conversation_item, _retire_reply).
OnlyTheSupersededClose ==
  [][\A t \in DOMAIN rec.turns :
       ~rec.turns[t].finished /\ rec'.turns[t].finished =>
         t # rec'.speaking \/ call' = "over"]_vars
===============================================================================

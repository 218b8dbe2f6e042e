# A verification project for vaani-observer

TLA+ models of the recorder behind `vaani_observer`, model-checked with TLC on
small instances, with theorems about the writer, the session, the drain, the upload,
patches, sockets and HTTP calls, the recorder of a LiveKit call with its wiring, the
rendering of the audio and the bound of a captured request, proved by TLAPS for every
instance. Paths such as `session.py` stand for
`src/vaani_observer/session.py` of the repository.

The SDK records a voice call (events, two audio tracks) beside the agent that
serves it, without ever slowing it down, and ships the finished recording to a
backend. Its promise to the team is about *evidence*: a package that says it is
complete is complete, and a call once recorded is not lost.

## 1. The system

| component | state | operations | talks to |
|---|---|---|---|
| **Spool writer** `_writer.py` | `_accepting` under `_lock`, bounded `_queue`, thread, handles per file, `ready_error`, `first_error` | `submit`, `close`, `wait_ready`; the thread's `_run`, `_append`, `_fail`; an atexit hook | calls back `on_drop` (caller's thread, lock held) and `on_error` (its own thread) |
| **Session** `session.py` | `_lock`, `_ended`, `_ending`, `_open_sockets`, `_deferred`, `_completion`, loss counts, tracks | `start_operation`, `record_*`, `defer_capture`, `register_socket`/`forget_socket`, `end`, `finished`, `degrade_audio`, `report_coverage_gap` | owns one writer; `end()` drives sockets, captures, writer, audio, manifest |
| **Audio** `_audio.py` | none (pure) | `compose_stereo`, `_fit`, `_resample` | called by `end()` in a thread |
| **Observer** `observer.py` | sessions not yet finished | `start_session`, `flush`, `preflight`, `classify_url`, `upload_package_sync` with `_send` | backend over HTTP |
| **Spool and drain** `drain.py`, `_spool.py` | only files: packages, `uploaded.json`, `.vaani-destinations` | scan, endpoint guard, purge, ship, acknowledge; one-shot or `--watch` | the directories the sessions write; the backend |
| **WebSockets** `websocket.py` | per handle `_closed`, counters, wrapped methods; process-wide patch count | wrap, `close`, `detach`, `_finish`, acquire/release patches | `Session.register_socket`, operations |
| **HTTP instrumentation** `instrumentation.py` | patch count; per request an operation and a body capture | patch/unpatch httpx and aiohttp, `_begin`, `_finish_*` | operations, `defer_capture` |
| **LiveKit recorder** `integrations/livekit.py` | attached session and handlers, turns, speech-to-turn bindings, output streams, pending metrics, audit | `attach`, `finish`, about twenty event handlers, audio taps | session, observer, spool ledger |
| **Payload, context, diagnostics** | a context variable; a set of warned keys | bounding of JSON, nested scopes, warn once | everybody |

What is hard here, and where:

* *Two thread locks and a loop.* `SpoolWriter.submit` calls `on_drop` under the
  writer's lock and `on_drop` takes the session's; `close` blocks in a `put` under
  the writer's lock until the thread makes room; the thread's `on_error` takes the
  session's lock; and `end()` takes the session's lock on the loop.
* *Checks without the lock.* `_ended` is read by every recording path outside the
  lock, and the writer may be closed before the submit.
* *Finalization in steps.* `end()` awaits captures, sockets, the writer, the
  audio and the manifest; it may be called twice, cancelled anywhere, and race
  other threads all along.
* *A spool without locks.* Worker and drainers share directories. Every file
  operation is a step, any process may be killed between two, and each process
  is pointed at an endpoint of its own, which may be mistyped and answer 2xx.
* *A network that repeats itself.* A request the client gave up may still arrive, in a
  later leg or a later upload, with the encoding and the claims it was sent with; all
  attempts of all requests share one deadline.
* *Patches on what is not ours.* Several observers patch one process's clients, several
  observations wrap one socket in place, several recorders wrap one agent and one
  session, and each must find its way out however the others came and went.
* *Late and contested events* in the LiveKit recorder: metrics, transcripts, frames
  and closings of a reply arrive in any order, also after the next has begun.

Correctness, per component:

* writer: nothing accepted is stranded or reordered; every write is in its file,
  or reported lost exactly once; after `close()` nothing changes any more; every
  call returns.
* session: the manifest's counts are final; a manifest without losses is the
  truth; a strict session publishes no loss; no socket stays open; one package
  per session; `end()` returns.
* spool and drain: no call is lost; receipts are evidence; audio goes only to known
  hosts; every call is delivered in the end.
* sockets and HTTP: one span per socket or request however it ends; patches are
  restored by the last user and never stacked.
* LiveKit: every event lands on the turn of its speech; every turn is finished once
  and not before its own audio; what could not be attributed shows in the audit;
  handlers exist exactly while a call is attached, and a call is certified only if
  every agent in charge of it could be heard.
* upload: it ends, in time; nothing is answered as delivered that the backend has not
  completed whole; a backend is never left with what it cannot read.
* payload: what is captured of a request fits, and is the newest of it.
* audio: a track in its slot keeps its length, order and place.

`PROJECT.json` lists the components with their status, and the hazards with the
line where each bites and the properties that cover it.

## 2. The modules

`SpoolLog` is abstract. `SpoolWriter` implements it. `Session` composes the writer
with the session. `SpoolDrain` takes over where `end()` has published a package.
`Upload` is one of its uploads in full, `UploadPromise` what `SpoolDrain` may rely on.
`LiveKitRecorder`, over the operators of `RecorderTurns`, decides what the session
is given to write: which turn each span of a call belongs to and when it ends;
`RecorderWiring` is how several recorders come to hear of their calls at all.
`Instrumentation` composes `Patches`, which every observer holds, with the sockets
(`SocketObservation`) and the HTTP calls (`HttpCapture`) of their sessions.
`AudioTrack` and `Payload` are what `end()` and the HTTP capture compute.

Each module has a type invariant (`TypeOK`); those of the modules with proofs are
theorems.

### SpoolLog

What a session needs of its writer and nothing else: writes numbered in the order
they were handed over, each of which settles once as landed, lost or skipped; files
that only grow, in that order; and a `finished` after which nothing changes.
`SpoolWriter` states that it implements it (`ImplementsSpoolLog`), as a temporal
property under a refinement mapping: what waits in the log is the write in hand and
those in the queue, and what it delivered is a file without the writes that had been
reported lost when a later flush brought them in (`Delivered`). Its safety part,
`Safety`, is proved of the writer, and its liveness is model-checked.

### SpoolWriter (`_writer.py`)

| code | model |
|---|---|
| `submit()` | `Accept`, `Overflow` then `ReportDrop`, `Refuse`. The code does not block between its test and `put_nowait`, so acceptance is one step; `on_drop` takes other locks, so a drop is two with the lock kept. |
| `close()` | `StopAccepting`, `PutStop` (blocking, lock kept), `Join` (gives up only with a timeout) |
| the atexit hook | a thread in `Timed`: it closes with a timeout and never submits |
| `_run()`, `_append()`, `_fail()` | `MakeDirs`, `Get`, `AppendSkipped`, `AppendDone`, `AppendFails` then `Fail`, `CloseHandles` |

`kept` is what a failed flush leaves in a handle's buffer: it lands with the next
flush of that file, or with `handle.close()`, or not at all.

### Session (`session.py`)

The module instantiates `SpoolWriter` and takes its actions into its own, so that
the two locks meet as they do in the code. `running` is the task that keeps the
loop: an `async` function that has not reached an `await` yet excludes every other
task, but no thread. `lock` is `Session._lock` where it is held across a step.

| code | model |
|---|---|
| `_write_event()`, `record_websocket_event()`, `Operation.end()` | `Record` (looks at `_ended`), later `Submit`, `Drop` |
| `register_socket()`, `WebSocketHandle._finish()`, `forget_socket()` | `Attach`, `Finish`, `Forget` |
| `defer_capture()` | `Defer`, `Captured` |
| `on_error`, and the writer's thread in general | `WriterRuns` |
| `end()`, in order | `End`, `Gathered`, `MarkEnding`, `Detach`, `SetEnded`, `Close`, `WriterDone`, `Composed` or `Fails`, `Publish`, `Resolve`, `Return` |
| cancellation of `end()` or of another waiter | `Cancel`, `CancelWaiter` |

A call of `to_thread()` that has begun goes on after its awaiter was cancelled, and
one that has not begun may never run: `Close` and `Publish` say so.

### SpoolDrain (`drain.py`, `_spool.py`, `upload_package_sync`, the end of `finish()`)

A package is a number (the order of `started_at`), its files a set. Processes are
workers, which record one package, ship it and leave a receipt, and drainers.

| code | model |
|---|---|
| `finish()`: end, upload, `_mark_delivered()` | `Publish`, then the actions of an upload |
| `_scan()` | `Look`, one directory at a time |
| `_endpoint_change()` and the guard in `drain_spool()` | `Changed`, `Guard` |
| `_purge_delivered()` | `Purge`, `Unlink`, `Unlinked`, `Purged` |
| the loop of `drain_spool()`, `main()` with `--watch` | `Pick`, `Begin` |
| `upload_package_sync()` | `Put` per object, `Complete` (whose answer may be lost), `UploadFails` |
| `_acknowledge()`, `remember_destination()` | `Acknowledge`, `WriteReceipt` or `Unlink`..., `Remember` |
| kill and supervisor | `Crash` |

The backend is external, modelled by its interface alone: an endpoint in `Stores`
keeps what a completed upload named; any other answers 2xx and keeps nothing.

### UploadPromise, Upload (`observer.py`)

`UploadPromise` says what a worker or a drain may assume: an answer means the backend
has completed the session with everything the package holds; an upload that raised may
have been taken all the same; and nothing ever completes the session with less.
`Upload` is the code, and states that it implements the promise
(`ImplementsUploadPromise`).

| code | model |
|---|---|
| `upload_package_sync()`: create, put each object, complete | `leg`, `Start`, `Skip` (not on disk), `NoUrl`, `NextLeg`, `Refuse` |
| `_encode_object()`: gzip if it pays, the budget allows it and the backend decodes it | `MayPack`, `Encode` |
| `_send()`: attempts, status classes, deadline | `OutOfBudget`, `Send`, `Succeed`, `Refuse` (a status that is not retried), `Fault`, `NextAttempt`, `Pause` |
| `_request_timeout()` | `PerRequest`, `Timeout` |
| the network and the backend (external) | `Handle`, `Verifies`, `Arrive` (a request the client has given up), `Again` (the package is shipped once more) |

Time is whole units of the throughput floor: a body of size `s` takes `s` of them.
An answer may trickle past its timeout, since `urlopen` limits each read and not the
whole; `overran` remembers it.

### Patches, SocketObservation, HttpCapture, Instrumentation

| code | model |
|---|---|
| `_acquire_patches`, `_release_patches` of `websocket.py` and `instrumentation.py` | `Acquire`, `Release`; `Install`, `Uninstall` in the order `VaaniObserver` uses |
| `observe_websocket()`, the patched `ws_connect` | `Observe`; `Connect`, later `Connected` |
| `WebSocketHandle._wrap`, `_install`, `_mark_observed` | `Attach`, `InstallOn`; `Wrappable`, `Through` |
| `detach` | `Unwrapped`, `Detach`, `AppDetaches` |
| `_finish()`, its tests and its writes apart | `finishing`, `Finish`, for the socket's thread and the one of `end()` |
| `record_error`, the wrapped `close` | `FrameFails`, `Close` |
| `register_socket()`, `end()` as far as sockets go | `Register`, `MarkEnding`, `EndDetaches`, `SetEnded` |
| the patched `send` of httpx and `_request` of aiohttp, `_begin`, `_finish_*` | `Send`, `Raises`, `Answered`, `BodyRead`, `Conclude` |

A socket's wrappers are attributes of the instance: `chain` lists the observations a
frame runs through. `layers` counts how often a client is wrapped. Not every socket can
be wrapped in full. One that refuses attributes (`Slotted`) is observed without
wrappers, and is marked in a weak set instead, unless no weak reference to it can be
made either (`Unlisted`); a receive that is no coroutine function stays as it is while
the sends are wrapped (`Uncounted`). Their frames pass a live observation uncounted
unless the caller records them itself, so `FramesCountedOnce` denies that for what is
`Wrappable` only. The half of it that forbids counting twice is about every socket.

### AudioTrack (`session.py` `_record_audio`, `_audio.py`)

A byte is the chunk it came in and its place there, so that what sounds at a frame of
the recording can be compared with what was recorded for that instant.
`Record` is `_record_audio()` with its two writes, of which a full queue may drop
either; `Decode`, `Resample`, `RenderEvent`, `Render`, `Fit`, `Compose` are the helpers
of `compose_stereo()`. Rates are in hertz, and need not be whole samples to a
millisecond. Time is counted in ticks, so many to a millisecond that every chunk lasts a
whole number of them; a caller may give a time of its own (`Stamps`). All roundings of
the code are there, halves to the even one: of a time to milliseconds
(`_audio_events()`), of milliseconds to frames (`FrameAt`), of a resampled length.

Two chunks that follow each other may therefore overlap, and `RepliesLaidEndToEnd` says
by how much at most: `1000 * Lost <= OutRate + 1500`, which is a millisecond and a frame
and a half. The bound was found in three steps. Half a millisecond agreed with runs of
small chunks, and its proof did not go through: a millisecond of audio due at 1.5 is put
at 2, and what follows it at 2.5 is put at 2 as well. A whole millisecond is the bound
where every rate is a whole number of samples to a millisecond, as an earlier version of
the module had it. At 22050 Hz the second rounding counts too: a chunk of 430 samples
received at 10 ms, then one of 463 and a third lose 23 frames of the second, 1.043 ms.

### Payload (`_payload.py`)

`bounded_text()` of a chat body by sizes: `Consider` and `Kept` (from the newest
message back), `Shorten` with `LongestRoom` (the binary search), `Prefix`
(the preview). `BoundedText` has the branches of `bounded_chat_body()` in their order.

### RecorderTurns, LiveKitRecorder (`integrations/livekit.py`)

Every handler of the recorder runs on LiveKit's loop without awaiting, so the whole
recorder is one record, `rec`, and what a handler does is an operator from one
recorder to the next. `RecorderTurns` has the state and the helpers that many
handlers share; `LiveKitRecorder` has one action per event. A turn is its place in
`_all_turns` (which is its `seq`), audio is counted in frames.

| code | model |
|---|---|
| `_TurnState`, `_OutputStream`, the fields of the recorder | `FreshTurn`, `FreshStream`, `FreshRecorder` |
| `_end_stt`, `_end_tts`, `_finish_turn`, `_retire_reply` | `EndStt`, `EndTts`, `FinishTurn`, `RetireReply` |
| `_stream_turn`, `_pin_stream`, `_flush_stream_buffer`, `_defer_stream`, `_resolve_deferred_streams` | `OwnerOf`, `Asked`, `PinStream`, `FlushStreamBuffer`, `WaitingFor`, `ResolveDeferred` |
| `_mark_ownership_inferred`, on each of its routes | `inferred` |
| `_bind_reply`, `_bind_in_flight`, `_settle_contested_reply`, `_settle_pending` | `BindReply`, `BindInFlight`, `SettleContested`, `SettlePending` |
| `_on_user_state`, `_on_transcript`, `_close_user_turn`, `_extend_user_turn` | `UserSpeaking`, `InterimTranscript`, `FinalTranscript` |
| the user's message, `on_user_turn_completed` | `UserCommitted` |
| `_on_speech_created`, by the way it ends | `RegisteredSpeech`, `AnswerPending`, `AdoptCollecting`, `DeferContested` and later `LoopSlice`, `Preempt`, `Unprompted` |
| `open_output_stream`, `tap_output_frame`, `tap_output_text`, `close_output_stream` | `OpenOutputStream`, `TapOutputFrame`, `TapWithoutStream`, `TapOutputText`, `CloseOutputStream` |
| `_on_metrics`, `_state_for`, `_unidentified_metric_turn`, `_record_*` | `NamedMetric`, `UnnamedMetric` |
| the agent's message: `_turn_owning_item`, `_reply_turn`, `_derive_*` | `AssistantItem` |
| `_on_tools_executed`, `_on_error` | `ToolsExecuted`, `SessionError` |
| `finish()`, `finalize_open_spans()`, `_audit_coverage()` | `Finish` |

LiveKit is external, and is what the handlers assume of it and no more: a speech is
announced once, its message is committed once and after that, a frame of a stream
comes while the stream is open, and nothing names a `say()` before it is announced, as
`say()` announces its speech in the call that makes it. Everything else comes in any
order, a metric before the announcement of its reply and a stream's whole life before
it too. What
`_reply_origin` reads off the call stack and the handle is a choice among the answers
it can give (`Origins`). A message may have no words, and of two replies that could own
it what the handles tell is a choice (`LateItemOwners`). A stream may or may not be able
to name its speech: it cannot where livekit-agents does not expose the speech-handle
context. `source`, `spoken`,
`finals` and `rendered` are history.

### RecorderWiring (`integrations/livekit.py`)

Several recorders, sessions and agents. A call of `observe_agent_session()` or of
`finish()` is a thread of its own.

| code | model |
|---|---|
| `attach()` and `_subscribe()` under `_attach_lock` | `Observe`, `Enter`, `Subscribe` (one event at a time; `on()` may fail), `Leave` |
| `bind_agent()`: `agent.vaani`, `watch_agent()`, `note_audio_tap_installed()` | `Bind`, `BindAgent`, `Watched`, `Missed` |
| `_watch_handoff()`, the wrapped `update_agent()` | `WatchHandoff`, `UpdateAgent` |
| `finish()` and `_detach()` | `Finish`, `Claim`, `Unsubscribe` (`off()` may fail), `Detached`, `Finalize` |

`listeners` counts the handlers of an event on a session, and so shows a second one.
An agent in `Tapped` has the mixin's `tts_node`; one in `Frozen` accepts no attribute.
A session in `Sealed` does not either: assigning `session.update_agent` raises, the code
logs it and goes on, and the recorder is told of no handoff of that session. A session
may be handed to another agent at any time, wired or not, also between `bind_agent()`
and `_watch_handoff()` of its first wiring. `Told` is who hears of a handoff, and two
variables are history: `untold`, the recorders that the last handoff of a session passed
over, and `unheard`, whether an agent that a recorder was told of, and cannot hear, was
in charge of its call.

## 3. The runs

`expect: pass`

| run | instance | question |
|---|---|---|
| `spool_writer` | three threads of which one is the atexit hook, two files, queue of 2, 3 writes, strict or not; 42,986 states | Does any interleaving of submits, closes, disk errors and the hook strand, reorder or miscount a write, change a file after a close, hang a call, or leave the abstract log? |
| `session` | the loop and a thread record, two `end()`, one capture, one socket, queue of 1, 2 events; 286,104 states | Are the manifest's counts final and true of the loop's own events, strict sessions honest, sockets closed, the manifest written once, and does `end()` return unless a second one sleeps on the lock? |
| `drain` | a worker, a watching sidecar and an operator who migrates the spool to a host that keeps nothing; 2 packages of 2 objects, one mishap; 1,278,611 states | Is a call ever lost, and does a receipt ever lie? |
| `drain_watch` | sidecar and a drainer pointed at a mistyped host, both watching, an unshippable oldest package, two mishaps; 165,471 states | Does audio go to a stray host, and is the shippable call delivered in the end? |
| `livekit_recorder` | two speeches, one run of `tts_node` that names its speech or cannot, up to 3 turns, 2 frames and any two of: final transcript, frame, metric, tool result, message without words, error; 1,230,312 states | Whatever the order of events, is audio that named its speech on that speech's turn or reported missing, audio placed by timing disclosed, every transcript in a span, no turn kept open for nothing, and no unnamed metric on a reply that may not have sent it? |
| `upload` | two objects, one worth compressing, budgets 1, 5 and none, one retry, two uploads of the package, a backend that decompresses or does not; 287,518 states | Does an upload end in time, leave nothing compressed with a backend that cannot read it, and keep its promise, whatever arrives late? |
| `instrumentation` | two observers with a session each; one connection, to a socket that refuses attributes or to one whose receive is no coroutine, which is told when it is made; two observations of which the application detaches each once, one HTTP call; 1,628,793 states | Is a client wrapped once while anybody wants it, a frame counted once wherever it can be, a socket given back, and everything an observer asked for recorded? |
| `recorder_wiring` | two recorders with a session each, two agents of which one has the tap, two events, one session that takes no wrapper, two wirings of the other and one of it, two finishes; 1,560,472 states | Does an event reach a recorder twice, is anything left behind by `finish()`, does an agent in charge that the recorder was told of speak into it, and is a call certified with an agent it was told of and cannot hear? |
| `audio_track` | three chunks of 3 or 14 bytes, two milliseconds and a caller's time between two of them, rates of 1500 and 2500 Hz, either write dropped; 553,763 states | Does every frame of the recording hold what was recorded for its instant, and do bursts of replies keep their length and order? |
| `payload` | up to three messages, sizes and escapes on both sides of every limit; 139,808 states | Is a capture within its limit and the newest part of the exchange? |

*Bounds.* A queue of 1 or 2 has every state a queue has: empty, full, and, with 2,
an order. Three writes (`MaxHanded`) fill it with one in hand and one to overflow; in
`session` two events and a queue of 1 do the same. Two `end()` calls and one other
thread are enough for every pair of critical sections. Two packages distinguish "the
one at work" from "the one behind it", two objects a whole package from a part of one.
A mishap (`MaxMishaps`: failed upload, lost answer, file that resists, kill) may strike
anywhere.

Two speeches are enough for one to supersede, contest or be confused with the other;
the third turn (`MaxTurns`) is one a metric or an unprompted speech opens between them.
Speeches, commits, messages that have words, partial transcripts, words taped off
`tts_node`, and the openings and ends of streams are not limited by `MaxInputs`. Of what
it does limit, two are enough for two transcripts in a message, a frame before and one after a span is
written, or a metric that races a frame. `MaxFrames` is 2, `Tolerance` 0 and `TailCap`
1, so that a single lost frame is a loss and one may be forgiven.

In `upload`, `MaxPack`, `MaxPause` and `MaxOverrun` bound how long gzip, one backoff and
a trickling answer take, `MaxUploads` how often the package is shipped. Budget 1 is
spent within a leg, 5 reaches the completion, and compression is worth while from 2 on,
so every branch of `_send()` and `_encode_object()` is met with and without a deadline.
In `instrumentation`, `MaxObservations` 2 are one observation over or after another,
and `MaxDetaches` is 1 because a second `detach()` is one of the disagreements below.
`OneConnection` has one of the two sockets connected, so that every behaviour is met
with each kind; no property relates two sockets. The first is as any other but for its
receive. `Unlisted` is empty in the run, and any set in the proof.
Three wirings are a startup path and its retry of one call and one wiring of the other;
`OneRetry` keeps them to that, and to one finish of the second recorder, which is there
for the agents the calls share. Two finishes are a close handler and a shutdown hook.
`MaxChunks` 3 is a burst of two and one behind it. The sizes are a sample and an odd
byte, and seven samples, which at 2500 Hz are shorter and longer than a millisecond;
`Ticks` 15 makes every byte of both rates whole ticks; the stamp of 38 is 2.53 ms; `MaxMs`
2 is a pause. Of the four frames the bound of `RepliesLaidEndToEnd` allows at 2500 Hz
three are lost. The sizes of
`payload` have messages that fit, that fit shortened and that cannot fit, the margins of
the code scaled down with them, `MaxMessages` a first, a middle and a newest.
`Owed` in `Session` reserves events for calls that have begun, so that the bound
never stops a call half-way and no liveness result is due to it.

Symmetry is used in `livekit_recorder` and `recorder_wiring`, over ids that the model
only compares; neither checks liveness.

*Deadlock* is checked in `spool_writer` (a closed writer goes on refusing) and
off elsewhere, because a finished session, upload or call and a one-shot drain do stop;
hanging is what `EndReturns...`, `EveryUploadEnds` and `EveryCallDelivered` are about.

*Fairness.* Weak fairness of each step inside a call: threads and the loop keep
running, disk calls return with or without error, a response body ends under the
client's timeout, a watching drainer begins its next pass. In `upload`, of the client's
own steps: every request has a timeout, and nothing is asked of the network. Nobody is
obliged to record, to close, to call `end()`, to cancel, to start a worker, to ship
again, or to run a one-shot drain. Mishaps are finite. `EveryCallDelivered` leaves out
packages with a receipt of an older version, which are taken as shipped, as the code
does. The recorder's and the instrumentation's modules state no fairness: nothing there
waits for anything but its caller.

`expect: violation`: each run checks one statement of the repository that the
code does not keep. `PROJECT.json` quotes both sides.

| run | what it shows |
|---|---|
| `session_end_twice` | `end()` awaits `self.finished` inside `with self._lock`. When two ends overlap, the second sleeps with a thread lock in its hands; if a write fails meanwhile, the writer's thread waits for that lock in `on_error`, the first `end()` waits for the thread, and neither returns. |
| `drain_watch_yes` | With `--watch --yes`, only the first pass is a migration; from the second one on packages are deleted on a 2xx from a host nobody has vetted. |

Further disagreements between the code and what it says of itself, each reproduced by
a configuration of its own (`tlc -config X.cfg M`), which is not among the runs:

| configuration | property | what it shows |
|---|---|---|
| `MCSessionRace` (`MCSession`) | `CompleteMeansEverything` | A thread that tested `_ended` before `end()` set it and submits after `close()` is refused; nobody counts it, and the manifest says the events are complete. |
| `MCDrainRace` (`MCSpoolDrain`) | `CompletionsWhole` | An object that is not there is passed over, also when another process is deleting the package: the backend is told of a completed, smaller package. No audio is lost (`NoCallLost` holds), but a whole session may be completed again with less. |
| `MCDrainStray` (`MCSpoolDrain`) | `OnlyConfirmedHosts` | The worker's own receipt puts a mistyped endpoint into the ledger and disarms the drain's guard. |
| `MCLiveKitSupersede` (`MCLiveKitRecorder`) | `OnlyTheSupersededClose` | `_bind_reply()` gives a turn a second reply without clearing `awaiting_reply_item`, set when its filler was superseded by another `say()`. The filler's late message then finishes the turn while the answer is being spoken. The audio that follows is in no span, and the audit says so. |
| `MCLiveKitError` (`MCLiveKitRecorder`) | `ClosedMeansPublished` | `_on_error()` ends an open STT span without its response: the transcripts it held are in no span, and the turn that follows says they were already published. |
| `MCHandoff` (`MCRecorderWiring`) | `AgentInChargeIsBound` | Two recorders on one session one after the other: `update_agent()` runs through both wrappers, the finished recorder's binds last, and the replacement speaks into it. `bind_agent()` says "so a replacement is never left uninstrumented" (livekit.py:2059). |
| `MCFrozenAgent` (`MCRecorderWiring`) | `CertifiedMeansHeard` | A replacement on which `agent.vaani = self` raises: the wrapper of `update_agent()` swallows the error before `note_audio_tap_installed()` is reached, so neither flag is set and the call is certified, `coverage_complete` and all, without a word of that agent. livekit.py:1653 calls that "the worst of both". |
| `MCSealedSession` (`MCRecorderWiring`) | `CertifiableMeansHeard` | A session that refuses `update_agent` (livekit.py:4819-4824): a debug line says that replacements will not be instrumented, and nothing else does. The agent it is handed to is neither bound nor noted, and the call is certified with it. |
| `MCOvertaken` (`MCRecorderWiring`) | `CertifiableMeansHeard` | The session is handed over between `bind_agent()` (livekit.py:4747) and `_watch_handoff()` (4752) of its first wiring, on another thread: the same, with a session that takes the wrapper. |
| `MCDetachTwice` (`MCInstrumentation`) | `FramesCountedOnce` | `detach()` removes whatever wrapper is on the socket. Called again when a later observation has wrapped it, it takes that one's wrapper, and the later observation's frames are counted by nobody; `tests/test_observe_websocket.py:222` has "detach twice is safe" for a socket nobody else observes. |
| `MCSpanTwice` (`MCInstrumentation`) | `SpanWrittenOnce` | `_finish()` and `Operation.end()` test and set without a lock; the socket's thread and `end()` may both pass, and the span is written twice. session.py:178: "A second call is ignored." |
| `MCAudioComplete` (`MCAudioTrack`) | `CompleteAudioIsAligned` | Bytes are rendered in the order of the `audio_chunk` events. If the event of a chunk is dropped and its bytes are not, `audio_complete` stays true while what follows on that track sounds at the wrong time. |
| `MCPayloadOver` (`MCPayload`) | `WithinTheLimit` | "Everything retained goes through a byte budget" (`_payload.py:4`), but of a message only its content is shortened: one with large tool calls exceeds the limit. |

Properties that relate to these defects are stated so as to show what still
holds: `EndReturnsUnlessLockKept`, `LoopEventsComplete`, `OnlyKnownHosts`,
`WordsReachTheirSpan`, `AgentInChargeIsBound` (one recorder per session, not passed over
by a handoff), `CertifiedMeansHeard` (agents that can be bound and that the recorder was
told of), `FramesCountedOnce` (each handle detached once by the application and once by
`end()`, and in each way that the socket can be wrapped), `TimelineKept` and
`CaptureBounded` are the strongest versions of the violated statements we found the code
to keep.

The two defects in the turns of the LiveKit recorder and the one about agents that
cannot be bound were replayed on the code itself with stand-ins for the session, the
handles and the agents, with the outcome the model has.

`Session` also shows, without a run, that `wrap_future` chains cancellation: cancelling
one waiter of `finished` (`CancelWaiter`) cancels the completion of all, and the
`end()` that published the package raises.

Every property of a passing run has a mutant in `PROJECT.json`: a named variant of
one definition (marked `Bug:` in the modules) under which the property fails. They
are never part of a specification.

## 4. The proofs

All are safety, for every value of the constants that meets the module's named
assumptions (`WriterAssumption`, `SessionAssumption`, `DrainAssumption`,
`UploadAssumption`, `PatchesAssumption`, `SocketAssumption`, `WiringAssumption`,
`TurnsAssumption`, `RecorderAssumption`, `AudioAssumption`, `PayloadAssumption`): bounds
are numbers, sets that are counted are finite, a value that stands for "none" is none of
the others, every chunk lasts whole ticks, and the note of what was left out of a capture
is within the margin kept for it. What a theorem
supposes beyond that is in its statement and named below. Each follows one line: an
inductive invariant, checked by TLC first, the lemma that every action keeps it, and
the properties as its consequences.

**SpoolWriterProofs**: `WriterTypeCorrect`, `WriterStrandsNothing`,
`WriterClosedMeansSettled`, `WriterFilesFrozen`, from `IInv`, which adds to the
types

* `LockInv`: a thread in `on_drop` or in the sentinel's put holds the lock, and the
  writer is, respectively, still accepting and no longer so. Without it a second
  thread could accept between the closing of the gate and the sentinel.
* `StopInv`: the sentinel is last in the queue and the gate is closed when it is
  there; while someone is about to put it, there is none yet and the thread
  still runs; when the thread is through, the queue is empty.
* `WorkInv`: the hand is full just while a write is appended or reported; only a
  strict writer after a failure skips; whoever has returned from a close without a
  timeout has seen the thread end.

`WriterAppendOrder`, `WriterAccountsForEveryWrite` and `WriterStrictStops` follow from
`KInv` on top of it: `OrderInv` (everything in a file is older than what is in hand,
that than the queue, that than what a thread in `on_drop` is about to lose), `StrictInv`
(a strict writer lost one write to the disk, and no file has anything newer), and that
every number handed out so far is in one of those places and in no two.

`WriterImplementsLog` is the refinement of `SpoolLog`, but for its liveness: under
`KeptInv` (what failed flushes left in a buffer has been reported, or is about to be)
each step of the writer is a step of the log or none. Where a successful flush
brings reported writes into the file with the new one, the log delivers the new one
alone.

**SessionProofs**: `SessionTypeCorrect`, `SessionCountsAreFinal`,
`SessionLoopEventsComplete`, `SessionStrictPublishesNoLoss`, `SessionLeavesNoSocket`,
`SessionManifestKept`, for any recording threads, calls of `end()`, captures, sockets
and cancellations. `SessionProofs` instantiates `SpoolWriterProofs` with the session's
writer: each step of a session is a step of its writer or leaves it alone, so what is
proved of the writer holds here, and the session adds `SInv`:

* `EndInv`: `end()` marks and detaches without being interleaved, and only one of its
  calls gets past setting `_ended` to the manifest.
* `SocketInv`: a socket whose span is open is in `_open_sockets` or among those an
  `end()` is detaching, and once `_ending` is set no socket is added.
* `LoopInv`: the writer takes events until `_ended` is set, and a callback of the loop
  that saw `_ended` unset submits before that. It is what makes the loop's own
  events complete while those of another thread may be refused (`MCSessionRace`).
* `PackageInv`: whoever composes or publishes has seen the writer's thread exit, so
  the counts in the manifest are the last ones.

**SpoolDrainProofs**: four theorems.

* `DrainTypeCorrect`, from the types, `BusyInv` (a process past `Pick` has a
  package) and `ScanInv` (the three sets of a scan empty in their order).
* `DrainOnlyKnownHosts`: by `HostInv`, the ledger of a spool that had one grows
  only by known hosts, and a drainer with anything left to ship was let through on
  what it read there, or by `--yes`. It does not matter that the ledger is
  read once per pass.
* `DrainReceiptsAreEvidence`: by `AckInv`, a process about to write a receipt for a
  store has been acknowledged by it.
* `DrainNoCallLost`, under `Trusted`: each drainer that deletes is pointed at an
  endpoint that keeps what it acknowledges, or makes a single pass to a destination that
  is new to a spool that had others, and that nobody else is pointed at (`Migrates`).
  Of the latter `MigrationInv` says that its pass is taken for a migration from the
  guard to its end, and that every receipt of that destination is marked as one; so it
  deletes nothing (`OnlyTrustedDelete`). `LossInv` says that every package is
  whole on the spool or held by a store (`CopyInv`), that deletions and usable
  receipts concern held packages (`DeleteInv`, `ReceiptInv`, `AckedInv`), and that
  an upload in progress has put every object so far unless the package was
  held already (`PutInv`). The last one is why the race of `MCDrainRace`
  loses nothing. The run `drain` meets `Trusted`; `drain_watch_yes`, where the untrusted
  drainer goes on watching, does not.

**UploadProofs**: `UploadTypes`, `DeadlineHeld`, `NeverGarbled`, `UploadKeepsPromise`,
for any objects, sizes, retries, backoffs and budgets, and any number of late requests.

* `ClockInv`: what has elapsed is within the budget unless an answer overran, and a
  request that is sent starts strictly within it; `Timeout` is then at most what is
  left. `PauseInv`: a pause is followed by an attempt that is allowed.
* `GzipInv`: a request in the client's hands or still on its way is compressed only if
  the backend decodes it. It is about `late` as much as about the request at hand:
  what was sent under an earlier answer arrives under a later one.
* `ClaimInv`: what the client has claimed so far is what was on disk of the legs behind
  it, and a completion still on its way names everything on disk. So whenever one is
  handled, a step of `Upload` is `Take`, `TakeAndDeliver` or `GiveUp` of
  `UploadPromise`, and the refinement follows.

**InstrumentationProofs**: `PatchesFollowHolders`, of `Patches` alone and for any finite
number of observers, from `CountInv` (the reference count is the number of holders) and
`LayerInv` (a client is wrapped once just while the count is not 0). Then
`EveryFrameIsCountedOnce`, `DetachedSocketsAreBare`,
`ObserversAreHonoured`, for any observers, sessions, sockets, observations and calls.
They hold of every kind of socket, slotted ones and unmarked ones included.
The first two of these suppose `MaxDetaches <= 1`, since a second `detach()` by the
application breaks them (`MCDetachTwice`); the third supposes nothing.

* `WrapInv`: a socket is bare and unmarked, or marked (unless it cannot be) with its one
  observation that has not been detached, whose wrapper it has if it takes any. A
  socket that refuses attributes is bare all along.
* `OwnerInv`: a handle the session is to detach has one keeper, namely the `connect`
  that has not registered it yet, the session's list while it is live, or what is left
  of its `end()`. It is why an `end()` that overlaps a late `connect` detaches no
  handle twice.
* `PromiseInv`: a connection promised to an observer is made through the wrapper, which
  stays installed as long as the observer holds it (`PatchedWhileHeld`), and is
  observed when it is there.
* `CallInv`: a call promised to an observer has begun one operation, and has one
  span with the status its caller saw when it is over in time.

**RecorderWiringProofs**: `WiringTypes`, `EventsHandledOnce`, `FinishLetsGo`, for any
recorders, sessions, agents, events and threads.

* `LockInv`: who subscribes or unsubscribes holds the recorder's lock.
* `SubscribeInv`: who subscribes does so for a recorder that still records, to events
  that are not attached yet. Without the lock around both, neither would last.
* `ListenInv`: an event has one handler at most, and a handler on a session is in
  `_attached`, in the list a `finish()` is working off, or one that `off()` failed on.
* `ClaimInv`: one `finish()` at most has claimed the call, nothing has been taken off
  before, and nothing is attached afterwards.

`ReplacementsAreBound` and `CertifiedCallsWereHeard` are about the agents. They
suppose `Paired` (a call is recorded by one recorder, and a recorder records one call)
and `Frozen = {}` (agents accept the attribute `vaani`); `MCHandoff` and
`MCFrozenAgent` are what happens otherwise. Of sessions they suppose nothing: any may
refuse the wrapper, and be handed over at any moment, and the two properties name what
cannot be said then. They follow from `AgentInv`, beside where threads are (`PlaceInv`)
and that a session is wired for its own recorder (`EngagedInv`):

* `WrapperInv`: the wrappers of a session's `update_agent()` are its recorder's, and a
  recorder that is told of its handoffs has one there.
* `ChargeInv`: no other call is being wired to the agent being wired, or is recorded
  with it in charge. Without it the last of two calls to bind an agent would take it
  from the first.
* `BoundInv`: a recorder that no handoff passed over holds the agent in charge, or has
  yet to come to the `bind_agent()` that will give it (`Holds`). So it matters what a
  handoff during the wiring does: it passes the recorder over, until the code binds the
  agent in charge.
* `HeardInv`: whenever an agent that the recorder was told of could not be heard, the
  recorder noted that an agent lacked the tap.

**LiveKitRecorderProofs**: `RecorderTypes`, `StreamsKeepToTheirSpeech`,
`NoStreamIsLeftWaiting`, `TurnsCountTheirStreams`, `UnnamedMetricsAreNotGuessed`,
`WordsAreNotLost`, `GuessesAreTold`, `LossIsNotPassedOver`, for any speeches, streams,
frames, turns and inputs, from `RecorderInv`, `WordsInv` and `BooksInv`:

* `Known`: the types, and that whatever names a turn names one there is.
* `Identified`: a stream that named its speech has no owner but that speech's turn.
* `Counted`: `open` is the number of open streams a turn owns, and a turn that waits
  for their end has one.
* `Worded`: a span that has ended holds all the words of its turn.
* `PutOff`, `Attributed`, `Settled`: a speech that was announced has been put off, or
  has its turn and on it every stream that named it.
* `WordsInv`: the words of all turns are the final transcripts of the call.
* `BooksInv`: the books balance (`Balanced`). The audio of a turn is what came for it
  without a stream and what the streams it owns rendered; what a stream holds back is
  what it rendered while it had no owner; `inferred` says that one of a turn's frames
  was not named; and no more is in the books than was heard.

`OwnershipIsTold` is the third of those, told with the frames a turn has beyond its named
streams. For `ProvedLossIsReported`, what was published of a turn, what may be its tail,
and what is missing from its spans are at most its audio (`TurnAddsUp`): a guessed frame
excuses no named one. Summed over turns and held frames, that is what the audit
of `finish()` compares (`AuditFinds`).

A handler is a composition of helpers that pass the recorder on, and so are the proofs:
`Continues`, `Keeps` and `Carries` (the books balance after it if they did before, with
no frame more) are relations between recorders, each helper has a lemma that it keeps
them, and an action follows from those of what it calls; a frame is entered by
`Credits`, when a stream brings it, or `CreditsUnscoped`. The sums in `WordsInv` and
`BooksInv` are folds over sets in an order nobody chose; they are shown to change by what
changes in one place, and the first to be the sum over the turns in their order. The
inductions in those proofs (on numbers, and on finite sets) are by a least element or a
minimal set, because the library's induction theorems take an operator as a parameter,
which the installed provers cannot instantiate.

**ComputationProofs**: `CapturesAreBounded`, `RepliesFollow`, `RecordingIsAligned`, for
any payloads and limits, and any chunks, times, sizes and drops of two tracks. All
three are about what a fold or a recursive function computes, so they begin with
induction on numbers, stated of a set (`Induction`), and a rule for loop invariants of a
fold over a sequence (`Folds`).

*Payloads.* The binary search ends at a room that fits, if any does that it tried, while
one byte more does not (`Found`); `NewestExchange` needs no more. The loop over the
messages is in one of three conditions: all taken so far (`Going`), the
first message of the chat shortened as the last thing done (`Cut`), or stopped
with the rest elided (`Stopped`). `Bounded` follows for each form a capture can take.

*Replies.* `ClockInv`: a reply is due when the one before is over, and not before it was
received. What remains is arithmetic. Of two chunks that follow each other, two times are
rounded to milliseconds and then to frames, and the length of the first is rounded when
it is resampled: half a millisecond twice, and half a frame three times, is what the end
of one and the start of the next can be moved against each other (`Rounding`,
`Overlap`), whatever the rates.

*The recording.* `TrackInv`: unless a write of a track failed, its events stand for its
chunks in order, none is left out, and the bytes of each lie in the file behind those
of the ones before (`Laid`). `PaintingStep` carries along the loop of `_render_track()`
that each sample painted so far is that of the latest chunk that covers its instant, or
silence where none does. `TimelineInv` says it of the published recording: it and the
chunks stay as they are from then on.

*Only model-checked:* the bounded `TypeOK` of the recorder, which limits inputs as the
model does, and what is out of the prover's reach: the liveness properties (that of
`ImplementsSpoolLog` included) and `ENABLED`. There are no `RECURSIVE` operators.

## 5. What is abstracted, and what is not modelled

* *Writes.* A write is whole or absent in its file. A `BufferedWriter` larger than
  its buffer may tear one on a full disk; the model's `kept` covers the bytes that
  stay behind, not half of a record.
* *Process exit.* The atexit hook gives up its join, and what happens to a daemon
  thread at interpreter shutdown is not modelled.
* *Sockets.* `_finish()`'s test and set of `_closed` is one step in `Session`, two in
  `SocketObservation`. Messages on a socket are `Record` in `Session`; frame and byte
  counts are abstracted to which observation counts a frame, and what a caller records
  itself (`record_sent()`, `record_received()`, the way left to it on a slotted socket)
  or ends itself (`handle.close()`, `record_error()`) is not there. That a receive which
  is no coroutine goes uncounted is said nowhere in the code's comments. A socket takes
  all of its wrappers or none: one that takes only some attributes is left out.
* *HTTP.* Whether a URL is ours, and what the response's headers say, are choices; the
  captured texts are in `Payload`, by their sizes.
* *Uploads.* In `SpoolDrain` one upload is puts and a completion that fail anywhere,
  which is what `UploadPromise` leaves of `Upload`. In `Upload`, gzip is assumed to be
  done within `MinBudget`, the option `compress` is on, and an application's transport
  override keeps the timeout it is given. `normalize_endpoint()` is equality of
  endpoints; a receipt's age is a choice; `rmtree` goes in any order and a directory is
  gone with its last file.
* *Audio.* One channel per track, valid formats, and the sample to the left where the
  code interpolates between two. Times are exact multiples of a tick where the code has
  floating-point numbers, and a caller's `timestamp_ms` is not negative.
* *Payloads.* Sizes only; each byte of a content becomes the same number of bytes of
  JSON. `bounded_payload()`, `safe_error()` and `drop_none()` are single expressions.
* *LiveKit recorder.* Texts, times, identities and provider numbers are left out, and
  with them the two pieces of evidence they give: words taped off `tts_node` (they
  keep a turn without audio from passing unreported) and the comparison of a message
  with them, used only with handles that do not list their items; the model has
  the handles of livekit-agents 1.2 on, where that comparison is not reached. Whether a
  filler's handle has told its words by the time its successor's message comes
  (livekit.py:3735) is a choice, and so is whether a message has words at all. A turn
  opened by a metric for a derived span and for a measured one is the same here. Whether
  a tool result is still owed or expired is a choice. Usage, STT and endpointing
  metrics only decorate a turn, as does the label `StopResponse` gives it.
  `_TurnState.tools` is never filled by the code, so the model has no such field.
  In `LiveKitRecorder`, `attach()` and `finish()` are one after the other; their races
  are in `RecorderWiring`, where a recorder has no turns. An agent that is bound by hand
  or never given (`agent=None`) is not there: the audit then says that nothing was
  measured.
* *Wiring.* `_attach_lock` is an `RLock`, and a thread is never in `attach()` twice in
  the model. Once the first event is in `_attached` (livekit.py:1442), an `attach()`
  re-entered on the same thread finds it and does nothing. Before that, within the very
  first `session.on()`, it would subscribe everything twice; that takes a session whose
  `on()` calls back into the recorder, which LiveKit's does not.
* *Seen while modelling, and no run of its own:* `_record_llm()` adds a span to a
  finished turn, where a comment (livekit.py:4310) says that late metrics are recognised
  and disclosed.
* *Not modelled:* operations and turns as data, coverage gaps a caller reports; URL
  classification and options (pure matching and validation); `preflight()`, which only
  logs; the ambient context (nested scopes of a context variable); the generators of
  the audio tap, beyond what they call on the recorder; diagnostics.

## 6. Plan

What is left, in order of what matters most to the correctness of a recording:

1. The text evidence of older handles in `LiveKitRecorder`, and what a turn that ends in
   `StopResponse` publishes.
2. The generators of the audio tap with the context they run in, and the longest-rule
   matching of URL classification, as operators against a reference definition.

-------------------------------- MODULE Session --------------------------------
(***************************************************************************)
(* session.py: one recorded call, from its first event to the manifest     *)
(* that makes its directory a package.                                     *)
(*                                                                         *)
(* One asyncio loop runs end(), the deferred captures and the callbacks    *)
(* that record; other threads (instrumentation) record too; the spool      *)
(* writer has its thread, and to_thread() lends one to every blocking call *)
(* of end().  The spool writer is not abstracted: its actions take part in *)
(* this module's steps, so that the two locks and the two ways back into   *)
(* the session (on_drop, on_error) meet as they do in the code.            *)
(*                                                                         *)
(* A task that runs on the loop keeps it until it awaits: `running' names  *)
(* the task in a section of several steps, and every other task waits.     *)
(* threading.Lock is not asyncio's: waiting for it stops the whole loop.   *)
(***************************************************************************)
EXTENDS Naturals, Sequences, FiniteSets

CONSTANTS Recorders,   \* threads, other than the loop's, that record
          Enders,      \* calls of end()
          Captures,    \* awaitables given to defer_capture()
          Handles,     \* sockets nobody but the session owns
          events,      \* the file events.jsonl
          loop,        \* the thread of the event loop, as a caller of submit()
          MaxQueued,   \* max_queued_writes
          MaxHanded,   \* bound of the model: events the writer is handed
          Nobody,      \* no thread, no task
          NoWrite, Stop, NoManifest

ASSUME SessionAssumption ==
  /\ MaxQueued \in Nat \ {0} /\ MaxHanded \in Nat
  /\ Recorders \cap Enders = {}
  /\ loop \notin Recorders \cup Enders
  /\ Nobody \notin Recorders \cup Enders \cup {loop}
  /\ NoWrite \notin [file : {events}, no : Nat] /\ Stop \notin [file : {events}, no : Nat]
  /\ NoManifest \notin [by : Enders, dropped : Nat]

Files == {events}
Recording == Recorders \cup {loop}
Threads == Recording \cup Enders

VARIABLES
  \* the spool writer
  strict, writerLock, accepting, queue, callPc, arg, wpc, hand, readyError,
  firstError, kept, disk, reported, handed, dropped, failed, skipped,
  \* the session
  lock,        \* the task or thread that holds _lock across a step, or Nobody
  ending,      \* _ending
  ended,       \* _ended
  sockets,     \* _open_sockets
  capture,     \* per capture: not deferred, pending, or done
  completion,  \* _completion: pending, resolved, rejected or cancelled
  manifest,    \* manifest.json: who wrote it, and the losses it states
  \* its callers
  span,        \* per handle: not attached, owned by the session, or closed
  rpc,         \* where each recording thread is in _finish() or _write_event()
  what,        \* the handle a thread in _finish() is about
  running,     \* the task that keeps the loop, or Nobody
  epc,         \* where each end() is
  gathered,    \* the captures each end() waits for
  todo,        \* the handles the running end() has yet to detach
  silent       \* history: threads whose event a closed writer refused

W == INSTANCE SpoolWriter WITH lock <- writerLock, pc <- callPc, Timed <- {},
                               NoThread <- Nobody

writerVars == <<strict, writerLock, accepting, queue, callPc, arg, wpc, hand,
                readyError, firstError, kept, disk, reported, handed, dropped,
                failed, skipped>>
stateVars == <<lock, ending, ended, sockets, capture, completion, manifest>>
callerVars == <<span, rpc, what, running, epc, gathered, todo, silent>>
vars == <<writerVars, stateVars, callerVars>>

Init ==
  /\ W!Init
  /\ lock = Nobody /\ ending = FALSE /\ ended = FALSE
  /\ sockets = {}
  /\ capture = [c \in Captures |-> "none"]
  /\ completion = "pending" /\ manifest = NoManifest
  /\ span = [h \in Handles |-> "none"]
  /\ rpc = [t \in Recording |-> "out"] /\ what = [t \in Recording |-> Nobody]
  /\ running = Nobody
  /\ epc = [e \in Enders |-> "idle"] /\ gathered = [e \in Enders |-> {}]
  /\ todo = {} /\ silent = {}

\* A loop callback starts only when no task keeps the loop.
Start(t) == rpc[t] = "out" /\ (t = loop => running = Nobody)

\* Thread t goes on to `place'; a loop callback keeps the loop until it is out.
Step(t, place) ==
  /\ rpc' = [rpc EXCEPT ![t] = place]
  /\ running' = IF t # loop \/ running \in Enders THEN running
                ELSE IF place = "out" THEN Nobody ELSE loop

-------------------------------------------------------------------------------
(* Recording: _write_event() and the sockets the session owns *)

\* The submits still to come, of the calls begun and of the sockets' spans: what
\* keeps the bound on records from stopping a call half-way.
Owed == Cardinality({t \in Recording : rpc[t] \in {"submit", "forget"}})
          + Cardinality({h \in Handles : span[h] # "closed"})

\* start_operation().end(), record_websocket_event() and the like: all of them
\* look at _ended without the lock, and come to submit() later.
Record(t) ==
  /\ Start(t) /\ ~ended
  /\ handed + Owed < MaxHanded
  /\ Step(t, "submit")
  /\ UNCHANGED <<writerVars, stateVars, span, what, epc, gathered, todo, silent>>

Submit(t) ==
  /\ rpc[t] = "submit"
  /\ \/ W!Accept(t, events) /\ Step(t, "out") /\ UNCHANGED silent
     \/ W!Overflow(t, events) /\ Step(t, "drop") /\ UNCHANGED silent
     \/ W!Refuse(t) /\ Step(t, "out") /\ silent' = silent \cup {t}
  /\ UNCHANGED <<stateVars, span, what, epc, gathered, todo>>

\* on_drop is _on_write_dropped(): it counts the event under the session's lock
\* while submit() holds the writer's.
Drop(t) ==
  /\ rpc[t] = "drop" /\ lock = Nobody
  /\ W!ReportDrop(t)
  /\ Step(t, "out")
  /\ UNCHANGED <<stateVars, span, what, epc, gathered, todo, silent>>

\* Bug: registration is not closed before the sockets are finalized.
RegistrationClosedLate == ended

RegistrationClosed == ending \/ ended

\* register_socket(), or, when finalization has begun, the caller's own detach.
Attach(t, h) ==
  /\ Start(t) /\ span[h] = "none" /\ lock = Nobody
  /\ IF RegistrationClosed
     THEN /\ span' = [span EXCEPT ![h] = "closed"]
          /\ what' = [what EXCEPT ![t] = h]
          /\ Step(t, "forget")
          /\ UNCHANGED sockets
     ELSE /\ span' = [span EXCEPT ![h] = "owned"]
          /\ sockets' = sockets \cup {h}
          /\ UNCHANGED <<rpc, running, what>>
  /\ UNCHANGED <<writerVars, lock, ending, ended, capture, completion, manifest, epc,
                 gathered, todo, silent>>

\* The socket closes: _finish() sets _closed first.
Finish(t, h) ==
  /\ Start(t) /\ span[h] = "owned"
  /\ span' = [span EXCEPT ![h] = "closed"]
  /\ what' = [what EXCEPT ![t] = h]
  /\ Step(t, "forget")
  /\ UNCHANGED <<writerVars, stateVars, epc, gathered, todo, silent>>

\* forget_socket(), and then operation.end() looks at _ended.
Forget(t) ==
  /\ rpc[t] = "forget" /\ lock = Nobody
  /\ sockets' = sockets \ {what[t]}
  /\ what' = [what EXCEPT ![t] = Nobody]
  /\ Step(t, IF ended THEN "out" ELSE "submit")
  /\ UNCHANGED <<writerVars, lock, ending, ended, capture, completion, manifest, span,
                 epc, gathered, todo, silent>>

-------------------------------------------------------------------------------
(* Deferred captures *)

Defer(c) ==
  /\ running = Nobody /\ ~ended /\ capture[c] = "none"
  /\ capture' = [capture EXCEPT ![c] = "pending"]
  /\ UNCHANGED <<writerVars, lock, ending, ended, sockets, completion, manifest, callerVars>>

Captured(c) ==
  /\ running = Nobody /\ capture[c] = "pending"
  /\ capture' = [capture EXCEPT ![c] = "done"]
  /\ UNCHANGED <<writerVars, lock, ending, ended, sockets, completion, manifest, callerVars>>

-------------------------------------------------------------------------------
(* The writer's thread *)

\* on_error is _on_write_error(): it needs the session's lock.
WriterRuns ==
  /\ wpc = "report" => lock = Nobody
  /\ W!Run
  /\ UNCHANGED <<stateVars, callerVars>>

-------------------------------------------------------------------------------
(* end() *)

At(e, place) == epc' = [epc EXCEPT ![e] = place]

Pending == {c \in Captures : capture[c] = "pending"}

\* With nothing to gather, end() goes on without giving the loop back.
End(e) ==
  /\ running = Nobody /\ epc[e] = "idle"
  /\ gathered' = [gathered EXCEPT ![e] = Pending]
  /\ IF ended THEN At(e, "await") /\ UNCHANGED running
     ELSE IF Pending = {} THEN At(e, "mark") /\ running' = e
     ELSE At(e, "gather") /\ UNCHANGED running
  /\ UNCHANGED <<writerVars, stateVars, span, rpc, what, todo, silent>>

Gathered(e) ==
  /\ running = Nobody /\ epc[e] = "gather" /\ gathered[e] \cap Pending = {}
  /\ At(e, "mark") /\ running' = e
  /\ UNCHANGED <<writerVars, stateVars, span, rpc, what, gathered, todo, silent>>

MarkEnding(e) ==
  /\ epc[e] = "mark" /\ lock = Nobody
  /\ ending' = TRUE
  /\ todo' = sockets /\ sockets' = {}
  /\ At(e, "detach")
  /\ UNCHANGED <<writerVars, lock, ended, capture, completion, manifest, span, rpc, what,
                 running, gathered, silent>>

\* handle.detach() writes the span from the loop's thread, unless its own socket
\* has closed meanwhile.
Detach(e, h) ==
  /\ epc[e] = "detach" /\ rpc[loop] = "out" /\ h \in todo
  /\ todo' = todo \ {h}
  /\ IF span[h] = "closed" THEN UNCHANGED <<span, rpc, what, running>>
     ELSE /\ span' = [span EXCEPT ![h] = "closed"]
          /\ what' = [what EXCEPT ![loop] = h]
          /\ Step(loop, "forget")
  /\ UNCHANGED <<writerVars, stateVars, epc, gathered, silent>>

\* Bug: end() does not look again whether another end() came first.
EndedMeanwhileIgnored == FALSE

EndedMeanwhile == ended

\* Bug: _ended is set only once the manifest is out.
EndedNowLater == ended

EndedNow == TRUE

\* The second of two ends awaits `finished' inside the with-block: it gives the
\* loop back and keeps the lock.
SetEnded(e) ==
  /\ epc[e] = "detach" /\ rpc[loop] = "out" /\ todo = {} /\ lock = Nobody
  /\ running' = Nobody
  /\ IF EndedMeanwhile
     THEN lock' = e /\ At(e, "awaitLocked") /\ UNCHANGED ended
     ELSE ended' = EndedNow /\ At(e, "closing") /\ UNCHANGED lock
  /\ UNCHANGED <<writerVars, ending, sockets, capture, completion, manifest, span, rpc,
                 what, gathered, todo, silent>>

\* writer.close() in a thread of its own, which a cancelled end() leaves behind,
\* or which never comes to run once its end() is cancelled.
Close(e) ==
  /\ epc[e] \in {"closing", "cancelled"} \/ callPc[e] # "out"
  /\ W!Close(e)
  /\ UNCHANGED <<stateVars, callerVars>>

Decide(how) == completion' = IF completion = "pending" THEN how ELSE completion

\* Bug: an error of the finalization is raised to nobody.
Swallowed == UNCHANGED completion

\* _reject(), from the except clause around the finalization.
Rejected == Decide("rejected")

Reject(e) == At(e, "await") /\ Rejected

\* Bug: end() goes on without waiting for the writer.
WriterClosedIgnored(e) == TRUE

WriterClosed(e) == callPc[e] = "closed"

\* Bug: a strict session publishes in spite of a failed write.
MustRejectReadyOnly == readyError

MustReject == readyError \/ (strict /\ firstError)

WriterDone(e) ==
  /\ running = Nobody /\ epc[e] = "closing" /\ WriterClosed(e)
  /\ IF MustReject THEN Reject(e) ELSE At(e, "composing") /\ UNCHANGED completion
  /\ UNCHANGED <<writerVars, lock, ending, ended, sockets, capture, manifest, span, rpc,
                 what, running, gathered, todo, silent>>

\* compose_stereo() and _publish_manifest(), in threads: each may raise.
Fails(e) ==
  /\ running = Nobody /\ epc[e] \in {"composing", "publishing"}
  /\ Reject(e)
  /\ UNCHANGED <<writerVars, lock, ending, ended, sockets, capture, manifest, span, rpc,
                 what, running, gathered, todo, silent>>

Composed(e) ==
  /\ running = Nobody /\ epc[e] = "composing"
  /\ At(e, "publishing")
  /\ UNCHANGED <<writerVars, stateVars, span, rpc, what, running, gathered, todo, silent>>

\* os.replace() makes the manifest visible; the cancelled end()'s thread gets
\* there too.
Publish(e) ==
  /\ epc[e] \in {"publishing", "cancelledPublishing"}
  /\ manifest' = [by |-> e, dropped |-> reported[events]]
  /\ At(e, IF epc[e] = "publishing" THEN "published" ELSE "cancelled")
  /\ UNCHANGED <<writerVars, lock, ending, ended, sockets, capture, completion, span, rpc,
                 what, running, gathered, todo, silent>>

Resolve(e) ==
  /\ running = Nobody /\ epc[e] = "published"
  /\ Decide("resolved")
  /\ At(e, "await")
  /\ UNCHANGED <<writerVars, lock, ending, ended, sockets, capture, manifest, span, rpc,
                 what, running, gathered, todo, silent>>

\* await self.finished, in or out of the with-block.
Return(e) ==
  /\ running = Nobody /\ epc[e] \in {"await", "awaitLocked"} /\ completion # "pending"
  /\ At(e, IF completion = "resolved" THEN "returned" ELSE "raised")
  /\ lock' = IF epc[e] = "awaitLocked" THEN Nobody ELSE lock
  /\ UNCHANGED <<writerVars, ending, ended, sockets, capture, completion, manifest, span,
                 rpc, what, running, gathered, todo, silent>>

\* The task of end() is cancelled where it awaits.  gather() cancels the captures
\* along; a finalization rejects; and to cancel who awaits `finished' is to cancel
\* _completion, which wrap_future() chains to it.
Cancel(e) ==
  /\ running = Nobody
  /\ \/ /\ epc[e] = "gather" /\ At(e, "gone")
        /\ capture' = [c \in Captures |-> IF c \in gathered[e] THEN "done" ELSE capture[c]]
        /\ UNCHANGED <<lock, completion>>
     \/ /\ epc[e] \in {"closing", "composing", "publishing"}
        /\ At(e, IF epc[e] = "publishing" THEN "cancelledPublishing" ELSE "cancelled")
        /\ Rejected
        /\ UNCHANGED <<lock, capture>>
     \/ /\ epc[e] \in {"await", "awaitLocked"} /\ At(e, "gone")
        /\ Decide("cancelled")
        /\ lock' = IF epc[e] = "awaitLocked" THEN Nobody ELSE lock
        /\ UNCHANGED capture
  /\ UNCHANGED <<writerVars, ending, ended, sockets, manifest, span, rpc, what, running,
                 gathered, todo, silent>>

\* Somebody else who awaits `finished', as VaaniObserver.flush() does, is cancelled.
CancelWaiter ==
  /\ running = Nobody /\ completion = "pending"
  /\ completion' = "cancelled"
  /\ UNCHANGED <<writerVars, lock, ending, ended, sockets, capture, manifest, callerVars>>

-------------------------------------------------------------------------------
\* What must go on once begun: a call of submit() or _finish(), ...
Proceeds(t) == Submit(t) \/ Drop(t) \/ Forget(t)

\* ... and an end(), as far as its task goes.
Finalizes(e) ==
  \/ Gathered(e) \/ MarkEnding(e) \/ (\E h \in Handles : Detach(e, h)) \/ SetEnded(e)
  \/ WriterDone(e) \/ Composed(e) \/ Publish(e) \/ Resolve(e) \/ Return(e)

Next ==
  \/ \E t \in Recording :
       Record(t) \/ Proceeds(t) \/ \E h \in Handles : Attach(t, h) \/ Finish(t, h)
  \/ \E c \in Captures : Defer(c) \/ Captured(c)
  \/ WriterRuns
  \/ \E e \in Enders : End(e) \/ Finalizes(e) \/ Close(e) \/ Fails(e) \/ Cancel(e)
  \/ CancelWaiter

(***************************************************************************)
(* Fairness.  Threads and the loop keep running, and blocking calls on the *)
(* disk return: WF of every step inside a call.  A deferred capture ends:  *)
(* it reads a bounded body under the HTTP client's own timeout.  Nobody    *)
(* is obliged to record, to call end() or to cancel.                       *)
(***************************************************************************)
Spec ==
  /\ Init /\ [][Next]_vars
  /\ \A t \in Recording : WF_vars(Proceeds(t))
  /\ \A c \in Captures : WF_vars(Captured(c))
  /\ WF_vars(WriterRuns)
  /\ \A e \in Enders : /\ WF_vars(Finalizes(e))
                        /\ WF_vars(epc[e] = "closing" /\ Close(e))
                        /\ WF_vars(callPc[e] # "out" /\ Close(e))

-------------------------------------------------------------------------------
(* Properties *)

TypeOK ==
  /\ W!TypeOK
  /\ lock \in Enders \cup {Nobody}
  /\ ending \in BOOLEAN /\ ended \in BOOLEAN
  /\ sockets \in SUBSET Handles /\ todo \in SUBSET Handles
  /\ capture \in [Captures -> {"none", "pending", "done"}]
  /\ completion \in {"pending", "resolved", "rejected", "cancelled"}
  /\ manifest \in [by : Enders, dropped : Nat] \cup {NoManifest}
  /\ span \in [Handles -> {"none", "owned", "closed"}]
  /\ rpc \in [Recording -> {"out", "submit", "drop", "forget"}]
  /\ what \in [Recording -> Handles \cup {Nobody}]
  /\ running \in Enders \cup {loop, Nobody}
  /\ epc \in [Enders -> {"idle", "gather", "mark", "detach", "closing", "composing",
                         "publishing", "cancelledPublishing", "published", "await",
                         "awaitLocked", "returned", "raised", "cancelled", "gone"}]
  /\ gathered \in [Enders -> SUBSET Captures]
  /\ silent \in SUBSET Recording

Published == manifest # NoManifest

\* "The session is finalized only after that thread has been joined, so the
\* manifest always sees the final counts": whatever drops, fails and races it,
\* a published manifest states exactly the losses there are, for ever.
ManifestCountsAreFinal ==
  Published => wpc = "exited" /\ queue = <<>> /\ manifest.dropped = reported[events]

\* A manifest that states no loss tells the truth about the loop's own recording:
\* no event a loop callback recorded was refused, and every write the writer took
\* is in the file.  This is what end() sets _ended first for.
LoopEventsComplete ==
  Published /\ manifest.dropped = 0 =>
    /\ loop \notin silent
    /\ \A n \in 1..handed : n \in W!ElementsOf(disk[events])

\* The same for every thread that records.
CompleteMeansEverything ==
  Published /\ manifest.dropped = 0 => silent = {}

\* A strict session, or one without a directory, never becomes a package once a
\* write has failed.
StrictPublishesNoLoss == Published => ~readyError /\ (strict => failed = {})

\* No socket span is left behind: when the session has ended, every handle that
\* register_socket() took has been closed, by its socket or by end(), although
\* sockets open and close on other threads while end() walks them.
NoSocketLeftOpen == ended => \A h \in Handles : span[h] # "owned"

\* end() is idempotent: the package of the first is never written over.
ManifestNeverReplaced == [][Published => UNCHANGED manifest]_vars

Begun(e) == epc[e] # "idle"
Over(e) == epc[e] \in {"returned", "raised", "cancelled", "cancelledPublishing", "gone"}

\* end() returns, unless another end() sleeps with the session's lock in its hands.
EndReturnsUnlessLockKept ==
  \A e \in Enders : Begun(e) ~> Over(e) \/ \E x \in Enders : epc[x] = "awaitLocked"

\* end() returns, called once or twice.
EndReturns == \A e \in Enders : Begun(e) ~> Over(e)
===============================================================================

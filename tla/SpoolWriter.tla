------------------------------ MODULE SpoolWriter ------------------------------
(***************************************************************************)
(* _writer.py: one private thread per session appends to the files of the  *)
(* session directory; any thread submits to it through a bounded queue and *)
(* any thread may close it.                                                *)
(*                                                                         *)
(* A payload is abstracted to its number, the order in which submit() was  *)
(* handed it while the writer accepted; a file is an opaque name.          *)
(* submit() holds the lock from its test to its put_nowait and does not    *)
(* block in between, so it is one step, except on a full queue: on_drop    *)
(* then runs under the lock and takes locks of its own.  close() blocks    *)
(* inside the lock (the put of the sentinel) and outside it (the join).    *)
(***************************************************************************)
EXTENDS Naturals, Sequences, FiniteSets

CONSTANTS Threads,    \* threads that call submit() or close()
          Timed,      \* those whose close() has a timeout: the atexit hook,
                      \* which closes and never submits
          Files,      \* the files of the session directory
          MaxQueued,  \* max_queued_writes
          MaxHanded,  \* bound of the model: submits made while accepting
          NoThread,   \* the lock is free
          NoWrite,    \* no write is being worked on
          Stop        \* the sentinel _STOP

ASSUME WriterAssumption ==
  /\ Timed \subseteq Threads
  /\ MaxQueued \in Nat \ {0}
  /\ MaxHanded \in Nat
  /\ NoThread \notin Threads
  /\ NoWrite \notin [file : Files, no : Nat]
  /\ Stop \notin [file : Files, no : Nat]

Write == [file : Files, no : Nat]

VARIABLES
  strict,      \* _strict, fixed by the constructor
  lock,        \* the thread that holds _lock, or NoThread
  accepting,   \* _accepting
  queue,       \* _queue: writes, and at most one Stop
  pc,          \* where each thread is in submit() or close()
  arg,         \* the write the holder of the lock is calling on_drop for
  wpc,         \* where the writer thread is in _run()
  hand,        \* the write _append() works on
  readyError,  \* ready_error is set
  firstError,  \* first_error is set
  kept,        \* per file, what failed flushes left in its handle's buffer
  disk,        \* per file, the numbers of the writes in it, in file order
  reported,    \* per file, how often on_drop or on_error was called for it
  handed,      \* history: submits made while accepting
  dropped,     \* history: the writes on_drop was called for
  failed,      \* history: the writes on_error was called for
  skipped      \* history: the writes a strict writer passed over

callVars == <<lock, accepting, pc, arg>>
workVars == <<wpc, hand, readyError, firstError, kept, disk, failed, skipped>>
vars == <<strict, queue, callVars, workVars, reported, handed, dropped>>

Init ==
  /\ strict \in BOOLEAN
  /\ lock = NoThread /\ accepting = TRUE /\ queue = <<>>
  /\ pc = [t \in Threads |-> "out"] /\ arg = NoWrite
  /\ wpc = "start" /\ hand = NoWrite
  /\ readyError = FALSE /\ firstError = FALSE
  /\ kept = [f \in Files |-> <<>>]
  /\ disk = [f \in Files |-> <<>>]
  /\ reported = [f \in Files |-> 0]
  /\ handed = 0 /\ dropped = {} /\ failed = {} /\ skipped = {}

Goto(t, place) == pc' = [pc EXCEPT ![t] = place]

-------------------------------------------------------------------------------
(* submit() *)

\* Bug: submit() trusts a test made before it took the lock.
StillAcceptingUnchecked == TRUE

StillAccepting == accepting

\* Bug: the newest write is served first.
QueuedInFront(item) == <<item>> \o queue

Queued(item) == Append(queue, item)

\* The write submit() is called with: the next number.
NewWrite(f) == [file |-> f, no |-> handed + 1]

Entered(t) == pc[t] = "out" /\ lock = NoThread

Accept(t, f) ==
  /\ Entered(t) /\ StillAccepting
  /\ Len(queue) < MaxQueued /\ handed < MaxHanded
  /\ handed' = handed + 1
  /\ queue' = Queued(NewWrite(f))
  /\ UNCHANGED <<strict, callVars, workVars, reported, dropped>>

\* put_nowait raised queue.Full: on_drop is called with the lock still held.
Overflow(t, f) ==
  /\ Entered(t) /\ StillAccepting
  /\ Len(queue) >= MaxQueued /\ handed < MaxHanded
  /\ handed' = handed + 1
  /\ lock' = t
  /\ Goto(t, "dropping")
  /\ arg' = NewWrite(f)
  /\ UNCHANGED <<strict, queue, accepting, workVars, reported, dropped>>

\* on_drop has counted the write; the lock is released, submit() returns False.
ReportDrop(t) ==
  /\ pc[t] = "dropping"
  /\ reported' = [reported EXCEPT ![arg.file] = @ + 1]
  /\ dropped' = dropped \cup {arg}
  /\ lock' = NoThread
  /\ Goto(t, "out")
  /\ arg' = NoWrite
  /\ UNCHANGED <<strict, queue, accepting, workVars, handed>>

\* submit() on a closed writer returns False and tells nobody.
Refuse(t) ==
  /\ pc[t] \in {"out", "closed"} /\ lock = NoThread /\ ~StillAccepting
  /\ UNCHANGED vars

-------------------------------------------------------------------------------
(* close() *)

\* The first to close keeps the lock until the sentinel is in the queue; a later
\* one finds _accepting false and only joins.
StopAccepting(t) ==
  /\ Entered(t)
  /\ accepting' = FALSE
  /\ lock' = IF accepting THEN t ELSE NoThread
  /\ Goto(t, IF accepting THEN "putStop" ELSE "join")
  /\ UNCHANGED <<strict, queue, arg, workVars, reported, handed, dropped>>

\* Bug: the sentinel is put without waiting for room, and given up when full.
PutStopNoWait(t) ==
  /\ pc[t] = "putStop"
  /\ queue' = IF Len(queue) < MaxQueued THEN Queued(Stop) ELSE queue
  /\ lock' = NoThread
  /\ Goto(t, "join")
  /\ UNCHANGED <<strict, accepting, arg, workVars, reported, handed, dropped>>

\* A blocking put, under the lock, that waits for the writer to make room.
PutStop(t) ==
  /\ pc[t] = "putStop" /\ Len(queue) < MaxQueued
  /\ queue' = Queued(Stop)
  /\ lock' = NoThread
  /\ Goto(t, "join")
  /\ UNCHANGED <<strict, accepting, arg, workVars, reported, handed, dropped>>

\* Bug: close() leaves the thread to itself.
JoinedAtOnce == TRUE

\* Bug: close() waits for the queue to be empty, not for the thread to end.
JoinedQueueOnly == queue = <<>>

Joined == wpc = "exited"

\* The join; with a timeout (only the atexit hook's) it may give up before.
Join(t) ==
  /\ pc[t] = "join" /\ (Joined \/ t \in Timed)
  /\ Goto(t, "closed")
  /\ UNCHANGED <<strict, queue, lock, accepting, arg, workVars, reported, handed,
                 dropped>>

-------------------------------------------------------------------------------
(* The writer thread: _run(), _append(), _fail() *)

MakeDirs ==
  /\ wpc = "start"
  /\ readyError' \in BOOLEAN
  /\ wpc' = "get"
  /\ UNCHANGED <<strict, queue, callVars, hand, firstError, kept, disk, failed,
                 skipped, reported, handed, dropped>>

IsStop(item) == item = Stop

Get ==
  /\ wpc = "get" /\ queue # <<>>
  /\ queue' = Tail(queue)
  /\ IF IsStop(Head(queue)) THEN wpc' = "exiting" /\ UNCHANGED hand
                            ELSE wpc' = "append" /\ hand' = Head(queue)
  /\ UNCHANGED <<strict, callVars, readyError, firstError, kept, disk, failed,
                 skipped, reported, handed, dropped>>

\* Bug: a strict session goes on writing.
ShortCircuitNever == FALSE

\* Bug: every session stops writing after its first failure.
ShortCircuitAlways == firstError

\* A strict session stops writing after its first failure.
ShortCircuit == strict /\ firstError

AppendSkipped ==
  /\ wpc = "append" /\ ShortCircuit
  /\ skipped' = skipped \cup {hand}
  /\ hand' = NoWrite
  /\ wpc' = "get"
  /\ UNCHANGED <<strict, queue, callVars, readyError, firstError, kept, disk,
                 failed, reported, handed, dropped>>

\* open(), write() and flush() succeed; the flush takes along what an earlier
\* failed flush of the same handle left in its buffer.
AppendDone ==
  /\ wpc = "append" /\ ~ShortCircuit /\ ~readyError
  /\ disk' = [disk EXCEPT ![hand.file] = Append(@ \o kept[hand.file], hand.no)]
  /\ kept' = [kept EXCEPT ![hand.file] = <<>>]
  /\ hand' = NoWrite
  /\ wpc' = "get"
  /\ UNCHANGED <<strict, queue, callVars, readyError, firstError, failed, skipped,
                 reported, handed, dropped>>

\* There is no directory, or open(), write() or flush() raises.  When it was the
\* flush, the write stays in the handle's buffer and may still land later.
AppendFails ==
  /\ wpc = "append" /\ ~ShortCircuit
  /\ \/ UNCHANGED kept
     \/ ~readyError /\ kept' = [kept EXCEPT ![hand.file] = Append(@, hand.no)]
  /\ firstError' = TRUE
  /\ wpc' = "report"
  /\ UNCHANGED <<strict, queue, callVars, hand, readyError, disk, failed, skipped,
                 reported, handed, dropped>>

\* Bug: only the failure that set first_error is reported.
ToldFirstOnly(f) == IF failed = {} THEN reported[f] + 1 ELSE reported[f]

\* on_error is called for every failure, the first and any later one.
Told(f) == reported[f] + 1

Fail ==
  /\ wpc = "report"
  /\ reported' = [reported EXCEPT ![hand.file] = Told(hand.file)]
  /\ failed' = failed \cup {hand}
  /\ hand' = NoWrite
  /\ wpc' = "get"
  /\ UNCHANGED <<strict, queue, callVars, readyError, firstError, kept, disk,
                 skipped, handed, dropped>>

\* handle.close() flushes too: in some files what was kept lands, in the others
\* it is gone and the error is swallowed.
CloseHandles ==
  /\ wpc = "exiting"
  /\ \E landed \in SUBSET Files :
       disk' = [f \in Files |-> IF f \in landed THEN disk[f] \o kept[f] ELSE disk[f]]
  /\ kept' = [f \in Files |-> <<>>]
  /\ wpc' = "exited"
  /\ UNCHANGED <<strict, queue, callVars, hand, readyError, firstError, failed,
                 skipped, reported, handed, dropped>>

-------------------------------------------------------------------------------
Submit(t) == (\E f \in Files : Accept(t, f) \/ Overflow(t, f)) \/ ReportDrop(t) \/ Refuse(t)

Close(t) == StopAccepting(t) \/ PutStop(t) \/ Join(t)

Run == MakeDirs \/ Get \/ AppendSkipped \/ AppendDone \/ AppendFails \/ Fail \/ CloseHandles

Next ==
  \/ \E t \in Threads \ Timed : Submit(t)
  \/ \E t \in Threads : Close(t)
  \/ Run

(***************************************************************************)
(* Fairness.  The writer thread keeps running, and a disk call returns     *)
(* with or without an error: WF of Run.  A thread inside on_drop, in the   *)
(* put of the sentinel or in the join keeps running: WF of its steps.      *)
(* Nobody is obliged to call submit() or close().                          *)
(***************************************************************************)
Fairness ==
  /\ WF_vars(Run)
  /\ \A t \in Threads : WF_vars(ReportDrop(t)) /\ WF_vars(PutStop(t)) /\ WF_vars(Join(t))

Spec == Init /\ [][Next]_vars /\ Fairness

-------------------------------------------------------------------------------
(* Properties *)

ElementsOf(s) == {s[i] : i \in DOMAIN s}

Increasing(s) == \A i, j \in DOMAIN s : i < j => s[i] < s[j]

\* What the session was told it will not get.
Lost == dropped \cup failed

\* The writes that are in a call, in the queue or in the writer's hand.
Unsettled == (ElementsOf(queue) \cup {hand, arg}) \ {Stop, NoWrite}

\* A close() that waited without a timeout has returned.
Drained == \E t \in Threads \ Timed : pc[t] = "closed"

TypeOK ==
  /\ strict \in BOOLEAN /\ accepting \in BOOLEAN
  /\ lock \in Threads \cup {NoThread}
  /\ queue \in Seq(Write \cup {Stop})
  /\ pc \in [Threads -> {"out", "dropping", "putStop", "join", "closed"}]
  /\ arg \in Write \cup {NoWrite}
  /\ wpc \in {"start", "get", "append", "report", "exiting", "exited"}
  /\ hand \in Write \cup {NoWrite}
  /\ readyError \in BOOLEAN /\ firstError \in BOOLEAN
  /\ kept \in [Files -> Seq(Nat)]
  /\ disk \in [Files -> Seq(Nat)]
  /\ reported \in [Files -> Nat]
  /\ handed \in Nat
  /\ dropped \in SUBSET Write /\ failed \in SUBSET Write /\ skipped \in SUBSET Write

\* submit() promises that a concurrent close() never strands an accepted write
\* behind the stop sentinel: the sentinel is the last thing ever queued, and once
\* the thread has taken it nothing is left in the queue.
NothingStranded ==
  /\ \A i \in DOMAIN queue : queue[i] = Stop => i = Len(queue)
  /\ wpc \in {"exiting", "exited"} => queue = <<>>

\* One thread is used so that events.jsonl and the raw tracks keep strict append
\* order: a file holds its writes in the order they were handed over, and nothing
\* queued comes before what a file or its buffer holds, even when failed flushes
\* leave bytes behind that land later.
AppendOrder ==
  /\ \A f \in Files :
       /\ Increasing(disk[f] \o kept[f])
       /\ \A n \in ElementsOf(disk[f] \o kept[f]), w \in ElementsOf(queue) \ {Stop} :
            w.file = f => n < w.no
  /\ \A i, j \in DOMAIN queue : i < j /\ queue[j] # Stop => queue[i].no < queue[j].no

\* Every write handed over while the writer accepted is somewhere: unsettled, in
\* its file, reported lost, or passed over by a strict writer; and the session
\* was called back exactly once per lost write.
EveryWriteAccounted ==
  /\ \A n \in 1..handed :
       \/ \E w \in Unsettled \cup Lost \cup skipped : w.no = n
       \/ \E f \in Files : n \in ElementsOf(disk[f])
  /\ \A f \in Files : reported[f] = Cardinality({w \in Lost : w.file = f})

\* What close() promises its caller: when it returns, nothing is unsettled any
\* more, and only a strict writer that had failed passed anything over.
ClosedMeansSettled ==
  Drained => Unsettled = {} /\ (skipped # {} => strict /\ firstError)

\* In strict mode the first failure short-circuits everything queued behind it:
\* only one write ever fails, and nothing numbered after it reaches a file.
StrictStopsAtFirstFailure ==
  strict =>
    \A w \in failed :
      /\ failed = {w}
      /\ \A f \in Files : \A n \in ElementsOf(disk[f]) : n <= w.no

\* Once a close() without timeout has returned, the files and the counts are
\* final: the stereo file is composed from the first right after it, and the
\* manifest is made from the second.
FilesFrozenAfterClose == [][Drained => UNCHANGED <<disk, reported>>]_vars

\* No call hangs: a submit() in on_drop and a close() return, though close() waits
\* inside the lock for room in the queue and outside it for the thread.
CallsReturn == \A t \in Threads : pc[t] # "out" ~> pc[t] \in {"out", "closed"}

(***************************************************************************)
(* The writer implements the log a session is promised.  A write being     *)
(* dropped is lost from the moment it is handed over; the write in hand    *)
(* still waits; what failed and lands later does not count as delivered.   *)
(*                                                                         *)
(* The two sequences are defined without SelectSeq, which has no           *)
(* definition a prover could expand.                                       *)
(***************************************************************************)
Without(s, bad) ==
  LET left[i \in 0..Len(s)] ==
        IF i = 0 THEN <<>>
        ELSE IF s[i] \in bad THEN left[i - 1] ELSE Append(left[i - 1], s[i])
  IN  left[Len(s)]

FailedIn(f) == {w.no : w \in {v \in failed : v.file = f}}

Delivered(f) == Without(disk[f], FailedIn(f))

\* The queue but for the sentinel, which is the last thing in it.
QueuedWrites ==
  IF queue # <<>> /\ queue[Len(queue)] = Stop THEN SubSeq(queue, 1, Len(queue) - 1) ELSE queue

Log == INSTANCE SpoolLog WITH
  open <- accepting,
  waiting <- (IF hand = NoWrite THEN <<>> ELSE <<hand>>) \o QueuedWrites,
  files <- [f \in Files |-> Delivered(f)],
  lost <- Lost \cup ({arg} \ {NoWrite}),
  broken <- strict /\ firstError /\ wpc # "report",
  finished <- Joined

\* Every behaviour of the writer is one of the log's, its liveness included.
ImplementsSpoolLog == Log!Spec
===============================================================================

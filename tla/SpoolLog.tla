------------------------------- MODULE SpoolLog -------------------------------
(***************************************************************************)
(* What a session is promised by the thread that spools it: a log that     *)
(* takes writes while it is open, settles them strictly in the order it    *)
(* took them, tells the session of every write it will not deliver, and    *)
(* reports itself finished only when nothing is left to settle.            *)
(*                                                                         *)
(* SpoolWriter is shown to implement it.  Its locks, its queue, its stop   *)
(* sentinel, its file handles and its callbacks do not appear here.        *)
(***************************************************************************)
EXTENDS Naturals, Sequences

CONSTANTS Files,      \* the files of one session directory
          MaxQueued,  \* how many writes may wait before one may be refused
          MaxHanded   \* bound of the model: writes handed to the log

Write == [file : Files, no : Nat]

VARIABLES
  strict,   \* the session's option: stop at the first loss
  open,     \* the log still takes writes
  handed,   \* how many writes it was handed while it was open
  waiting,  \* those it took and has not settled, in the order it took them
  files,    \* per file, the numbers of the writes it delivered
  lost,     \* writes it told the session it will not deliver
  skipped,  \* writes a strict log passed over once it was broken
  broken,   \* a strict log has lost a write
  finished  \* nothing is left to settle and nothing more will be taken

vars == <<strict, open, handed, waiting, files, lost, skipped, broken, finished>>

Init ==
  /\ strict \in BOOLEAN
  /\ open = TRUE
  /\ handed = 0
  /\ waiting = <<>>
  /\ files = [f \in Files |-> <<>>]
  /\ lost = {}
  /\ skipped = {}
  /\ broken = FALSE
  /\ finished = FALSE

\* The next write, numbered in the order the log was handed it.
NewWrite(f) == [file |-> f, no |-> handed + 1]

Take(f) ==
  /\ open
  /\ Len(waiting) <= MaxQueued
  /\ handed < MaxHanded
  /\ handed' = handed + 1
  /\ waiting' = Append(waiting, NewWrite(f))
  /\ UNCHANGED <<strict, open, files, lost, skipped, broken, finished>>

\* Only a log with a full queue behind it turns a write away, and it says so.
TurnAway(f) ==
  /\ open
  /\ Len(waiting) >= MaxQueued
  /\ handed < MaxHanded
  /\ handed' = handed + 1
  /\ lost' = lost \cup {NewWrite(f)}
  /\ UNCHANGED <<strict, open, waiting, files, skipped, broken, finished>>

Deliver ==
  /\ waiting # <<>> /\ ~broken
  /\ LET w == Head(waiting)
     IN  files' = [files EXCEPT ![w.file] = Append(@, w.no)]
  /\ waiting' = Tail(waiting)
  /\ UNCHANGED <<strict, open, handed, lost, skipped, broken, finished>>

Lose ==
  /\ waiting # <<>> /\ ~broken
  /\ lost' = lost \cup {Head(waiting)}
  /\ broken' = strict
  /\ waiting' = Tail(waiting)
  /\ UNCHANGED <<strict, open, handed, files, skipped, finished>>

Skip ==
  /\ waiting # <<>> /\ broken
  /\ skipped' = skipped \cup {Head(waiting)}
  /\ waiting' = Tail(waiting)
  /\ UNCHANGED <<strict, open, handed, files, lost, broken, finished>>

Shut ==
  /\ open
  /\ open' = FALSE
  /\ UNCHANGED <<strict, handed, waiting, files, lost, skipped, broken, finished>>

Finish ==
  /\ ~open /\ waiting = <<>> /\ ~finished
  /\ finished' = TRUE
  /\ UNCHANGED <<strict, open, handed, waiting, files, lost, skipped, broken>>

Settle == Deliver \/ Lose \/ Skip

Next ==
  \/ \E f \in Files : Take(f) \/ TurnAway(f)
  \/ Settle
  \/ Shut
  \/ Finish

\* What the log never does, and with it that it goes on settling.
Safety == Init /\ [][Next]_vars
Spec == Safety /\ WF_vars(Settle) /\ WF_vars(Finish)
===============================================================================

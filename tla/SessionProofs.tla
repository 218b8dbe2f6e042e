----------------------------- MODULE SessionProofs -----------------------------
(***************************************************************************)
(* Proofs about the session, for any recording threads, calls of end(),    *)
(* sockets, captures, queue size and number of events.  What is proved of  *)
(* the spool writer is used here as it stands: each step of a session is a *)
(* step of its writer or leaves the writer alone.                          *)
(***************************************************************************)
EXTENDS Session, FiniteSetTheorems, TLAPS

WP == INSTANCE SpoolWriterProofs WITH lock <- writerLock, pc <- callPc, Timed <- {},
                                      NoThread <- Nobody

\* What is between an end()'s claim of the session and its last step for it.
Finalizing == {"closing", "composing", "publishing", "cancelledPublishing", "published"}
Unpublished == Finalizing \ {"published"}
PastWriter == Finalizing \ {"closing"}

\* The tasks of the loop that must not be interleaved, and the session's flags.
EndInv ==
  /\ \A e \in Enders : epc[e] \in {"mark", "detach"} => running = e
  /\ \A e \in Enders : epc[e] \in Finalizing \cup {"cancelled"} => ended
  /\ \A d, e \in Enders : epc[d] \in Finalizing /\ epc[e] \in Finalizing => d = e
  /\ Published => ended /\ \A e \in Enders : epc[e] \notin Unpublished
  /\ \A e \in Enders : epc[e] = "detach" => ending
  /\ ended => ending

\* Where a socket that is open can be found.
SocketInv ==
  /\ \A h \in Handles : span[h] = "owned" => h \in sockets \cup todo
  /\ \A t \in Recording : rpc[t] = "forget" => what[t] \in Handles /\ span[what[t]] = "closed"
  /\ ending => sockets = {}
  /\ ended => todo = {}
  /\ todo # {} => \E e \in Enders : epc[e] = "detach"

\* The writer takes events until the session has ended, and the loop records none
\* after that.
LoopInv ==
  /\ ~ended => accepting /\ \A e \in Enders : callPc[e] = "out"
  /\ ended => rpc[loop] # "submit"
  /\ loop \notin silent

\* Who gets past the writer has seen it exit, without the errors that reject.
PackageInv ==
  /\ \A e \in Enders : epc[e] \in PastWriter => callPc[e] = "closed" /\ ~MustReject
  /\ Published => /\ \E e \in Enders : callPc[e] = "closed"
                  /\ ~MustReject /\ manifest.dropped = reported[events]

-------------------------------------------------------------------------------
(* The writer inside the session *)

LEMMA WriterAssumed == WP!WriterAssumption
  BY SessionAssumption DEF WP!WriterAssumption, Threads, Recording, Files, WP!Write

\* W and WP are two names of the same writer.
LEMMA SameState ==
  /\ W!TypeOK <=> WP!TypeOK
  /\ W!Init <=> WP!Init
  /\ W!vars = WP!vars
  /\ \A f \in Files : W!ElementsOf(disk[f]) = WP!ElementsOf(disk[f])
<1>1. W!TypeOK <=> WP!TypeOK
  BY DEF W!TypeOK, WP!TypeOK, W!Write, WP!Write
<1>2. W!Init <=> WP!Init
  BY DEF W!Init, WP!Init
<1>3. W!vars = WP!vars
  BY DEF W!vars, WP!vars, W!callVars, WP!callVars, W!workVars, WP!workVars
<1>4. QED BY <1>1, <1>2, <1>3 DEF W!ElementsOf, WP!ElementsOf

LEMMA SameSubmit ==
  ASSUME NEW t
  PROVE  /\ W!Accept(t, events) => WP!Accept(t, events)
         /\ W!Overflow(t, events) => WP!Overflow(t, events)
         /\ W!ReportDrop(t) => WP!ReportDrop(t)
         /\ W!Refuse(t) => WP!Refuse(t)
<1> USE DEF W!callVars, WP!callVars, W!workVars, WP!workVars, W!Goto, WP!Goto,
            W!Entered, WP!Entered, W!StillAccepting, WP!StillAccepting,
            W!Queued, WP!Queued, W!NewWrite, WP!NewWrite
<1>1. W!Accept(t, events) => WP!Accept(t, events)
  BY DEF W!Accept, WP!Accept
<1>2. W!Overflow(t, events) => WP!Overflow(t, events)
  BY DEF W!Overflow, WP!Overflow
<1>3. W!ReportDrop(t) => WP!ReportDrop(t)
  BY DEF W!ReportDrop, WP!ReportDrop
<1>4. W!Refuse(t) => WP!Refuse(t)
  BY DEF W!Refuse, WP!Refuse, W!vars, WP!vars
<1>5. QED BY <1>1, <1>2, <1>3, <1>4

LEMMA SameClose == ASSUME NEW e, W!Close(e) PROVE WP!Close(e)
<1> USE DEF W!workVars, WP!workVars, W!Goto, WP!Goto, W!Entered, WP!Entered
<1>1. W!StopAccepting(e) => WP!StopAccepting(e)
  BY DEF W!StopAccepting, WP!StopAccepting
<1>2. W!PutStop(e) => WP!PutStop(e)
  BY DEF W!PutStop, WP!PutStop, W!Queued, WP!Queued
<1>3. W!Join(e) => WP!Join(e)
  BY DEF W!Join, WP!Join, W!Joined, WP!Joined
<1>4. QED BY <1>1, <1>2, <1>3 DEF W!Close, WP!Close

LEMMA SameRun == W!Run => WP!Run
<1> USE DEF W!callVars, WP!callVars, W!ShortCircuit, WP!ShortCircuit
<1>1. W!MakeDirs => WP!MakeDirs
  BY DEF W!MakeDirs, WP!MakeDirs
<1>2. W!Get => WP!Get
  BY DEF W!Get, WP!Get, W!IsStop, WP!IsStop
<1>3. W!AppendSkipped => WP!AppendSkipped
  BY DEF W!AppendSkipped, WP!AppendSkipped
<1>4. W!AppendDone => WP!AppendDone
  BY DEF W!AppendDone, WP!AppendDone
<1>5. W!AppendFails => WP!AppendFails
  BY DEF W!AppendFails, WP!AppendFails
<1>6. W!Fail => WP!Fail
  BY DEF W!Fail, WP!Fail, W!Told, WP!Told
<1>7. W!CloseHandles => WP!CloseHandles
  BY DEF W!CloseHandles, WP!CloseHandles
<1>8. QED BY <1>1, <1>2, <1>3, <1>4, <1>5, <1>6, <1>7 DEF W!Run, WP!Run

\* What a step of the session is to the writer: one of its own, or nothing.
LEMMA WriterCases ==
  ASSUME [Next]_vars
  PROVE  \/ UNCHANGED writerVars
         \/ \E t \in Recording : Submit(t) \/ Drop(t)
         \/ \E e \in Enders : Close(e)
         \/ WriterRuns
<1>1. ASSUME NEW t \in Recording, \/ Record(t) \/ Forget(t)
                                  \/ \E h \in Handles : Attach(t, h) \/ Finish(t, h)
      PROVE  UNCHANGED writerVars
  BY <1>1 DEF Record, Forget, Attach, Finish
<1>2. ASSUME NEW c \in Captures, Defer(c) \/ Captured(c) PROVE UNCHANGED writerVars
  BY <1>2 DEF Defer, Captured
<1>3. ASSUME NEW e \in Enders, End(e) \/ Finalizes(e) \/ Fails(e) \/ Cancel(e)
      PROVE  UNCHANGED writerVars
  BY <1>3 DEF End, Finalizes, Gathered, MarkEnding, Detach, SetEnded, WriterDone, Composed,
              Publish, Resolve, Return, Fails, Cancel
<1>4. CancelWaiter => UNCHANGED writerVars
  BY DEF CancelWaiter
<1>5. UNCHANGED vars => UNCHANGED writerVars
  BY DEF vars
<1>6. QED BY <1>1, <1>2, <1>3, <1>4, <1>5 DEF Next, Proceeds

LEMMA WriterStep == [Next]_vars => [WP!Next]_(WP!vars)
<1> SUFFICES ASSUME [Next]_vars PROVE [WP!Next]_(WP!vars)
  OBVIOUS
<1>1. UNCHANGED writerVars => UNCHANGED WP!vars
  BY DEF writerVars, WP!vars, WP!callVars, WP!workVars
<1>2. ASSUME NEW t \in Recording, Submit(t) \/ Drop(t) PROVE WP!Next
  <2>1. WP!Submit(t)
    BY <1>2, SameSubmit DEF Submit, Drop, WP!Submit, Files
  <2>2. QED BY <2>1 DEF WP!Next, Threads
<1>3. ASSUME NEW e \in Enders, Close(e) PROVE WP!Next
  BY <1>3, SameClose DEF Close, WP!Next, Threads
<1>4. WriterRuns => WP!Next
  BY SameRun DEF WriterRuns, WP!Next
<1>5. QED BY <1>1, <1>2, <1>3, <1>4, WriterCases

\* What the writer's own proofs say holds of the writer of a session.
LEMMA WriterInductive == Spec => [](WP!IInv /\ WP!KInv)
<1>1. Init => WP!Init
  BY SameState DEF Init
<1>2. Init => WP!IInv /\ WP!KInv
  BY <1>1, WriterAssumed, WP!InitIInv, WP!InitKInv
<1>3. WP!IInv /\ WP!KInv /\ [WP!Next]_(WP!vars) => (WP!IInv /\ WP!KInv)'
  BY WriterAssumed, WP!TypeStep, WP!LockStep, WP!StopStep, WP!WorkStep, WP!OrderStep,
     WP!StrictStep, WP!AccountedStep DEF WP!IInv, WP!KInv
<1>4. QED BY <1>2, <1>3, WriterStep, PTL DEF Spec

-------------------------------------------------------------------------------
(* What the callers see of the writer *)

\* A recording thread leaves the others' places alone, and the writer open.
LEMMA SubmitMoves ==
  ASSUME WP!IInv, NEW t \in Recording, Submit(t) \/ Drop(t)
  PROVE  accepting' = accepting /\ \A e \in Enders : callPc'[e] = callPc[e]
<1>1. Enders \cap Recording = {} /\ callPc \in [Threads -> {"out", "dropping", "putStop", "join", "closed"}]
  BY SessionAssumption DEF Recording, Threads, WP!IInv, WP!TypeOK
<1>2. CASE W!Accept(t, events) \/ W!Refuse(t)
  BY <1>2 DEF W!Accept, W!Refuse, W!vars, W!callVars
<1>3. CASE W!Overflow(t, events) \/ W!ReportDrop(t)
  <2>1. accepting' = accepting /\ \E p : callPc' = [callPc EXCEPT ![t] = p]
    BY <1>3 DEF W!Overflow, W!ReportDrop, W!Goto
  <2>2. QED BY <1>1, <2>1 DEF Threads
<1>4. QED BY <1>2, <1>3 DEF Submit, Drop

\* close() closes the writer, and only the caller's own place moves.
LEMMA CloseMoves ==
  ASSUME WP!IInv, NEW e \in Enders, Close(e)
  PROVE  /\ epc[e] \in {"closing", "cancelled"} \/ callPc[e] # "out"
         /\ \A d \in Enders : d # e => callPc'[d] = callPc[d]
         /\ callPc[e] # "closed"
<1>1. callPc \in [Threads -> {"out", "dropping", "putStop", "join", "closed"}]
  BY DEF WP!IInv, WP!TypeOK
<1>2. callPc[e] # "closed" /\ \E p : callPc' = [callPc EXCEPT ![e] = p]
  BY DEF Close, W!Close, W!StopAccepting, W!PutStop, W!Join, W!Goto, W!Entered
<1>3. QED BY <1>1, <1>2 DEF Threads, Close

LEMMA RunMoves ==
  ASSUME WriterRuns
  PROVE  accepting' = accepting /\ callPc' = callPc
  BY DEF WriterRuns, W!Run, W!MakeDirs, W!Get, W!AppendSkipped, W!AppendDone, W!AppendFails,
         W!Fail, W!CloseHandles, W!callVars

-------------------------------------------------------------------------------
(* Types *)

LEMMA InitTypes == Init => TypeOK
<1> SUFFICES ASSUME Init PROVE TypeOK
  OBVIOUS
<1>1. W!TypeOK
  BY SameState, WriterAssumed, WP!InitIInv DEF Init, WP!IInv
<1>2. QED BY <1>1 DEF Init, TypeOK

LEMMA StepTypes ==
  ASSUME TypeOK, NEW t \in Recording, NEW place \in {"out", "submit", "drop", "forget"},
         Step(t, place)
  PROVE  rpc' \in [Recording -> {"out", "submit", "drop", "forget"}]
         /\ running' \in Enders \cup {loop, Nobody}
  BY DEF TypeOK, Step

LEMMA SessionTypes == TypeOK /\ WP!IInv /\ [Next]_vars => TypeOK'
<1> SUFFICES ASSUME TypeOK, WP!IInv, [Next]_vars PROVE TypeOK'
  OBVIOUS
<1>w. W!TypeOK'
  <2>1. WP!TypeOK'
    BY WriterStep, WriterAssumed, WP!TypeStep DEF WP!IInv
  <2>2. (WP!TypeOK => W!TypeOK)'
    BY SameState, PTL
  <2>3. QED BY <2>1, <2>2
<1>l. loop \in Recording
  BY DEF Recording
<1>1. ASSUME NEW t \in Recording, Record(t) \/ Submit(t) \/ Drop(t) PROVE TypeOK'
  <2>1. \E place \in {"out", "submit", "drop"} : Step(t, place)
    BY <1>1 DEF Record, Submit, Drop
  <2>2. rpc' \in [Recording -> {"out", "submit", "drop", "forget"}] /\ running' \in Enders \cup {loop, Nobody}
    BY <2>1, StepTypes
  <2>3. silent' \in SUBSET Recording
    BY <1>1 DEF Record, Submit, Drop, TypeOK
  <2>4. UNCHANGED <<stateVars, span, what, epc, gathered, todo>>
    BY <1>1 DEF Record, Submit, Drop
  <2>5. QED BY <1>w, <2>2, <2>3, <2>4 DEF TypeOK, stateVars
<1>2. ASSUME NEW t \in Recording, NEW h \in Handles, Attach(t, h) \/ Finish(t, h) PROVE TypeOK'
  <2>1. Step(t, "forget") \/ UNCHANGED <<rpc, running>>
    BY <1>2 DEF Attach, Finish
  <2>2. rpc' \in [Recording -> {"out", "submit", "drop", "forget"}] /\ running' \in Enders \cup {loop, Nobody}
    BY <2>1, StepTypes DEF TypeOK
  <2>3. /\ span' \in [Handles -> {"none", "owned", "closed"}] /\ what' \in [Recording -> Handles \cup {Nobody}]
        /\ sockets' \in SUBSET Handles
    BY <1>2 DEF Attach, Finish, TypeOK, stateVars
  <2>4. UNCHANGED <<lock, ending, ended, capture, completion, manifest, epc, gathered, todo, silent>>
    BY <1>2 DEF Attach, Finish, stateVars
  <2>5. QED BY <1>w, <2>2, <2>3, <2>4 DEF TypeOK
<1>3. ASSUME NEW t \in Recording, Forget(t) PROVE TypeOK'
  <2>1. \E place \in {"out", "submit"} : Step(t, place)
    BY <1>3 DEF Forget
  <2>2. rpc' \in [Recording -> {"out", "submit", "drop", "forget"}] /\ running' \in Enders \cup {loop, Nobody}
    BY <2>1, StepTypes
  <2>3. QED BY <1>3, <1>w, <2>2 DEF Forget, TypeOK
<1>4. ASSUME NEW c \in Captures, Defer(c) \/ Captured(c) PROVE TypeOK'
  BY <1>4, <1>w DEF Defer, Captured, TypeOK, callerVars
<1>5. CASE WriterRuns
  BY <1>5, <1>w DEF WriterRuns, TypeOK, stateVars, callerVars
<1>6. ASSUME NEW e \in Enders, End(e) \/ Gathered(e) PROVE TypeOK'
  BY <1>6, <1>w DEF End, Gathered, Pending, At, TypeOK, stateVars
<1>7. ASSUME NEW e \in Enders, MarkEnding(e) \/ SetEnded(e) PROVE TypeOK'
  BY <1>7, <1>w, ZenonT(60) DEF MarkEnding, SetEnded, EndedNow, At, TypeOK
<1>8. ASSUME NEW e \in Enders, NEW h \in Handles, Detach(e, h) PROVE TypeOK'
  <2>1. Step(loop, "forget") \/ UNCHANGED <<rpc, running>>
    BY <1>8 DEF Detach
  <2>2. rpc' \in [Recording -> {"out", "submit", "drop", "forget"}] /\ running' \in Enders \cup {loop, Nobody}
    BY <1>l, <2>1, StepTypes DEF TypeOK
  <2>3. QED BY <1>8, <1>w, <2>2 DEF Detach, TypeOK, stateVars
<1>9. ASSUME NEW e \in Enders, Close(e) PROVE TypeOK'
  BY <1>9, <1>w DEF Close, TypeOK, stateVars, callerVars
<1>10. ASSUME NEW e \in Enders, \/ WriterDone(e) \/ Composed(e) \/ Resolve(e) \/ Return(e)
                                \/ Fails(e) \/ Cancel(e)
       PROVE  TypeOK'
  BY <1>10, <1>w DEF WriterDone, Composed, Resolve, Return, Fails, Cancel, Reject, Rejected,
                     Decide, At, TypeOK, stateVars
<1>11. ASSUME NEW e \in Enders, Publish(e) PROVE TypeOK'
  <2>1. reported[events] \in Nat
    BY DEF TypeOK, W!TypeOK, Files
  <2>2. QED BY <1>11, <1>w, <2>1 DEF Publish, At, TypeOK
<1>12. CASE CancelWaiter
  BY <1>12, <1>w DEF CancelWaiter, TypeOK, callerVars
<1>13. CASE UNCHANGED vars
  BY <1>13, <1>w DEF vars, stateVars, callerVars, TypeOK
<1>14. QED BY <1>1, <1>2, <1>3, <1>4, <1>5, <1>6, <1>7, <1>8, <1>9, <1>10, <1>11, <1>12, <1>13
           DEF Next, Proceeds, Finalizes

-------------------------------------------------------------------------------
(* The invariant *)

\* A step of end(), or one that leaves every end() where it is.
LEMMA EndCases ==
  ASSUME [Next]_vars
  PROVE  \/ \E e \in Enders :
              \/ End(e) \/ Gathered(e) \/ MarkEnding(e) \/ SetEnded(e) \/ WriterDone(e)
              \/ Composed(e) \/ Publish(e) \/ Resolve(e) \/ Return(e) \/ Fails(e) \/ Cancel(e)
         \/ UNCHANGED <<epc, ending, ended, manifest>> /\ (running' = running \/ running \notin Enders)
<1>1. ASSUME NEW t, NEW place, Step(t, place) PROVE running' = running \/ running \notin Enders
  BY <1>1 DEF Step
<1>2. ASSUME NEW t \in Recording, \/ Record(t) \/ Proceeds(t)
                                  \/ \E h \in Handles : Attach(t, h) \/ Finish(t, h)
      PROVE  UNCHANGED <<epc, ending, ended, manifest>> /\ (running' = running \/ running \notin Enders)
  BY <1>1, <1>2 DEF Record, Proceeds, Submit, Drop, Forget, Attach, Finish, stateVars
<1>3. ASSUME NEW c \in Captures, Defer(c) \/ Captured(c)
      PROVE  UNCHANGED <<epc, ending, ended, manifest>> /\ running' = running
  BY <1>3 DEF Defer, Captured, callerVars
<1>4. ASSUME NEW e \in Enders, NEW h \in Handles, Detach(e, h)
      PROVE  UNCHANGED <<epc, ending, ended, manifest>> /\ (running' = running \/ running \notin Enders)
  BY <1>1, <1>4 DEF Detach, stateVars
<1>5. ASSUME WriterRuns \/ CancelWaiter \/ UNCHANGED vars \/ \E e \in Enders : Close(e)
      PROVE  UNCHANGED <<epc, ending, ended, manifest>> /\ running' = running
  BY <1>5 DEF WriterRuns, CancelWaiter, Close, vars, stateVars, callerVars
<1>6. QED BY <1>2, <1>3, <1>4, <1>5 DEF Next, Finalizes

LEMMA EndStep == TypeOK /\ EndInv /\ [Next]_vars => EndInv'
<1> SUFFICES ASSUME TypeOK, EndInv, [Next]_vars PROVE EndInv'
  OBVIOUS
<1> USE DEF Finalizing, Unpublished, Published
<1>t. epc \in [Enders -> {"idle", "gather", "mark", "detach", "closing", "composing",
                         "publishing", "cancelledPublishing", "published", "await",
                         "awaitLocked", "returned", "raised", "cancelled", "gone"}]
      /\ Nobody \notin Enders
  BY SessionAssumption DEF TypeOK
<1>1. ASSUME NEW e \in Enders, End(e) \/ Gathered(e) PROVE EndInv'
  BY <1>1, <1>t DEF End, Gathered, At, EndInv, stateVars
<1>2. ASSUME NEW e \in Enders, MarkEnding(e) PROVE EndInv'
  BY <1>2, <1>t DEF MarkEnding, At, EndInv
<1>3. ASSUME NEW e \in Enders, SetEnded(e) PROVE EndInv'
  <2>1. CASE ended
    BY <1>3, <1>t, <2>1 DEF SetEnded, EndedMeanwhile, At, EndInv
  <2>2. CASE ~ended
    <3>1. ended' = TRUE /\ running' = Nobody /\ running = e /\ UNCHANGED <<ending, manifest>>
          /\ epc' = [epc EXCEPT ![e] = "closing"] /\ epc[e] = "detach"
      BY <1>3, <2>2 DEF SetEnded, EndedMeanwhile, EndedNow, At, EndInv
    <3>2. ending
      BY <1>3 DEF EndInv, SetEnded
    <3>3. QED BY <1>t, <2>2, <3>1, <3>2 DEF EndInv
  <2>3. QED BY <2>1, <2>2
<1>4. ASSUME NEW e \in Enders, \/ WriterDone(e) \/ Composed(e) \/ Resolve(e) \/ Return(e)
                               \/ Fails(e) \/ Cancel(e)
      PROVE  EndInv'
  BY <1>4, <1>t DEF WriterDone, Composed, Resolve, Return, Fails, Cancel, Reject, At, EndInv,
                    stateVars
<1>5. ASSUME NEW e \in Enders, Publish(e) PROVE EndInv'
  BY <1>5, <1>t DEF Publish, At, EndInv
<1>6. CASE UNCHANGED <<epc, ending, ended, manifest>> /\ (running' = running \/ running \notin Enders)
  BY <1>6 DEF EndInv
<1>7. QED BY <1>1, <1>2, <1>3, <1>4, <1>5, <1>6, EndCases

LEMMA SocketStep == TypeOK /\ EndInv /\ SocketInv /\ [Next]_vars => SocketInv'
<1> SUFFICES ASSUME TypeOK, EndInv, SocketInv, [Next]_vars PROVE SocketInv'
  OBVIOUS
<1> USE DEF Finalizing
<1>t. /\ epc \in [Enders -> {"idle", "gather", "mark", "detach", "closing", "composing",
                         "publishing", "cancelledPublishing", "published", "await",
                         "awaitLocked", "returned", "raised", "cancelled", "gone"}]
      /\ span \in [Handles -> {"none", "owned", "closed"}]
      /\ rpc \in [Recording -> {"out", "submit", "drop", "forget"}]
      /\ what \in [Recording -> Handles \cup {Nobody}]
      /\ Nobody \notin Enders /\ loop \in Recording
  BY SessionAssumption DEF TypeOK, Recording
<1>1. ASSUME NEW t \in Recording, Record(t) \/ Submit(t) \/ Drop(t) PROVE SocketInv'
  <2>1. UNCHANGED <<span, sockets, todo, what, ending, ended, epc>>
        /\ \E place \in {"out", "submit", "drop"} : rpc' = [rpc EXCEPT ![t] = place]
    BY <1>1 DEF Record, Submit, Drop, Step, stateVars
  <2>2. QED BY <1>t, <2>1 DEF SocketInv
<1>2. ASSUME NEW t \in Recording, NEW h \in Handles, Attach(t, h) PROVE SocketInv'
  BY <1>2, <1>t DEF Attach, RegistrationClosed, Step, SocketInv
<1>3. ASSUME NEW t \in Recording, NEW h \in Handles, Finish(t, h) PROVE SocketInv'
  BY <1>3, <1>t DEF Finish, Step, SocketInv, stateVars
<1>4. ASSUME NEW t \in Recording, Forget(t) PROVE SocketInv'
  BY <1>4, <1>t DEF Forget, Step, SocketInv
<1>5. ASSUME NEW e \in Enders, MarkEnding(e) PROVE SocketInv'
  <2>1. todo = {}
    BY <1>5 DEF MarkEnding, SocketInv, EndInv
  <2>2. QED BY <1>5, <1>t, <2>1 DEF MarkEnding, At, SocketInv, EndInv
<1>6. ASSUME NEW e \in Enders, NEW h \in Handles, Detach(e, h) PROVE SocketInv'
  BY <1>6, <1>t DEF Detach, Step, SocketInv, stateVars
<1>7. ASSUME NEW e \in Enders, SetEnded(e) PROVE SocketInv'
  BY <1>7, <1>t DEF SetEnded, EndedMeanwhile, EndedNow, At, SocketInv, EndInv
<1>8. ASSUME UNCHANGED <<span, sockets, todo, what, rpc, ending, ended>>,
             \A e \in Enders : epc[e] = "detach" => epc'[e] = "detach"
      PROVE  SocketInv'
  BY <1>8 DEF SocketInv
<1>9. ASSUME NEW e \in Enders, \/ End(e) \/ Gathered(e) \/ WriterDone(e) \/ Composed(e) \/ Publish(e)
                               \/ Resolve(e) \/ Return(e) \/ Fails(e) \/ Cancel(e)
      PROVE  SocketInv'
  BY <1>8, <1>9, <1>t DEF End, Gathered, WriterDone, Composed, Publish, Resolve, Return, Fails,
                          Cancel, Reject, At, stateVars
<1>10. ASSUME \/ WriterRuns \/ CancelWaiter \/ UNCHANGED vars
              \/ (\E e \in Enders : Close(e)) \/ \E c \in Captures : Defer(c) \/ Captured(c)
       PROVE  SocketInv'
  BY <1>8, <1>10 DEF WriterRuns, CancelWaiter, Close, Defer, Captured, vars, stateVars, callerVars
<1>11. QED BY <1>1, <1>2, <1>3, <1>4, <1>5, <1>6, <1>7, <1>9, <1>10 DEF Next, Proceeds, Finalizes

LEMMA LoopStep == TypeOK /\ WP!IInv /\ EndInv /\ LoopInv /\ [Next]_vars => LoopInv'
<1> SUFFICES ASSUME TypeOK, WP!IInv, EndInv, LoopInv, [Next]_vars PROVE LoopInv'
  OBVIOUS
<1>t. rpc \in [Recording -> {"out", "submit", "drop", "forget"}] /\ loop \in Recording
  BY DEF TypeOK, Recording
<1>1. ASSUME NEW t \in Recording, Submit(t) \/ Drop(t) PROVE LoopInv'
  <2>1. UNCHANGED <<accepting, ended>> /\ \A e \in Enders : callPc'[e] = callPc[e]
    BY <1>1, SubmitMoves DEF Submit, Drop, stateVars
  <2>2. rpc'[loop] \in {rpc[loop], "out", "drop"}
    BY <1>1, <1>t DEF Submit, Drop, Step
  <2>3. loop \notin silent'
    <3>1. W!Refuse(loop) /\ rpc[loop] = "submit" => FALSE
      BY DEF LoopInv, W!Refuse, W!StillAccepting
    <3>2. QED BY <1>1, <3>1 DEF Submit, Drop, LoopInv
  <2>4. QED BY <2>1, <2>2, <2>3 DEF LoopInv
<1>2. ASSUME NEW e \in Enders, Close(e) PROVE LoopInv'
  <2>1. UNCHANGED <<rpc, ended, silent>> /\ ended
    BY <1>2, CloseMoves DEF Close, EndInv, LoopInv, Finalizing, stateVars, callerVars
  <2>2. QED BY <2>1 DEF LoopInv
<1>3. CASE WriterRuns
  BY <1>3, RunMoves DEF WriterRuns, LoopInv, stateVars, callerVars
<1>4. ASSUME NEW t \in Recording, \/ Record(t) \/ Forget(t)
                                  \/ \E h \in Handles : Attach(t, h) \/ Finish(t, h)
      PROVE  LoopInv'
  <2>1. UNCHANGED <<accepting, callPc, ended, silent>>
    BY <1>4 DEF Record, Forget, Attach, Finish, writerVars, stateVars
  <2>2. ended => rpc'[loop] \in {rpc[loop], "out", "forget"}
    BY <1>4, <1>t DEF Record, Forget, Attach, Finish, Step
  <2>3. QED BY <2>1, <2>2 DEF LoopInv
<1>5. ASSUME NEW e \in Enders, SetEnded(e) PROVE LoopInv'
  <2>1. UNCHANGED <<accepting, callPc, rpc, silent>> /\ rpc[loop] = "out" /\ (ended => ended')
    BY <1>5 DEF SetEnded, EndedMeanwhile, EndedNow, writerVars
  <2>2. QED BY <2>1 DEF LoopInv
<1>6. ASSUME NEW e \in Enders, NEW h \in Handles, Detach(e, h) PROVE LoopInv'
  <2>1. UNCHANGED <<accepting, callPc, ended, silent>> /\ rpc'[loop] \in {rpc[loop], "forget"}
    BY <1>6, <1>t DEF Detach, Step, writerVars, stateVars
  <2>2. QED BY <2>1 DEF LoopInv
<1>7. ASSUME NEW e \in Enders, \/ End(e) \/ Gathered(e) \/ MarkEnding(e) \/ WriterDone(e) \/ Composed(e)
                               \/ Publish(e) \/ Resolve(e) \/ Return(e) \/ Fails(e) \/ Cancel(e)
      PROVE  LoopInv'
  <2>1. UNCHANGED <<accepting, callPc, rpc, ended, silent>>
    BY <1>7 DEF End, Gathered, MarkEnding, WriterDone, Composed, Publish, Resolve, Return, Fails,
                Cancel, writerVars, stateVars
  <2>2. QED BY <2>1 DEF LoopInv
<1>8. ASSUME \/ CancelWaiter \/ UNCHANGED vars \/ \E c \in Captures : Defer(c) \/ Captured(c)
      PROVE  LoopInv'
  BY <1>8 DEF CancelWaiter, Defer, Captured, vars, stateVars, callerVars, writerVars, LoopInv
<1>9. QED BY <1>1, <1>2, <1>3, <1>4, <1>5, <1>6, <1>7, <1>8 DEF Next, Proceeds, Finalizes

\* The writer's flags and counts are those of its last moment once a close() has
\* returned, and a close() that has returned stays so.
LEMMA PackageStep == TypeOK /\ WP!IInv /\ EndInv /\ PackageInv /\ [Next]_vars => PackageInv'
<1> SUFFICES ASSUME TypeOK, WP!IInv, EndInv, PackageInv, [Next]_vars PROVE PackageInv'
  OBVIOUS
<1> USE DEF Finalizing, Unpublished, PastWriter, Published
<1>t. epc \in [Enders -> {"idle", "gather", "mark", "detach", "closing", "composing",
                         "publishing", "cancelledPublishing", "published", "await",
                         "awaitLocked", "returned", "raised", "cancelled", "gone"}]
      /\ NoManifest \notin [by : Enders, dropped : Nat] /\ reported[events] \in Nat
  BY SessionAssumption DEF TypeOK, W!TypeOK, Files
<1>1. ASSUME \/ \E t \in Recording : Submit(t) \/ Drop(t)
             \/ \E e \in Enders : Close(e)
             \/ WriterRuns
      PROVE  PackageInv'
  <2>1. UNCHANGED <<epc, manifest>> /\ \A e \in Enders : callPc[e] = "closed" => callPc'[e] = "closed"
    <3>1. ASSUME NEW t \in Recording, Submit(t) \/ Drop(t)
          PROVE  UNCHANGED <<epc, manifest>> /\ \A e \in Enders : callPc'[e] = callPc[e]
      BY <3>1, SubmitMoves DEF Submit, Drop, stateVars
    <3>2. ASSUME NEW d \in Enders, Close(d)
          PROVE  UNCHANGED <<epc, manifest>> /\ \A e \in Enders : callPc[e] = "closed" => callPc'[e] = "closed"
      BY <3>2, CloseMoves DEF Close, stateVars, callerVars
    <3>3. CASE WriterRuns
      BY <3>3, RunMoves DEF WriterRuns, stateVars, callerVars
    <3>4. QED BY <1>1, <3>1, <3>2, <3>3
  <2>2. CASE \E e \in Enders : callPc[e] = "closed"
    <3>1. WP!Drained
      BY <2>2 DEF WP!Drained, Threads
    <3>2. UNCHANGED <<strict, WP!workVars, reported>>
      BY <3>1, WriterStep, WriterAssumed, WP!SettledStep
    <3>3. UNCHANGED <<strict, readyError, firstError, reported>>
      BY <3>2 DEF WP!workVars
    <3>4. MustReject' = MustReject
      BY <3>3, Zenon DEF MustReject
    <3>5. QED BY <2>1, <3>3, <3>4 DEF PackageInv
  <2>3. CASE ~ \E e \in Enders : callPc[e] = "closed"
    BY <2>1, <2>3 DEF PackageInv
  <2>4. QED BY <2>2, <2>3
<1>2. CASE UNCHANGED writerVars
  <2>1. UNCHANGED <<callPc, reported, strict, readyError, firstError>>
    BY <1>2 DEF writerVars
  <2>2. MustReject' = MustReject
    BY <2>1, Zenon DEF MustReject
  <2>3. ASSUME UNCHANGED manifest,
               \A e \in Enders : epc'[e] \in PastWriter =>
                 epc[e] \in PastWriter \/ (callPc[e] = "closed" /\ ~MustReject)
        PROVE  PackageInv'
    BY <2>1, <2>2, <2>3 DEF PackageInv
  <2>4. ASSUME NEW e \in Enders, Publish(e) PROVE PackageInv'
    <3>1. callPc[e] = "closed" /\ ~MustReject /\ manifest' = [by |-> e, dropped |-> reported[events]]
      BY <2>4 DEF Publish, PackageInv
    <3>2. \A d \in Enders : epc'[d] \in PastWriter => epc[d] \in PastWriter
      BY <2>4, <1>t DEF Publish, At
    <3>3. QED BY <2>1, <2>2, <3>1, <3>2 DEF PackageInv
  <2>5. ASSUME NEW e \in Enders, WriterDone(e) PROVE PackageInv'
    BY <2>3, <2>5, <1>t DEF WriterDone, WriterClosed, Reject, At
  <2>6. ASSUME NEW e \in Enders, \/ End(e) \/ Gathered(e) \/ MarkEnding(e) \/ SetEnded(e) \/ Composed(e)
                                 \/ Resolve(e) \/ Return(e) \/ Fails(e) \/ Cancel(e)
        PROVE  PackageInv'
    BY <2>3, <2>6, <1>t DEF End, Gathered, MarkEnding, SetEnded, Composed, Resolve, Return, Fails,
                            Cancel, Reject, At, stateVars
  <2>7. CASE UNCHANGED <<epc, ending, ended, manifest>>
    BY <2>3, <2>7
  <2>8. QED BY <2>4, <2>5, <2>6, <2>7, EndCases
<1>3. QED BY <1>1, <1>2, WriterCases

\* All of it.
SInv == TypeOK /\ EndInv /\ SocketInv /\ LoopInv /\ PackageInv

LEMMA InitSInv == Init => SInv
<1> SUFFICES ASSUME Init PROVE SInv
  OBVIOUS
<1>1. accepting = TRUE /\ callPc = [t \in Threads |-> "out"]
  BY DEF Init, W!Init
<1>2. LoopInv
  BY <1>1 DEF Init, LoopInv, Threads
<1>3. EndInv /\ SocketInv /\ PackageInv
  BY DEF Init, EndInv, SocketInv, PackageInv, Finalizing, Unpublished, PastWriter, Published
<1>4. QED BY <1>2, <1>3, InitTypes DEF SInv

LEMMA SessionInductive == Spec => []SInv
<1>1. SInv /\ WP!IInv /\ [Next]_vars => SInv'
  BY SessionTypes, EndStep, SocketStep, LoopStep, PackageStep DEF SInv
<1>2. QED BY InitSInv, WriterInductive, <1>1, PTL DEF Spec

-------------------------------------------------------------------------------
(* The theorems *)

\* The session's variables, the writer's among them, keep their types.
THEOREM SessionTypeCorrect == Spec => []TypeOK
<1>1. SInv => TypeOK
  BY DEF SInv
<1>2. QED BY SessionInductive, <1>1, PTL

\* What it means for the writer that a manifest is out.
LEMMA PublishedIsDrained ==
  ASSUME SInv, WP!IInv, Published
  PROVE  WP!Drained /\ wpc = "exited" /\ queue = <<>> /\ ~MustReject
<1>1. WP!Drained
  BY DEF SInv, PackageInv, WP!Drained, Threads
<1>2. wpc = "exited" /\ queue = <<>>
  BY <1>1, WriterAssumed, WP!DrainedIsOver
<1>3. QED BY <1>1, <1>2 DEF SInv, PackageInv

\* The manifest states the losses there are when it is written and ever after.
THEOREM SessionCountsAreFinal == Spec => []ManifestCountsAreFinal
<1>1. SInv /\ WP!IInv => ManifestCountsAreFinal
  BY PublishedIsDrained DEF ManifestCountsAreFinal, SInv, PackageInv
<1>2. QED BY SessionInductive, WriterInductive, <1>1, PTL

\* No session becomes a package without its directory, no strict one after a
\* failed write.
THEOREM SessionStrictPublishesNoLoss == Spec => []StrictPublishesNoLoss
<1>1. SInv /\ WP!IInv /\ WP!KInv => StrictPublishesNoLoss
  BY PublishedIsDrained DEF StrictPublishesNoLoss, MustReject, WP!KInv, WP!StrictInv
<1>2. QED BY SessionInductive, WriterInductive, <1>1, PTL

\* A package whose manifest states no loss holds every event that the writer
\* took, and the loop's callbacks were refused none.
THEOREM SessionLoopEventsComplete == Spec => []LoopEventsComplete
<1>1. SInv /\ WP!IInv /\ WP!KInv => LoopEventsComplete
  <2> SUFFICES ASSUME SInv, WP!IInv, WP!KInv, Published, manifest.dropped = 0
               PROVE  loop \notin silent /\ \A n \in 1..handed : n \in W!ElementsOf(disk[events])
    BY DEF LoopEventsComplete
  <2>1. WP!Drained /\ ~MustReject /\ reported[events] = 0
    BY PublishedIsDrained DEF SInv, PackageInv
  <2>2. WP!Unsettled = {} /\ skipped = {}
    BY <2>1, WriterAssumed, WP!SettledIs DEF MustReject
  <2>3. WP!Lost = {}
    <3>1. \A w \in WP!Lost : w.file # events
      BY <2>1, WriterAssumed, WP!NoneLost DEF WP!KInv, Files
    <3>2. \A w \in WP!Lost : w.file = events
      BY DEF WP!Lost, WP!IInv, WP!TypeOK, WP!Write, Files
    <3>3. QED BY <3>1, <3>2
  <2>4. \A n \in 1..handed : n \in WP!ElementsOf(disk[events])
    BY <2>2, <2>3 DEF WP!KInv, WP!Accounted, WP!EveryWriteAccounted, Files
  <2>5. QED BY <2>4, SameState DEF SInv, LoopInv, Files
<1>2. QED BY SessionInductive, WriterInductive, <1>1, PTL

\* When the session has ended no socket it was given is open, whatever threads
\* opened and closed them meanwhile.
THEOREM SessionLeavesNoSocket == Spec => []NoSocketLeftOpen
<1>1. SInv => NoSocketLeftOpen
  BY DEF SInv, EndInv, SocketInv, NoSocketLeftOpen
<1>2. QED BY SessionInductive, <1>1, PTL

\* A manifest that is out is never written over, however many calls of end() and
\* cancellations there are.
THEOREM SessionManifestKept == Spec => ManifestNeverReplaced
<1>1. SInv /\ [Next]_vars => [Published => UNCHANGED manifest]_vars
  <2> SUFFICES ASSUME SInv, [Next]_vars, Published PROVE UNCHANGED manifest
    OBVIOUS
  <2>1. ASSUME NEW e \in Enders, Publish(e) PROVE FALSE
    BY <2>1 DEF Publish, SInv, EndInv, Unpublished, Finalizing
  <2>2. ASSUME NEW e \in Enders, \/ End(e) \/ Gathered(e) \/ MarkEnding(e) \/ SetEnded(e) \/ WriterDone(e)
                                 \/ Composed(e) \/ Resolve(e) \/ Return(e) \/ Fails(e) \/ Cancel(e)
        PROVE  UNCHANGED manifest
    BY <2>2 DEF End, Gathered, MarkEnding, SetEnded, WriterDone, Composed, Resolve, Return, Fails,
                Cancel, stateVars
  <2>3. QED BY <2>1, <2>2, EndCases
<1>2. QED BY SessionInductive, <1>1, PTL DEF Spec, ManifestNeverReplaced
===============================================================================

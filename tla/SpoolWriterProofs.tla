--------------------------- MODULE SpoolWriterProofs ---------------------------
(***************************************************************************)
(* Proofs about the spool writer, for any threads, files, queue size and   *)
(* number of writes.                                                       *)
(***************************************************************************)
EXTENDS SpoolWriter, SequenceTheorems, FiniteSetTheorems, TLAPS

\* Who may be inside the lock, and what that says of the queue's end: a thread in
\* on_drop or in the put of the sentinel holds the lock; the writer accepts as
\* long as somebody is in on_drop, and no longer once the sentinel is on its way.
LockInv ==
  /\ \A t \in Threads : pc[t] \in {"dropping", "putStop"} => lock = t
  /\ \A t \in Threads : pc[t] = "dropping" => accepting /\ arg \in Write
  /\ arg # NoWrite => \E t \in Threads : pc[t] = "dropping"
  /\ \A t \in Threads : pc[t] = "putStop" => ~accepting

\* The sentinel is put once, after the last write, and taken once.
StopInv ==
  /\ \A i \in 1..Len(queue) : queue[i] = Stop => i = Len(queue) /\ ~accepting
  /\ \A t \in Threads : pc[t] = "putStop" =>
       /\ \A i \in 1..Len(queue) : queue[i] # Stop
       /\ wpc \notin {"exiting", "exited"}
  /\ wpc \in {"exiting", "exited"} => queue = <<>> /\ ~accepting

\* What the writer thread has in hand, and what a join has seen of it.
WorkInv ==
  /\ wpc \in {"append", "report"} <=> hand # NoWrite
  /\ skipped # {} => strict /\ firstError
  /\ \A t \in Threads \ Timed : pc[t] = "closed" => wpc = "exited"

IInv == TypeOK /\ LockInv /\ StopInv /\ WorkInv

\* The queue stays one of writes and sentinels, and the shape of its parts.
LEMMA QueueFacts ==
  ASSUME TypeOK
  PROVE  /\ Len(queue) \in Nat
         /\ \A i \in 1..Len(queue) : queue[i] \in Write \cup {Stop}
         /\ queue # <<>> =>
              /\ Len(queue) > 0
              /\ Head(queue) = queue[1]
              /\ Len(Tail(queue)) = Len(queue) - 1
              /\ Tail(queue) \in Seq(Write \cup {Stop})
              /\ \A i \in 1..Len(Tail(queue)) : Tail(queue)[i] = queue[i + 1]
  BY DEF TypeOK

LEMMA InitIInv == Init => IInv
<1> SUFFICES ASSUME Init PROVE IInv
  OBVIOUS
<1>1. TypeOK
  <2>1. <<>> \in Seq(Nat) /\ <<>> \in Seq(Write \cup {Stop})
    OBVIOUS
  <2>2. queue \in Seq(Write \cup {Stop}) /\ kept \in [Files -> Seq(Nat)] /\ disk \in [Files -> Seq(Nat)]
    BY <2>1 DEF Init
  <2>3. QED BY <2>2 DEF Init, TypeOK
<1>2. LockInv /\ WorkInv
  BY WriterAssumption DEF Init, LockInv, WorkInv
<1>3. StopInv
  BY DEF Init, StopInv
<1>4. QED BY <1>1, <1>2, <1>3 DEF IInv

\* Type correctness is preserved on its own, but for the threads that hold the
\* lock and the hand of the writer, which LockInv and WorkInv describe.
LEMMA TypeStep == IInv /\ [Next]_vars => TypeOK'
<1> SUFFICES ASSUME IInv, [Next]_vars PROVE TypeOK'
  OBVIOUS
<1> USE DEF IInv, TypeOK, Goto
<1>1. ASSUME NEW t \in Threads, Submit(t) PROVE TypeOK'
  <2>1. ASSUME NEW f \in Files, Accept(t, f) PROVE TypeOK'
    <3>1. NewWrite(f) \in Write \cup {Stop} /\ handed' \in Nat
      BY <2>1 DEF Accept, NewWrite, Write
    <3>2. queue' \in Seq(Write \cup {Stop})
      BY <2>1, <3>1 DEF Accept, Queued
    <3>3. QED BY <2>1, <3>1, <3>2 DEF Accept, callVars, workVars
  <2>2. ASSUME NEW f \in Files, Overflow(t, f) PROVE TypeOK'
    <3>1. NewWrite(f) \in Write /\ handed' \in Nat
      BY <2>2 DEF Overflow, NewWrite, Write
    <3>2. pc' \in [Threads -> {"out", "dropping", "putStop", "join", "closed"}]
      BY <2>2 DEF Overflow
    <3>3. lock' \in Threads /\ arg' \in Write
      BY <2>2, <3>1 DEF Overflow
    <3>4. UNCHANGED <<strict, queue, accepting, workVars, reported, dropped>>
      BY <2>2 DEF Overflow
    <3>5. QED BY <3>1, <3>2, <3>3, <3>4 DEF workVars
  <2>3. CASE ReportDrop(t)
    <3>1. arg \in Write /\ arg.file \in Files
      BY <2>3 DEF ReportDrop, LockInv, Write
    <3>2. pc' \in [Threads -> {"out", "dropping", "putStop", "join", "closed"}]
      BY <2>3 DEF ReportDrop
    <3>3. reported' \in [Files -> Nat] /\ dropped' \in SUBSET Write
      BY <2>3, <3>1 DEF ReportDrop
    <3>4. lock' = NoThread /\ arg' = NoWrite /\ UNCHANGED <<strict, queue, accepting, workVars, handed>>
      BY <2>3 DEF ReportDrop
    <3>5. QED BY <3>2, <3>3, <3>4 DEF workVars
  <2>4. CASE Refuse(t)
    BY <2>4 DEF Refuse, vars, callVars, workVars
  <2>5. QED BY <1>1, <2>1, <2>2, <2>3, <2>4 DEF Submit
<1>2. ASSUME NEW t \in Threads, Close(t) PROVE TypeOK'
  <2>1. CASE StopAccepting(t) BY <2>1 DEF StopAccepting, workVars
  <2>2. CASE PutStop(t)
    <3>1. queue' \in Seq(Write \cup {Stop})
      BY <2>2 DEF PutStop, Queued
    <3>2. QED BY <2>2, <3>1 DEF PutStop, workVars
  <2>3. CASE Join(t) BY <2>3 DEF Join, workVars
  <2>4. QED BY <1>2, <2>1, <2>2, <2>3 DEF Close
<1>3. CASE Run
  <2>1. CASE MakeDirs BY <2>1 DEF MakeDirs, callVars
  <2>2. CASE Get
    <3>1. IsStop(Head(queue)) \/ Head(queue) \in Write
      BY <2>2, QueueFacts DEF Get, IsStop
    <3>2. QED BY <2>2, <3>1, QueueFacts DEF Get, callVars
  <2>3. CASE AppendSkipped BY <2>3 DEF AppendSkipped, callVars, WorkInv
  <2>4. CASE AppendDone
    <3>1. hand \in Write /\ hand.file \in Files /\ hand.no \in Nat
      BY <2>4 DEF AppendDone, WorkInv, Write
    <3>2. Append(disk[hand.file] \o kept[hand.file], hand.no) \in Seq(Nat)
      BY <3>1
    <3>3. QED BY <2>4, <3>1, <3>2, SMTT(60) DEF AppendDone, callVars
  <2>5. CASE AppendFails
    <3>1. hand \in Write /\ hand.file \in Files /\ hand.no \in Nat
      BY <2>5 DEF AppendFails, WorkInv, Write
    <3>2. Append(kept[hand.file], hand.no) \in Seq(Nat)
      BY <3>1
    <3>3. kept' \in [Files -> Seq(Nat)]
      BY <2>5, <3>1, <3>2 DEF AppendFails
    <3>4. QED BY <2>5, <3>3 DEF AppendFails, callVars
  <2>6. CASE Fail
    <3>1. hand \in Write /\ hand.file \in Files
      BY <2>6 DEF Fail, WorkInv, Write
    <3>2. QED BY <2>6, <3>1 DEF Fail, Told, callVars
  <2>7. CASE CloseHandles BY <2>7 DEF CloseHandles, callVars
  <2>8. QED BY <1>3, <2>1, <2>2, <2>3, <2>4, <2>5, <2>6, <2>7 DEF Run
<1>4. CASE UNCHANGED vars
  BY <1>4 DEF vars, callVars, workVars
<1>5. QED BY <1>1, <1>2, <1>3, <1>4 DEF Next

\* Nobody enters the lock while another thread is inside it.
LEMMA LockStep == IInv /\ [Next]_vars => LockInv'
<1> SUFFICES ASSUME IInv, [Next]_vars PROVE LockInv'
  OBVIOUS
<1> USE WriterAssumption DEF IInv, TypeOK, LockInv, Goto
<1>1. ASSUME NEW t \in Threads, Submit(t) PROVE LockInv'
  <2>1. ASSUME NEW f \in Files, Accept(t, f) PROVE LockInv'
    BY <2>1 DEF Accept, callVars
  <2>2. ASSUME NEW f \in Files, Overflow(t, f) PROVE LockInv'
    <3>1. NewWrite(f) \in Write /\ NewWrite(f) # NoWrite
      BY DEF NewWrite, Write
    <3>2. QED BY <2>2, <3>1 DEF Overflow, Entered, StillAccepting
  <2>3. CASE ReportDrop(t) BY <2>3 DEF ReportDrop
  <2>4. CASE Refuse(t) BY <2>4 DEF Refuse, vars, callVars
  <2>5. QED BY <1>1, <2>1, <2>2, <2>3, <2>4 DEF Submit
<1>2. ASSUME NEW t \in Threads, Close(t) PROVE LockInv'
  <2>1. CASE StopAccepting(t) BY <2>1 DEF StopAccepting, Entered
  <2>2. CASE PutStop(t) BY <2>2 DEF PutStop
  <2>3. CASE Join(t) BY <2>3 DEF Join
  <2>4. QED BY <1>2, <2>1, <2>2, <2>3 DEF Close
<1>3. CASE Run
  BY <1>3 DEF Run, MakeDirs, Get, AppendSkipped, AppendDone, AppendFails, Fail,
              CloseHandles, callVars
<1>4. CASE UNCHANGED vars
  BY <1>4 DEF vars, callVars
<1>5. QED BY <1>1, <1>2, <1>3, <1>4 DEF Next

\* Nothing is queued behind the sentinel, and the thread takes it last.
LEMMA StopStep == IInv /\ [Next]_vars => StopInv'
<1> SUFFICES ASSUME IInv, [Next]_vars PROVE StopInv'
  OBVIOUS
<1> USE QueueFacts DEF IInv, StopInv, Goto
<1>1. ASSUME NEW t \in Threads, Submit(t) PROVE StopInv'
  <2>1. ASSUME NEW f \in Files, Accept(t, f) PROVE StopInv'
    <3>1. NewWrite(f) \in Write /\ NewWrite(f) # Stop
      BY WriterAssumption DEF NewWrite, Write, TypeOK
    <3>2. /\ Len(queue') = Len(queue) + 1
          /\ \A i \in 1..Len(queue) : queue'[i] = queue[i]
          /\ queue'[Len(queue) + 1] = NewWrite(f)
      BY <2>1, <3>1 DEF Accept, Queued, TypeOK
    <3>3. accepting /\ \A i \in 1..Len(queue') : queue'[i] # Stop
      BY <2>1, <3>1, <3>2 DEF Accept, StillAccepting
    <3>4. QED BY <2>1, <3>3 DEF Accept, callVars, workVars, LockInv
  <2>2. ASSUME NEW f \in Files, Overflow(t, f) PROVE StopInv'
    BY <2>2 DEF Overflow, workVars, TypeOK
  <2>3. CASE ReportDrop(t) BY <2>3 DEF ReportDrop, workVars, TypeOK
  <2>4. CASE Refuse(t) BY <2>4 DEF Refuse, vars, callVars, workVars
  <2>5. QED BY <1>1, <2>1, <2>2, <2>3, <2>4 DEF Submit
<1>2. ASSUME NEW t \in Threads, Close(t) PROVE StopInv'
  <2>1. CASE StopAccepting(t) BY <2>1 DEF StopAccepting, workVars, TypeOK
  <2>2. CASE PutStop(t)
    <3>1. /\ Len(queue') = Len(queue) + 1
          /\ \A i \in 1..Len(queue) : queue'[i] = queue[i]
          /\ queue'[Len(queue) + 1] = Stop
      BY <2>2 DEF PutStop, Queued, TypeOK
    <3>2. ~accepting /\ lock = t /\ wpc \notin {"exiting", "exited"}
      BY <2>2 DEF PutStop, LockInv
    <3>3. \A i \in 1..Len(queue') : queue'[i] = Stop => i = Len(queue')
      BY <2>2, <3>1 DEF PutStop
    <3>4. \A u \in Threads : pc'[u] # "putStop"
      BY <2>2, <3>2 DEF PutStop, LockInv, TypeOK
    <3>5. QED BY <2>2, <3>2, <3>3, <3>4 DEF PutStop, workVars
  <2>3. CASE Join(t) BY <2>3 DEF Join, workVars, TypeOK
  <2>4. QED BY <1>2, <2>1, <2>2, <2>3 DEF Close
<1>3. CASE Run
  <2>1. CASE Get
    <3>1. /\ Len(queue') = Len(queue) - 1
          /\ \A i \in 1..Len(queue') : queue'[i] = queue[i + 1]
          /\ UNCHANGED <<pc, accepting>>
          /\ wpc = "get"
      BY <2>1 DEF Get, callVars
    <3>2. \A i \in 1..Len(queue') : queue'[i] = Stop => i = Len(queue') /\ ~accepting'
      BY <3>1
    <3>3. CASE queue[1] = Stop
      <4>1. Len(queue) = 1 /\ ~accepting
        <5>1. Len(queue) \in Nat /\ Len(queue) > 0
          BY ONLY IInv, <2>1, QueueFacts DEF Get, IInv
        <5>2. 1 \in 1..Len(queue)
          BY ONLY <5>1, SMT
        <5>3. QED BY <3>3, <5>2
      <4>2. queue' = <<>>
        <5>1. queue' \in Seq(Write \cup {Stop}) /\ Len(queue') = 0
          BY <2>1, <3>1, <4>1, QueueFacts DEF Get
        <5>2. QED BY <5>1, EmptySeq
      <4>3. \A u \in Threads : pc[u] # "putStop"
        BY <3>3, <4>1
      <4>4. QED BY <3>1, <4>1, <4>2, <4>3
    <3>4. CASE queue[1] # Stop
      <4>1. wpc' = "append"
        BY <3>4, <2>1 DEF Get, IsStop
      <4>2. QED BY <3>1, <3>2, <4>1
    <3>5. QED BY <3>3, <3>4
  <2>2. CASE MakeDirs BY <2>2 DEF MakeDirs, callVars
  <2>3. CASE AppendSkipped BY <2>3 DEF AppendSkipped, callVars
  <2>4. CASE AppendDone BY <2>4 DEF AppendDone, callVars
  <2>5. CASE AppendFails BY <2>5 DEF AppendFails, callVars
  <2>6. CASE Fail BY <2>6 DEF Fail, callVars
  <2>7. CASE CloseHandles BY <2>7 DEF CloseHandles, callVars
  <2>8. QED BY <1>3, <2>1, <2>2, <2>3, <2>4, <2>5, <2>6, <2>7 DEF Run
<1>4. CASE UNCHANGED vars
  BY <1>4 DEF vars, callVars, workVars
<1>5. QED BY <1>1, <1>2, <1>3, <1>4 DEF Next

\* The writer thread works on what it has in hand, and a join without a timeout
\* returns only when the thread has ended.
LEMMA WorkStep == IInv /\ [Next]_vars => WorkInv'
<1> SUFFICES ASSUME IInv, [Next]_vars PROVE WorkInv'
  OBVIOUS
<1> USE DEF IInv, WorkInv, Goto
<1>1. ASSUME NEW t \in Threads, Submit(t) PROVE WorkInv'
  BY <1>1 DEF Submit, Accept, Overflow, ReportDrop, Refuse, Entered, TypeOK,
              vars, callVars, workVars
<1>2. ASSUME NEW t \in Threads, Close(t) PROVE WorkInv'
  BY <1>2 DEF Close, StopAccepting, PutStop, Join, Joined, TypeOK, workVars
<1>3. CASE Run
  <2>1. CASE MakeDirs BY <2>1 DEF MakeDirs, callVars
  <2>2. CASE Get
    <3>1. IsStop(Head(queue)) \/ Head(queue) # NoWrite
      BY <2>2, QueueFacts, WriterAssumption DEF Get, IsStop, Write
    <3>2. QED BY <2>2, <3>1 DEF Get, callVars
  <2>3. CASE AppendSkipped BY <2>3 DEF AppendSkipped, ShortCircuit, callVars
  <2>4. CASE AppendDone BY <2>4 DEF AppendDone, callVars
  <2>5. CASE AppendFails BY <2>5 DEF AppendFails, callVars
  <2>6. CASE Fail BY <2>6 DEF Fail, callVars
  <2>7. CASE CloseHandles BY <2>7 DEF CloseHandles, callVars
  <2>8. QED BY <1>3, <2>1, <2>2, <2>3, <2>4, <2>5, <2>6, <2>7 DEF Run
<1>4. CASE UNCHANGED vars
  BY <1>4 DEF vars, callVars, workVars
<1>5. QED BY <1>1, <1>2, <1>3, <1>4 DEF Next

LEMMA Inductive == Spec => []IInv
<1>1. IInv /\ [Next]_vars => IInv'
  BY TypeStep, LockStep, StopStep, WorkStep DEF IInv
<1>2. QED BY InitIInv, <1>1, PTL DEF Spec

\* The state of the writer keeps its types.
THEOREM WriterTypeCorrect == Spec => []TypeOK
<1>1. IInv => TypeOK
  BY DEF IInv
<1>2. QED BY Inductive, <1>1, PTL

\* Whatever threads submit and close, and however often the disk fails, no write
\* is stranded behind the sentinel.
THEOREM WriterStrandsNothing == Spec => []NothingStranded
<1>1. IInv => NothingStranded
  BY DEF IInv, StopInv, NothingStranded, TypeOK
<1>2. QED BY Inductive, <1>1, PTL

\* When close() without a timeout has returned, no write is in a call, in the
\* queue or in hand.
LEMMA DrainedIsOver ==
  ASSUME IInv, Drained
  PROVE  /\ wpc = "exited" /\ queue = <<>> /\ hand = NoWrite /\ ~accepting
         /\ \A t \in Threads : pc[t] # "dropping"
<1>1. wpc = "exited"
  BY DEF IInv, WorkInv, Drained
<1>2. QED BY <1>1 DEF IInv, WorkInv, StopInv, LockInv

\* Nothing is unsettled then, and only a strict writer that had failed passed a
\* write over.
LEMMA SettledIs ==
  ASSUME IInv, Drained
  PROVE  Unsettled = {} /\ (skipped # {} => strict /\ firstError)
<1>1. queue = <<>> /\ hand = NoWrite /\ arg = NoWrite
  BY DrainedIsOver DEF IInv, LockInv
<1>2. ElementsOf(queue) = {}
  BY <1>1 DEF ElementsOf
<1>3. QED BY <1>1, <1>2 DEF Unsettled, IInv, WorkInv

\* close() keeps its promise to its caller: when it returns, all is settled.
THEOREM WriterClosedMeansSettled == Spec => []ClosedMeansSettled
<1>1. IInv => ClosedMeansSettled
  BY SettledIs DEF ClosedMeansSettled
<1>2. QED BY Inductive, <1>1, PTL

\* Nothing but the callers' places moves once such a close() has returned.
LEMMA SettledStep ==
  ASSUME IInv, [Next]_vars, Drained
  PROVE  UNCHANGED <<strict, accepting, queue, workVars, reported, handed, dropped>>
<1>1. /\ wpc = "exited" /\ ~accepting /\ queue = <<>> /\ accepting \in BOOLEAN
      /\ \A t \in Threads : pc[t] \notin {"dropping", "putStop"}
  BY DrainedIsOver DEF IInv, TypeOK, StopInv
<1>2. ASSUME NEW t \in Threads, Submit(t)
      PROVE  UNCHANGED <<strict, accepting, queue, workVars, reported, handed, dropped>>
  BY <1>1, <1>2 DEF Submit, Accept, Overflow, ReportDrop, Refuse, StillAccepting, vars, callVars
<1>3. ASSUME NEW t \in Threads, Close(t)
      PROVE  UNCHANGED <<strict, accepting, queue, workVars, reported, handed, dropped>>
  <2>1. CASE StopAccepting(t)
    <3>1. accepting' = accepting
      BY <1>1, <2>1 DEF StopAccepting
    <3>2. QED BY <3>1, <2>1 DEF StopAccepting
  <2>2. QED BY <1>1, <1>3, <2>1 DEF Close, PutStop, Join
<1>4. ~Run
  BY <1>1 DEF Run, MakeDirs, Get, AppendSkipped, AppendDone, AppendFails, Fail, CloseHandles
<1>5. QED BY <1>2, <1>3, <1>4 DEF Next, vars, callVars

\* The files and the counts no longer change once such a close() has returned.
THEOREM WriterFilesFrozen == Spec => FilesFrozenAfterClose
<1>1. IInv /\ [Next]_vars => [Drained => UNCHANGED <<disk, reported>>]_vars
  BY SettledStep DEF workVars
<1>2. QED BY Inductive, <1>1, PTL DEF Spec, FilesFrozenAfterClose

-------------------------------------------------------------------------------
(* Sequences of numbers *)

LEMMA ElementsOfSeq ==
  ASSUME NEW S, NEW s \in Seq(S)
  PROVE  /\ ElementsOf(s) = {s[i] : i \in 1..Len(s)}
         /\ ElementsOf(s) \in SUBSET S
  BY DEF ElementsOf

LEMMA ElementsAppend ==
  ASSUME NEW S, NEW s \in Seq(S), NEW e \in S
  PROVE  ElementsOf(Append(s, e)) = ElementsOf(s) \cup {e}
<1>1. /\ Append(s, e) \in Seq(S) /\ Len(Append(s, e)) = Len(s) + 1 /\ Len(s) \in Nat
      /\ \A i \in 1..Len(s) : Append(s, e)[i] = s[i]
      /\ Append(s, e)[Len(s) + 1] = e
  OBVIOUS
<1>2. ElementsOf(Append(s, e)) = {Append(s, e)[i] : i \in 1..(Len(s) + 1)}
  BY <1>1, ElementsOfSeq
<1>3. 1..(Len(s) + 1) = 1..Len(s) \cup {Len(s) + 1}
  BY <1>1
<1>4. ElementsOf(s) = {s[i] : i \in 1..Len(s)}
  BY ElementsOfSeq
<1>5. QED BY <1>1, <1>2, <1>3, <1>4

LEMMA ElementsConcat ==
  ASSUME NEW S, NEW s \in Seq(S), NEW t \in Seq(S)
  PROVE  ElementsOf(s \o t) = ElementsOf(s) \cup ElementsOf(t)
<1>1. /\ s \o t \in Seq(S) /\ Len(s \o t) = Len(s) + Len(t) /\ Len(s) \in Nat /\ Len(t) \in Nat
      /\ \A i \in 1..(Len(s) + Len(t)) :
           (s \o t)[i] = IF i <= Len(s) THEN s[i] ELSE t[i - Len(s)]
  BY ConcatProperties
<1>2. /\ ElementsOf(s \o t) = {(s \o t)[i] : i \in 1..(Len(s) + Len(t))}
      /\ ElementsOf(s) = {s[i] : i \in 1..Len(s)}
      /\ ElementsOf(t) = {t[i] : i \in 1..Len(t)}
  BY <1>1, ElementsOfSeq
<1>3. ASSUME NEW i \in 1..(Len(s) + Len(t))
      PROVE  (s \o t)[i] \in ElementsOf(s) \cup ElementsOf(t)
  BY <1>1, <1>2
<1>4. ASSUME NEW i \in 1..Len(s) PROVE s[i] \in ElementsOf(s \o t)
  BY <1>1, <1>2
<1>5. ASSUME NEW i \in 1..Len(t) PROVE t[i] \in ElementsOf(s \o t)
  <2>1. i + Len(s) \in 1..(Len(s) + Len(t)) /\ (s \o t)[i + Len(s)] = t[i]
    BY <1>1
  <2>2. QED BY <2>1, <1>2
<1>6. QED BY <1>2, <1>3, <1>4, <1>5

LEMMA ElementsEmpty == ElementsOf(<<>>) = {}
  BY DEF ElementsOf

LEMMA IncreasingAppend ==
  ASSUME NEW s \in Seq(Nat), NEW n \in Nat, Increasing(s), \A m \in ElementsOf(s) : m < n
  PROVE  Increasing(Append(s, n))
<1>1. /\ DOMAIN Append(s, n) = 1..(Len(s) + 1) /\ DOMAIN s = 1..Len(s) /\ Len(s) \in Nat
      /\ \A i \in 1..Len(s) : Append(s, n)[i] = s[i]
      /\ Append(s, n)[Len(s) + 1] = n
  OBVIOUS
<1>2. \A i \in 1..Len(s) : s[i] < n
  BY ElementsOfSeq
<1>3. QED BY <1>1, <1>2 DEF Increasing

LEMMA IncreasingPrefix ==
  ASSUME NEW s \in Seq(Nat), NEW t \in Seq(Nat), Increasing(s \o t)
  PROVE  Increasing(s)
<1>1. /\ DOMAIN (s \o t) = 1..(Len(s) + Len(t)) /\ DOMAIN s = 1..Len(s)
      /\ Len(s) \in Nat /\ Len(t) \in Nat
      /\ \A i \in 1..Len(s) : (s \o t)[i] = s[i]
  OBVIOUS
<1>2. QED BY <1>1, SMTT(60) DEF Increasing

LEMMA ElementsTail ==
  ASSUME NEW S, NEW s \in Seq(S), s # <<>>
  PROVE  ElementsOf(s) = ElementsOf(Tail(s)) \cup {s[1]}
<1>1. /\ Tail(s) \in Seq(S) /\ Len(s) \in Nat /\ Len(s) > 0 /\ Len(Tail(s)) = Len(s) - 1
      /\ \A i \in 1..(Len(s) - 1) : Tail(s)[i] = s[i + 1]
  OBVIOUS
<1>2. ElementsOf(Tail(s)) = {Tail(s)[i] : i \in 1..(Len(s) - 1)}
  BY <1>1, ElementsOfSeq
<1>3. ElementsOf(s) = {s[i] : i \in 1..Len(s)}
  BY ElementsOfSeq
<1>4. \A i \in 1..Len(s) : i = 1 \/ (i - 1 \in 1..(Len(s) - 1) /\ Tail(s)[i - 1] = s[i])
  BY <1>1
<1>5. \A i \in 1..(Len(s) - 1) : i + 1 \in 1..Len(s) /\ Tail(s)[i] = s[i + 1]
  BY <1>1
<1>6. 1 \in 1..Len(s)
  BY <1>1
<1>7. ElementsOf(s) \subseteq ElementsOf(Tail(s)) \cup {s[1]}
  BY <1>2, <1>3, <1>4, ZenonT(60)
<1>8. QED BY <1>2, <1>3, <1>5, <1>6, <1>7

LEMMA NumbersAppend ==
  ASSUME NEW s \in Seq(Nat), NEW t \in Seq(Nat), NEW n \in Nat
  PROVE  /\ ElementsOf(Append(s, n)) = ElementsOf(s) \cup {n}
         /\ s \o t \in Seq(Nat) /\ Append(s, n) \in Seq(Nat)
         /\ ElementsOf(s \o t) = ElementsOf(s) \cup ElementsOf(t)
         /\ s \o Append(t, n) = Append(s \o t, n)
         /\ s \o <<>> = s
<1>1. ElementsOf(Append(s, n)) = ElementsOf(s) \cup {n}
  BY ElementsAppend
<1>2. ElementsOf(s \o t) = ElementsOf(s) \cup ElementsOf(t)
  BY ElementsConcat
<1>3. s \o t \in Seq(Nat) /\ Append(s, n) \in Seq(Nat) /\ Append(t, n) \in Seq(Nat)
  OBVIOUS
<1>4. s \o Append(t, n) = Append(s \o t, n)
  <2>1. Len(s \o Append(t, n)) = Len(Append(s \o t, n))
    OBVIOUS
  <2>2. \A i \in 1..Len(s \o Append(t, n)) : (s \o Append(t, n))[i] = Append(s \o t, n)[i]
    OBVIOUS
  <2>3. QED BY <1>3, <2>1, <2>2, SeqEqual, SMTT(60)
<1>5. s \o <<>> = s
  BY ConcatEmptySeq
<1>6. QED BY <1>1, <1>2, <1>3, <1>4, <1>5

-------------------------------------------------------------------------------
(* The numbers of the writes *)

\* The writes in the queue, and those that are still to come to the writer thread
\* or to be dropped.
Queue == ElementsOf(queue) \ {Stop}
Ahead == Queue \cup ({arg} \ {NoWrite})

\* The numbers a file holds or that are left in the buffer of its handle.
Written(f) == ElementsOf(disk[f]) \cup ElementsOf(kept[f])

\* Numbers are given in order, and the queue, the hand and the files keep it.
QueueOrder ==
  /\ \A w \in Queue : w.no <= handed
  /\ \A i, j \in 1..Len(queue) : i < j /\ queue[j] # Stop => queue[i].no < queue[j].no
  /\ arg # NoWrite => arg.no = handed /\ \A w \in Queue : w.no < arg.no

HandOrder ==
  hand # NoWrite => hand.no <= handed /\ \A w \in Ahead : hand.no < w.no

FileOrder ==
  \A f \in Files :
    /\ Increasing(disk[f] \o kept[f])
    /\ \A n \in Written(f) : n <= handed /\ \A w \in Ahead : n < w.no
    /\ hand # NoWrite =>
         /\ \A n \in ElementsOf(disk[f]) : n < hand.no
         /\ \A n \in ElementsOf(kept[f]) : n < hand.no \/ (n = hand.no /\ wpc = "report")

\* What was lost or passed over is behind the hand; a dropped write only
\* differs from those that are still to come.
LossOrder ==
  /\ \A w \in failed \cup skipped :
       /\ w.no <= handed
       /\ \A p \in Ahead : w.no < p.no
       /\ hand # NoWrite => w.no < hand.no
  /\ \A w \in dropped :
       /\ w.no <= handed
       /\ \A p \in Queue : w.no # p.no
       /\ hand # NoWrite => w.no # hand.no
       /\ arg # NoWrite => w.no < arg.no

\* A strict writer after its first failure: nothing was or will be written that
\* is newer than the write that failed.
StrictInv ==
  /\ wpc = "report" => firstError
  /\ ~firstError => failed = {}
  /\ strict /\ firstError =>
       IF wpc = "report" THEN failed = {}
       ELSE \E w \in failed : failed = {w} /\ \A f \in Files : \A n \in Written(f) : n <= w.no

Accounted ==
  /\ IsFiniteSet(dropped) /\ IsFiniteSet(failed)
  /\ EveryWriteAccounted

OrderInv == QueueOrder /\ HandOrder /\ FileOrder /\ LossOrder
KInv == OrderInv /\ StrictInv /\ Accounted

LEMMA InitKInv == Init => KInv
<1> SUFFICES ASSUME Init PROVE KInv
  OBVIOUS
<1>1. Queue = {} /\ Ahead = {} /\ \A f \in Files : Written(f) = {}
  BY ElementsEmpty DEF Init, Queue, Ahead, Written
<1>2. QueueOrder /\ HandOrder /\ LossOrder /\ StrictInv
  BY <1>1 DEF Init, QueueOrder, HandOrder, LossOrder, StrictInv
<1>3. FileOrder
  <2>1. \A f \in Files : disk[f] \o kept[f] = <<>>
    BY DEF Init
  <2>2. Increasing(<<>>)
    BY DEF Increasing
  <2>3. QED BY <1>1, <2>1, <2>2 DEF Init, FileOrder
<1>4. Accounted
  <2>1. \A f \in Files : {w \in Lost : w.file = f} = {}
    BY DEF Init, Lost
  <2>2. \A f \in Files : reported[f] = Cardinality({w \in Lost : w.file = f})
    BY <2>1, FS_EmptySet DEF Init
  <2>3. 1..handed = {}
    BY DEF Init
  <2>4. IsFiniteSet(dropped) /\ IsFiniteSet(failed)
    BY FS_EmptySet DEF Init
  <2>5. QED BY <2>2, <2>3, <2>4 DEF Accounted, EveryWriteAccounted
<1>5. QED BY <1>2, <1>3, <1>4 DEF KInv, OrderInv

\* What the types say of the sets the order is stated with.
LEMMA OrderTypes ==
  ASSUME TypeOK
  PROVE  /\ Queue \in SUBSET Write /\ Ahead \in SUBSET Write
         /\ Queue = {queue[i] : i \in {j \in 1..Len(queue) : queue[j] # Stop}}
         /\ \A w \in Write : w.no \in Nat /\ w.file \in Files
         /\ \A f \in Files : Written(f) \in SUBSET Nat
         /\ \A f \in Files : disk[f] \in Seq(Nat) /\ kept[f] \in Seq(Nat)
         /\ \A f \in Files : disk[f] \o kept[f] \in Seq(Nat)
         /\ \A f \in Files : ElementsOf(disk[f] \o kept[f]) = Written(f)
<1>1. ElementsOf(queue) \in SUBSET (Write \cup {Stop})
  BY ElementsOfSeq DEF TypeOK
<1>2. Queue \in SUBSET Write /\ Ahead \in SUBSET Write
  BY <1>1 DEF TypeOK, Queue, Ahead
<1>3. Queue = {queue[i] : i \in {j \in 1..Len(queue) : queue[j] # Stop}}
  BY ElementsOfSeq DEF TypeOK, Queue
<1>4. ASSUME NEW f \in Files
      PROVE  /\ Written(f) \in SUBSET Nat /\ disk[f] \in Seq(Nat) /\ kept[f] \in Seq(Nat)
             /\ disk[f] \o kept[f] \in Seq(Nat)
             /\ ElementsOf(disk[f] \o kept[f]) = Written(f)
  <2>1. disk[f] \in Seq(Nat) /\ kept[f] \in Seq(Nat)
    BY DEF TypeOK
  <2>2. QED BY <2>1, ElementsOfSeq, ElementsConcat DEF Written
<1>5. QED BY <1>2, <1>3, <1>4 DEF Write

\* How each step moves the writes that are still ahead.
LEMMA AcceptMoves ==
  ASSUME IInv, NEW t, NEW f \in Files, Accept(t, f)
  PROVE  /\ NewWrite(f) \in Write /\ NewWrite(f).no = handed + 1
         /\ arg = NoWrite /\ arg' = NoWrite
         /\ Queue' = Queue \cup {NewWrite(f)}
         /\ Ahead = Queue /\ Ahead' = Queue'
         /\ Len(queue') = Len(queue) + 1
         /\ \A i \in 1..Len(queue) : queue'[i] = queue[i]
         /\ queue'[Len(queue) + 1] = NewWrite(f)
<1>1. NewWrite(f) \in Write /\ NewWrite(f).no = handed + 1 /\ NewWrite(f) # Stop
  BY WriterAssumption DEF IInv, TypeOK, NewWrite, Write
<1>2. arg = NoWrite
  BY WriterAssumption DEF Accept, Entered, IInv, LockInv
<1>3. queue' = Append(queue, NewWrite(f)) /\ arg' = arg
  BY DEF Accept, Queued, callVars
<1>4. queue \in Seq(Write \cup {Stop})
  BY DEF IInv, TypeOK
<1>5. ElementsOf(queue') = ElementsOf(queue) \cup {NewWrite(f)}
  BY <1>1, <1>3, <1>4, ElementsAppend
<1>6. Queue' = Queue \cup {NewWrite(f)}
  BY <1>1, <1>5 DEF Queue
<1>7. QED BY <1>1, <1>2, <1>3, <1>4, <1>6 DEF Ahead

LEMMA OverflowMoves ==
  ASSUME IInv, NEW t, NEW f \in Files, Overflow(t, f)
  PROVE  /\ NewWrite(f) \in Write /\ NewWrite(f).no = handed + 1
         /\ NewWrite(f) # NoWrite
         /\ arg = NoWrite /\ arg' = NewWrite(f) /\ queue' = queue
         /\ Queue' = Queue /\ Ahead = Queue /\ Ahead' = Queue \cup {NewWrite(f)}
<1>1. NewWrite(f) \in Write /\ NewWrite(f).no = handed + 1 /\ NewWrite(f) # NoWrite
  BY WriterAssumption DEF IInv, TypeOK, NewWrite, Write
<1>2. arg = NoWrite
  BY WriterAssumption DEF Overflow, Entered, IInv, LockInv
<1>3. queue' = queue /\ arg' = NewWrite(f)
  BY DEF Overflow
<1>4. QED BY <1>1, <1>2, <1>3 DEF Ahead, Queue

LEMMA PutStopMoves ==
  ASSUME IInv, NEW t \in Threads, PutStop(t)
  PROVE  /\ Queue' = Queue /\ Ahead' = Ahead
         /\ Len(queue') = Len(queue) + 1
         /\ \A i \in 1..Len(queue) : queue'[i] = queue[i]
         /\ queue'[Len(queue) + 1] = Stop
<1>1. queue' = Append(queue, Stop) /\ arg' = arg
  BY DEF PutStop, Queued
<1>2. queue \in Seq(Write \cup {Stop})
  BY DEF IInv, TypeOK
<1>3. ElementsOf(queue') = ElementsOf(queue) \cup {Stop}
  BY <1>1, <1>2, ElementsAppend
<1>4. QED BY <1>1, <1>2, <1>3 DEF Ahead, Queue

LEMMA GetMoves ==
  ASSUME IInv, QueueOrder, Get
  PROVE  /\ hand = NoWrite /\ arg' = arg
         /\ Queue' \subseteq Queue /\ Ahead' \subseteq Ahead
         /\ hand' # NoWrite => /\ hand' \in Queue /\ hand' \in Write
                               /\ Queue = Queue' \cup {hand'}
                               /\ \A w \in Queue' : hand'.no < w.no
         /\ hand' = NoWrite => Queue' = Queue /\ Ahead' = Ahead
         /\ Len(queue') = Len(queue) - 1
         /\ \A i \in 1..Len(queue') : queue'[i] = queue[i + 1]
<1>1. /\ queue # <<>> /\ Len(queue) \in Nat /\ Len(queue) > 0
      /\ queue' = Tail(queue) /\ Head(queue) = queue[1] /\ arg' = arg
      /\ Len(queue') = Len(queue) - 1
      /\ \A i \in 1..Len(queue') : queue'[i] = queue[i + 1]
      /\ queue' \in Seq(Write \cup {Stop}) /\ queue \in Seq(Write \cup {Stop})
  BY QueueFacts DEF Get, callVars, IInv, TypeOK
<1>2. hand = NoWrite
  BY DEF Get, IInv, WorkInv
<1>3. ElementsOf(queue') = {queue'[i] : i \in 1..Len(queue')}
  <2>1. Tail(queue) \in Seq(Write \cup {Stop})
    BY <1>1
  <2>2. ElementsOf(Tail(queue)) = {Tail(queue)[i] : i \in 1..Len(Tail(queue))}
    BY <2>1, ElementsOfSeq
  <2>3. QED BY <1>1, <2>2
<1>4. ElementsOf(queue) = ElementsOf(queue') \cup {queue[1]}
  BY <1>1, ElementsTail
<1>5. Queue' \subseteq Queue /\ Ahead' \subseteq Ahead
  BY <1>1, <1>4 DEF Queue, Ahead
<1>6. CASE queue[1] = Stop
  <2>1. hand' = NoWrite
    BY <1>1, <1>2, <1>6 DEF Get, IsStop
  <2>2. Queue' = Queue
    BY <1>4, <1>6 DEF Queue
  <2>3. QED BY <1>1, <1>2, <1>5, <2>1, <2>2 DEF Ahead
<1>7. CASE queue[1] # Stop
  <2>1. hand' = queue[1] /\ hand' \in Write /\ hand' # NoWrite
    BY <1>1, <1>7, WriterAssumption, QueueFacts DEF Get, IsStop, IInv, Write
  <2>2. Queue = Queue' \cup {hand'}
    BY <1>4, <1>7, <2>1 DEF Queue
  <2>3. ASSUME NEW w \in Queue' PROVE hand'.no < w.no
    <3>1. PICK i \in 1..Len(queue') : w = queue'[i] /\ w # Stop
      BY <1>3 DEF Queue
    <3>2. w = queue[i + 1] /\ i + 1 \in 1..Len(queue) /\ 1 \in 1..Len(queue) /\ 1 < i + 1
      BY <1>1, <3>1
    <3>3. QED BY <3>1, <3>2, <2>1 DEF QueueOrder
  <2>4. QED BY <1>1, <1>2, <1>5, <2>1, <2>2, <2>3
<1>8. QED BY <1>6, <1>7

\* Every other step leaves the queue alone.
LEMMA OtherMoves ==
  ASSUME queue' = queue
  PROVE  /\ Queue' = Queue
         /\ arg' = arg => Ahead' = Ahead
         /\ arg' = NoWrite => Ahead' = Queue
  BY DEF Queue, Ahead

\* What each disk call leaves in a file and in its handle's buffer.
LEMMA AppendDoneMoves ==
  ASSUME IInv, AppendDone
  PROVE  /\ hand \in Write /\ hand # NoWrite /\ hand' = NoWrite
         /\ hand.file \in Files /\ hand.no \in Nat
         /\ \A f \in Files :
              /\ f # hand.file => disk'[f] = disk[f] /\ kept'[f] = kept[f]
                                  /\ Written(f)' = Written(f)
              /\ f = hand.file =>
                   /\ disk'[f] = Append(disk[f] \o kept[f], hand.no)
                   /\ kept'[f] = <<>>
                   /\ ElementsOf(disk'[f]) = Written(f) \cup {hand.no}
                   /\ Written(f)' = Written(f) \cup {hand.no}
<1>1. hand \in Write /\ hand # NoWrite /\ hand' = NoWrite /\ hand.file \in Files /\ hand.no \in Nat
  BY OrderTypes DEF AppendDone, IInv, TypeOK, WorkInv
<1>2. ASSUME NEW f \in Files, f # hand.file
      PROVE  disk'[f] = disk[f] /\ kept'[f] = kept[f] /\ Written(f)' = Written(f)
  <2>1. disk'[f] = disk[f] /\ kept'[f] = kept[f]
    BY <1>2 DEF AppendDone, IInv, TypeOK
  <2>2. QED BY <2>1 DEF Written
<1>3. ASSUME NEW f \in Files, f = hand.file
      PROVE  /\ disk'[f] = Append(disk[f] \o kept[f], hand.no)
             /\ kept'[f] = <<>>
             /\ ElementsOf(disk'[f]) = Written(f) \cup {hand.no}
             /\ Written(f)' = Written(f) \cup {hand.no}
  <2>1. disk'[f] = Append(disk[f] \o kept[f], hand.no) /\ kept'[f] = <<>>
    BY <1>3 DEF AppendDone, IInv, TypeOK
  <2>2. disk[f] \o kept[f] \in Seq(Nat) /\ ElementsOf(disk[f] \o kept[f]) = Written(f)
    BY OrderTypes DEF IInv
  <2>3. ElementsOf(Append(disk[f] \o kept[f], hand.no))
          = ElementsOf(disk[f] \o kept[f]) \cup {hand.no}
    BY <1>1, <2>2, NumbersAppend
  <2>4. ElementsOf(disk'[f]) = Written(f) \cup {hand.no}
    BY <2>1, <2>2, <2>3
  <2>5. QED BY <2>1, <2>4, ElementsEmpty DEF Written
<1>4. QED BY <1>1, <1>2, <1>3

LEMMA AppendFailsMoves ==
  ASSUME IInv, AppendFails
  PROVE  /\ hand \in Write /\ hand # NoWrite /\ hand' = hand
         /\ hand.file \in Files /\ hand.no \in Nat /\ disk' = disk
         /\ \A f \in Files :
              \/ kept'[f] = kept[f] /\ Written(f)' = Written(f)
              \/ /\ f = hand.file
                 /\ kept'[f] = Append(kept[f], hand.no)
                 /\ disk'[f] \o kept'[f] = Append(disk[f] \o kept[f], hand.no)
                 /\ ElementsOf(kept'[f]) = ElementsOf(kept[f]) \cup {hand.no}
                 /\ Written(f)' = Written(f) \cup {hand.no}
<1>1. /\ hand \in Write /\ hand # NoWrite /\ hand' = hand /\ hand.file \in Files
      /\ hand.no \in Nat /\ disk' = disk
  BY OrderTypes DEF AppendFails, IInv, TypeOK, WorkInv
<1>2. ASSUME NEW f \in Files, kept'[f] = kept[f] PROVE Written(f)' = Written(f)
  BY <1>1, <1>2 DEF Written
<1>3. ASSUME NEW f \in Files, kept'[f] # kept[f]
      PROVE  /\ f = hand.file
             /\ kept'[f] = Append(kept[f], hand.no)
             /\ disk'[f] \o kept'[f] = Append(disk[f] \o kept[f], hand.no)
             /\ ElementsOf(kept'[f]) = ElementsOf(kept[f]) \cup {hand.no}
             /\ Written(f)' = Written(f) \cup {hand.no}
  <2>1. f = hand.file /\ kept'[f] = Append(kept[f], hand.no)
    BY <1>1, <1>3 DEF AppendFails, IInv, TypeOK
  <2>2. disk[f] \in Seq(Nat) /\ kept[f] \in Seq(Nat)
    BY OrderTypes DEF IInv
  <2>3. /\ disk[f] \o Append(kept[f], hand.no) = Append(disk[f] \o kept[f], hand.no)
        /\ ElementsOf(Append(kept[f], hand.no)) = ElementsOf(kept[f]) \cup {hand.no}
    BY <1>1, <2>2, NumbersAppend, ZenonT(60)
  <2>4. ElementsOf(kept'[f]) = ElementsOf(kept[f]) \cup {hand.no}
    BY <2>1, <2>3
  <2>5. Written(f)' = Written(f) \cup {hand.no}
    BY <1>1, <2>4 DEF Written
  <2>6. QED BY <1>1, <2>1, <2>3, <2>4, <2>5
<1>4. QED BY <1>1, <1>2, <1>3

LEMMA CloseHandlesMoves ==
  ASSUME IInv, CloseHandles, NEW f \in Files
  PROVE  /\ kept'[f] = <<>>
         /\ \/ disk'[f] = disk[f] /\ Written(f)' = ElementsOf(disk[f])
            \/ disk'[f] = disk[f] \o kept[f] /\ Written(f)' = Written(f)
         /\ ElementsOf(disk'[f]) \subseteq Written(f)
         /\ ElementsOf(disk[f]) \subseteq ElementsOf(disk'[f])
         /\ Written(f)' \subseteq Written(f)
<1>1. kept'[f] = <<>> /\ (disk'[f] = disk[f] \/ disk'[f] = disk[f] \o kept[f])
  BY DEF CloseHandles
<1>2. ElementsOf(kept'[f]) = {}
  BY <1>1, ElementsEmpty
<1>3. ElementsOf(disk[f] \o kept[f]) = Written(f)
  BY OrderTypes DEF IInv
<1>4. QED BY <1>1, <1>2, <1>3 DEF Written

\* The steps that only the lock, the flags or the threads' places see.
Quiet ==
  /\ UNCHANGED <<strict, queue, arg, hand, firstError, kept, disk, reported, handed,
                 dropped, failed, skipped>>
  /\ wpc = "report" <=> wpc' = "report"

LEMMA StepCases ==
  ASSUME IInv, [Next]_vars
  PROVE  \/ \E t \in Threads, f \in Files : Accept(t, f) \/ Overflow(t, f)
         \/ \E t \in Threads : ReportDrop(t) \/ PutStop(t)
         \/ Get \/ AppendSkipped \/ AppendDone \/ AppendFails \/ Fail \/ CloseHandles
         \/ Quiet
<1>1. ASSUME NEW t, Refuse(t) PROVE Quiet
  BY <1>1 DEF Refuse, vars, callVars, workVars, Quiet
<1>2. ASSUME NEW t, StopAccepting(t) \/ Join(t) PROVE Quiet
  BY <1>2 DEF StopAccepting, Join, workVars, Quiet
<1>3. MakeDirs => Quiet
  BY DEF MakeDirs, callVars, Quiet
<1>4. UNCHANGED vars => Quiet
  BY DEF vars, callVars, workVars, Quiet
<1>5. QED BY <1>1, <1>2, <1>3, <1>4 DEF Next, Submit, Close, Run

\* Numbers keep their order in the queue, in hand and in the files, and what was
\* lost or passed over stays behind.
LEMMA OrderStep == IInv /\ OrderInv /\ [Next]_vars => OrderInv'
<1> SUFFICES ASSUME IInv, OrderInv, [Next]_vars PROVE OrderInv'
  OBVIOUS
<1>t. TypeOK /\ TypeOK' /\ handed \in Nat
  BY TypeStep DEF IInv, TypeOK
<1> USE <1>t DEF OrderInv
<1>1. ASSUME NEW t \in Threads, NEW f \in Files, Accept(t, f) PROVE OrderInv'
  <2>1. /\ UNCHANGED <<hand, kept, disk, dropped, failed, skipped, wpc>>
        /\ handed' = handed + 1 /\ arg = NoWrite /\ arg' = NoWrite
        /\ NewWrite(f).no = handed + 1
        /\ Ahead = Queue /\ Ahead' = Queue' /\ Queue' = Queue \cup {NewWrite(f)}
    BY <1>1, AcceptMoves DEF Accept, workVars
  <2>2. QueueOrder'
    <3>1. \A w \in Queue' : w.no <= handed'
      BY <2>1, OrderTypes DEF QueueOrder
    <3>2. ASSUME NEW i \in 1..Len(queue'), NEW j \in 1..Len(queue'), i < j, queue'[j] # Stop
          PROVE  queue'[i].no < queue'[j].no
      <4>1. /\ Len(queue') = Len(queue) + 1 /\ Len(queue) \in Nat
            /\ \A k \in 1..Len(queue) : queue'[k] = queue[k]
            /\ queue'[Len(queue) + 1] = NewWrite(f)
        BY <1>1, AcceptMoves, QueueFacts
      <4>2. i \in 1..Len(queue) /\ queue'[i] = queue[i]
        BY <4>1, <3>2
      <4>3. CASE j \in 1..Len(queue)
        BY <4>1, <4>2, <4>3, <3>2 DEF QueueOrder
      <4>4. CASE j = Len(queue) + 1
        <5>1. queue[i] # Stop
          BY <1>1, <4>2 DEF Accept, StillAccepting, IInv, StopInv
        <5>2. queue[i] \in Queue
          BY <5>1, <4>2, OrderTypes
        <5>3. queue[i].no <= handed /\ queue[i].no \in Nat
          BY <5>2, OrderTypes DEF QueueOrder
        <5>4. QED BY <4>1, <4>2, <4>4, <5>3, <2>1
      <4>5. QED BY <4>1, <4>3, <4>4
    <3>3. QED BY <2>1, <3>1, <3>2 DEF QueueOrder
  <2>3. HandOrder'
    BY <2>1, OrderTypes, SMTT(60) DEF HandOrder, TypeOK
  <2>4. FileOrder'
    <3>1. \A g \in Files : Written(g)' = Written(g)
      BY <2>1 DEF Written
    <3>2. QED BY <2>1, <3>1, OrderTypes DEF FileOrder
  <2>5. LossOrder'
    BY <2>1, OrderTypes, SMTT(60) DEF LossOrder, TypeOK
  <2>6. QED BY <2>2, <2>3, <2>4, <2>5
<1>2. ASSUME NEW t \in Threads, NEW f \in Files, Overflow(t, f) PROVE OrderInv'
  <2>1. /\ UNCHANGED <<queue, hand, kept, disk, dropped, failed, skipped, wpc>>
        /\ handed' = handed + 1 /\ arg = NoWrite /\ arg' = NewWrite(f)
        /\ NewWrite(f) # NoWrite /\ NewWrite(f).no = handed + 1
        /\ Queue' = Queue /\ Ahead = Queue /\ Ahead' = Queue \cup {NewWrite(f)}
    BY <1>2, OverflowMoves DEF Overflow, workVars
  <2>2. QueueOrder'
    BY <2>1, OrderTypes DEF QueueOrder
  <2>3. HandOrder'
    BY <2>1, OrderTypes, SMTT(60) DEF HandOrder, TypeOK
  <2>4. FileOrder'
    <3>1. \A g \in Files : Written(g)' = Written(g)
      BY <2>1 DEF Written
    <3>2. QED BY <2>1, <3>1, OrderTypes DEF FileOrder
  <2>5. LossOrder'
    BY <2>1, OrderTypes, SMTT(60) DEF LossOrder, TypeOK
  <2>6. QED BY <2>2, <2>3, <2>4, <2>5
<1>3. ASSUME NEW t \in Threads, ReportDrop(t) PROVE OrderInv'
  <2>1. /\ UNCHANGED <<queue, hand, kept, disk, handed, failed, skipped, wpc>>
        /\ arg \in Write /\ arg # NoWrite /\ arg' = NoWrite
        /\ dropped' = dropped \cup {arg}
        /\ Queue' = Queue /\ Ahead' = Queue /\ Ahead = Queue \cup {arg}
    BY <1>3, WriterAssumption DEF ReportDrop, workVars, IInv, LockInv, Write, Queue, Ahead
  <2>2. QueueOrder'
    BY <2>1 DEF QueueOrder
  <2>3. HandOrder'
    BY <2>1 DEF HandOrder
  <2>4. FileOrder'
    <3>1. \A g \in Files : Written(g)' = Written(g)
      BY <2>1 DEF Written
    <3>2. QED BY <2>1, <3>1 DEF FileOrder
  <2>5. LossOrder'
    <3>1. arg.no <= handed /\ (\A p \in Queue : arg.no # p.no) /\ (hand # NoWrite => arg.no # hand.no)
      BY <2>1, OrderTypes DEF QueueOrder, HandOrder, TypeOK
    <3>2. QED BY <2>1, <3>1 DEF LossOrder
  <2>6. QED BY <2>2, <2>3, <2>4, <2>5
<1>4. ASSUME NEW t \in Threads, PutStop(t) PROVE OrderInv'
  <2>1. /\ UNCHANGED <<arg, hand, kept, disk, handed, dropped, failed, skipped, wpc>>
        /\ Queue' = Queue /\ Ahead' = Ahead
    BY <1>4, PutStopMoves DEF PutStop, workVars
  <2>2. QueueOrder'
    <3>1. ASSUME NEW i \in 1..Len(queue'), NEW j \in 1..Len(queue'), i < j, queue'[j] # Stop
          PROVE  queue'[i].no < queue'[j].no
      <4>1. /\ Len(queue') = Len(queue) + 1 /\ Len(queue) \in Nat
            /\ \A k \in 1..Len(queue) : queue'[k] = queue[k]
            /\ queue'[Len(queue) + 1] = Stop
        BY <1>4, PutStopMoves, QueueFacts
      <4>2. i \in 1..Len(queue) /\ j \in 1..Len(queue)
        BY <4>1, <3>1
      <4>3. QED BY <4>1, <4>2, <3>1 DEF QueueOrder
    <3>2. QED BY <2>1, <3>1 DEF QueueOrder
  <2>3. FileOrder'
    <3>1. \A g \in Files : Written(g)' = Written(g)
      BY <2>1 DEF Written
    <3>2. QED BY <2>1, <3>1 DEF FileOrder
  <2>4. HandOrder' /\ LossOrder'
    BY <2>1 DEF HandOrder, LossOrder
  <2>5. QED BY <2>2, <2>3, <2>4
<1>5. CASE Get
  <2>1. UNCHANGED <<arg, kept, disk, handed, dropped, failed, skipped>> /\ wpc' # "report"
    BY <1>5 DEF Get, callVars
  <2>2. /\ hand = NoWrite /\ Queue' \subseteq Queue /\ Ahead' \subseteq Ahead
        /\ hand' # NoWrite => hand' \in Queue /\ \A w \in Queue' : hand'.no < w.no
    BY <1>5, GetMoves
  <2>3. QueueOrder'
    <3>1. ASSUME NEW i \in 1..Len(queue'), NEW j \in 1..Len(queue'), i < j, queue'[j] # Stop
          PROVE  queue'[i].no < queue'[j].no
      <4>1. /\ Len(queue') = Len(queue) - 1 /\ Len(queue) \in Nat
            /\ \A k \in 1..Len(queue') : queue'[k] = queue[k + 1]
        BY <1>5, GetMoves, QueueFacts
      <4>2. i + 1 \in 1..Len(queue) /\ j + 1 \in 1..Len(queue) /\ i + 1 < j + 1
        BY <4>1, <3>1
      <4>3. QED BY <4>1, <4>2, <3>1 DEF QueueOrder
    <3>2. QED BY <2>1, <2>2, <3>1 DEF QueueOrder
  <2>4. HandOrder'
    BY <2>1, <2>2 DEF HandOrder, QueueOrder, Ahead
  <2>5. FileOrder'
    <3>1. \A g \in Files : Written(g)' = Written(g)
      BY <2>1 DEF Written
    <3>2. \A g \in Files : \A n \in Written(g) : n <= handed /\ \A w \in Ahead' : n < w.no
      BY <2>2 DEF FileOrder
    <3>3. hand' # NoWrite => hand' \in Ahead
      BY <2>2 DEF Ahead
    <3>4. \A g \in Files : \A n \in Written(g) : hand' # NoWrite => n < hand'.no
      BY <3>3 DEF FileOrder
    <3>5. QED BY <2>1, <3>1, <3>2, <3>4 DEF FileOrder, Written
  <2>6. LossOrder'
    <3>1. hand' # NoWrite => hand' \in Ahead
      BY <2>2 DEF Ahead
    <3>2. QED BY <2>1, <2>2, <3>1 DEF LossOrder
  <2>7. QED BY <2>3, <2>4, <2>5, <2>6
<1>6. CASE AppendSkipped
  <2>1. /\ UNCHANGED <<queue, arg, kept, disk, handed, dropped, failed>>
        /\ skipped' = skipped \cup {hand} /\ hand # NoWrite /\ hand' = NoWrite
        /\ Queue' = Queue /\ Ahead' = Ahead
    BY <1>6, OtherMoves DEF AppendSkipped, callVars, IInv, WorkInv
  <2>2. QueueOrder' /\ HandOrder' /\ LossOrder'
    BY <2>1 DEF QueueOrder, HandOrder, LossOrder
  <2>3. FileOrder'
    <3>1. \A g \in Files : Written(g)' = Written(g)
      BY <2>1 DEF Written
    <3>2. QED BY <2>1, <3>1 DEF FileOrder
  <2>4. QED BY <2>2, <2>3
<1>7. CASE AppendDone
  <2>1. UNCHANGED <<queue, arg, handed, dropped, failed, skipped>> /\ Queue' = Queue /\ Ahead' = Ahead
    BY <1>7, OtherMoves DEF AppendDone, callVars
  <2>2. hand # NoWrite /\ hand' = NoWrite /\ hand.no \in Nat
    BY <1>7, AppendDoneMoves
  <2>3. QueueOrder' /\ HandOrder' /\ LossOrder'
    BY <2>1, <2>2 DEF QueueOrder, HandOrder, LossOrder
  <2>4. FileOrder'
    <3>1. ASSUME NEW f \in Files
          PROVE  /\ Increasing(disk[f] \o kept[f])'
                 /\ \A n \in Written(f)' : n <= handed /\ \A w \in Ahead : n < w.no
      <4>1. CASE f # hand.file
        BY <1>7, <4>1, AppendDoneMoves DEF FileOrder
      <4>2. CASE f = hand.file
        <5>1. \A n \in Written(f)' : n <= handed /\ \A w \in Ahead : n < w.no
          BY <1>7, <4>2, <2>2, AppendDoneMoves, ZenonT(60) DEF FileOrder, HandOrder
        <5>2. /\ disk[f] \o kept[f] \in Seq(Nat)
              /\ \A m \in ElementsOf(disk[f] \o kept[f]) : m < hand.no
          BY <1>7, <2>2, OrderTypes DEF FileOrder, AppendDone, Written
        <5>3. Increasing(Append(disk[f] \o kept[f], hand.no))
          BY <2>2, <5>2, IncreasingAppend DEF FileOrder
        <5>4. /\ disk'[f] = Append(disk[f] \o kept[f], hand.no) /\ kept'[f] = <<>>
              /\ Append(disk[f] \o kept[f], hand.no) \in Seq(Nat)
          BY <1>7, <4>2, <2>2, <5>2, AppendDoneMoves, NumbersAppend
        <5>5. disk'[f] \o kept'[f] = Append(disk[f] \o kept[f], hand.no)
          BY <5>4, ConcatEmptySeq
        <5>6. QED BY <5>1, <5>3, <5>5
      <4>3. QED BY <4>1, <4>2
    <3>2. QED BY <2>1, <2>2, <3>1 DEF FileOrder
  <2>5. QED BY <2>3, <2>4
<1>8. CASE AppendFails
  <2>1. /\ UNCHANGED <<queue, arg, handed, dropped, failed, skipped>>
        /\ Queue' = Queue /\ Ahead' = Ahead /\ wpc = "append" /\ wpc' = "report"
    BY <1>8, OtherMoves DEF AppendFails, callVars
  <2>2. hand # NoWrite /\ hand' = hand /\ hand.no \in Nat /\ disk' = disk
    BY <1>8, AppendFailsMoves
  <2>3. QueueOrder' /\ HandOrder' /\ LossOrder'
    BY <2>1, <2>2 DEF QueueOrder, HandOrder, LossOrder
  <2>4. FileOrder'
    <3>1. ASSUME NEW f \in Files
          PROVE  /\ Increasing(disk[f] \o kept[f])'
                 /\ \A n \in Written(f)' : n <= handed /\ \A w \in Ahead : n < w.no
                 /\ \A n \in ElementsOf(disk'[f]) : n < hand.no
                 /\ \A n \in ElementsOf(kept'[f]) : n < hand.no \/ n = hand.no
      <4>1. CASE kept'[f] = kept[f] /\ Written(f)' = Written(f)
        BY <4>1, <2>1, <2>2 DEF FileOrder
      <4>2. CASE /\ kept'[f] = Append(kept[f], hand.no)
                 /\ disk'[f] \o kept'[f] = Append(disk[f] \o kept[f], hand.no)
                 /\ ElementsOf(kept'[f]) = ElementsOf(kept[f]) \cup {hand.no}
                 /\ Written(f)' = Written(f) \cup {hand.no}
        <5>1. /\ disk[f] \o kept[f] \in Seq(Nat)
              /\ \A m \in ElementsOf(disk[f] \o kept[f]) : m < hand.no
          BY <2>1, <2>2, OrderTypes DEF FileOrder, Written
        <5>2. Increasing(Append(disk[f] \o kept[f], hand.no))
          BY <2>2, <5>1, IncreasingAppend DEF FileOrder
        <5>3. QED BY <4>2, <2>1, <2>2, <5>2 DEF FileOrder, HandOrder
      <4>3. QED BY <1>8, <4>1, <4>2, AppendFailsMoves
    <3>2. QED BY <2>1, <2>2, <3>1 DEF FileOrder
  <2>5. QED BY <2>3, <2>4
<1>9. CASE Fail
  <2>1. /\ UNCHANGED <<queue, arg, kept, disk, handed, dropped, skipped>>
        /\ failed' = failed \cup {hand} /\ hand # NoWrite /\ hand' = NoWrite
        /\ Queue' = Queue /\ Ahead' = Ahead
    BY <1>9, OtherMoves DEF Fail, callVars, IInv, WorkInv
  <2>2. QueueOrder' /\ HandOrder' /\ LossOrder'
    BY <2>1 DEF QueueOrder, HandOrder, LossOrder
  <2>3. FileOrder'
    <3>1. \A g \in Files : Written(g)' = Written(g)
      BY <2>1 DEF Written
    <3>2. QED BY <2>1, <3>1 DEF FileOrder
  <2>4. QED BY <2>2, <2>3
<1>10. CASE CloseHandles
  <2>1. /\ UNCHANGED <<queue, arg, hand, handed, dropped, failed, skipped>> /\ hand = NoWrite
        /\ Queue' = Queue /\ Ahead' = Ahead
    BY <1>10, OtherMoves DEF CloseHandles, callVars, IInv, WorkInv
  <2>2. QueueOrder' /\ HandOrder' /\ LossOrder'
    BY <2>1 DEF QueueOrder, HandOrder, LossOrder
  <2>3. FileOrder'
    <3>1. ASSUME NEW f \in Files
          PROVE  Increasing(disk[f] \o kept[f])' /\ Written(f)' \subseteq Written(f)
      <4>1. disk[f] \in Seq(Nat) /\ kept[f] \in Seq(Nat) /\ disk[f] \o kept[f] \in Seq(Nat)
        BY OrderTypes
      <4>2. Increasing(disk[f]) /\ Increasing(disk[f] \o kept[f])
        BY <4>1, IncreasingPrefix DEF FileOrder
      <4>3. disk'[f] \o <<>> = disk'[f]
        BY <1>10, <4>1, CloseHandlesMoves, ConcatEmptySeq
      <4>4. QED BY <1>10, <4>2, <4>3, CloseHandlesMoves
    <3>2. QED BY <2>1, <3>1 DEF FileOrder
  <2>4. QED BY <2>2, <2>3
<1>11. CASE Quiet
  <2>1. Queue' = Queue /\ Ahead' = Ahead /\ \A g \in Files : Written(g)' = Written(g)
    BY <1>11, OtherMoves DEF Quiet, Written
  <2>2. QED BY <1>11, <2>1 DEF Quiet, QueueOrder, HandOrder, FileOrder, LossOrder
<1>12. QED BY <1>1, <1>2, <1>3, <1>4, <1>5, <1>6, <1>7, <1>8, <1>9, <1>10, <1>11, StepCases

\* A strict writer never touches a file again after its first failure.
LEMMA StrictStep == IInv /\ OrderInv /\ StrictInv /\ [Next]_vars => StrictInv'
<1> SUFFICES ASSUME IInv, OrderInv, StrictInv, [Next]_vars PROVE StrictInv'
  OBVIOUS
<1>1. ASSUME UNCHANGED <<strict, firstError, kept, disk, failed>>,
             wpc = "report" <=> wpc' = "report"
      PROVE  StrictInv'
  <2>1. \A f \in Files : Written(f)' = Written(f)
    BY <1>1 DEF Written
  <2>2. QED BY <1>1, <2>1 DEF StrictInv
<1>2. ASSUME NEW t \in Threads, NEW f \in Files, Accept(t, f) \/ Overflow(t, f) PROVE StrictInv'
  BY <1>1, <1>2 DEF Accept, Overflow, workVars
<1>3. ASSUME NEW t \in Threads, ReportDrop(t) \/ PutStop(t) PROVE StrictInv'
  BY <1>1, <1>3 DEF ReportDrop, PutStop, workVars
<1>4. CASE Get \/ AppendSkipped
  BY <1>1, <1>4 DEF Get, AppendSkipped
<1>5. CASE AppendDone
  <2>1. ~(strict /\ firstError) /\ wpc' = "get" /\ UNCHANGED <<strict, firstError, failed>>
    BY <1>5 DEF AppendDone, ShortCircuit
  <2>2. QED BY <2>1 DEF StrictInv
<1>6. CASE AppendFails
  <2>1. ~(strict /\ firstError) /\ wpc' = "report" /\ firstError' = TRUE /\ UNCHANGED <<strict, failed>>
    BY <1>6 DEF AppendFails, ShortCircuit
  <2>2. QED BY <2>1 DEF StrictInv
<1>7. CASE Fail
  <2>1. /\ wpc = "report" /\ wpc' = "get" /\ failed' = failed \cup {hand} /\ hand # NoWrite
        /\ UNCHANGED <<strict, firstError, disk, kept>>
    BY <1>7 DEF Fail, callVars, IInv, WorkInv
  <2>2. ASSUME NEW f \in Files PROVE \A n \in Written(f)' : n <= hand.no
    <3>1. Written(f)' = Written(f)
      BY <2>1 DEF Written
    <3>2. hand.no \in Nat /\ Written(f) \in SUBSET Nat
      BY <2>1, OrderTypes DEF IInv, TypeOK
    <3>3. QED BY <2>1, <3>1, <3>2, SMTT(60) DEF OrderInv, FileOrder, Written
  <2>3. QED BY <2>1, <2>2 DEF StrictInv
<1>8. CASE CloseHandles
  <2>1. /\ UNCHANGED <<strict, firstError, failed>> /\ wpc # "report" /\ wpc' # "report"
        /\ \A f \in Files : Written(f)' \subseteq Written(f)
    BY <1>8, CloseHandlesMoves DEF CloseHandles
  <2>2. QED BY <2>1 DEF StrictInv
<1>9. CASE Quiet
  BY <1>1, <1>9 DEF Quiet
<1>10. QED BY <1>2, <1>3, <1>4, <1>5, <1>6, <1>7, <1>8, <1>9, StepCases

\* One more lost write, counted once, where it was not counted before.
LEMMA LossCounted ==
  ASSUME IInv, Accounted, NEW w \in Write, w \notin Lost, Lost' = Lost \cup {w},
         reported' = [reported EXCEPT ![w.file] = @ + 1]
  PROVE  \A f \in Files : reported'[f] = Cardinality({v \in Lost' : v.file = f})
<1> SUFFICES ASSUME NEW f \in Files
             PROVE  reported'[f] = Cardinality({v \in Lost' : v.file = f})
  OBVIOUS
<1> DEFINE L == {v \in Lost : v.file = f}
<1>1. IsFiniteSet(L)
  <2>1. IsFiniteSet(Lost)
    BY FS_Union DEF Accounted, Lost
  <2>2. QED BY <2>1, FS_Subset
<1>2. reported[f] = Cardinality(L) /\ Cardinality(L) \in Nat /\ w.file \in Files
  BY <1>1, FS_CardinalityType DEF Accounted, EveryWriteAccounted, Write
<1>3. CASE f = w.file
  <2>1. {v \in Lost' : v.file = f} = L \cup {w} /\ w \notin L
    BY <1>3
  <2>2. Cardinality(L \cup {w}) = Cardinality(L) + 1
    BY <1>1, <2>1, FS_AddElement
  <2>3. QED BY <1>2, <1>3, <2>1, <2>2 DEF IInv, TypeOK
<1>4. CASE f # w.file
  <2>1. {v \in Lost' : v.file = f} = L
    BY <1>4
  <2>2. QED BY <1>2, <1>4, <2>1 DEF IInv, TypeOK
<1>5. QED BY <1>3, <1>4

LEMMA UnsettledIs == TypeOK => Unsettled = Ahead \cup ({hand} \ {NoWrite})
<1> SUFFICES ASSUME TypeOK PROVE Unsettled = Ahead \cup ({hand} \ {NoWrite})
  OBVIOUS
<1>1. Stop \notin Write /\ NoWrite \notin Write
  BY WriterAssumption DEF Write
<1>2. ElementsOf(queue) \in SUBSET (Write \cup {Stop})
  BY ElementsOfSeq DEF TypeOK
<1>3. QED BY <1>1, <1>2 DEF TypeOK, Unsettled, Ahead, Queue

\* The numbers of the writes that are accounted for.
Found == {w.no : w \in Unsettled \cup Lost \cup skipped} \cup UNION {ElementsOf(disk[f]) : f \in Files}

\* No step loses a number, and every step counts each loss it makes.
LEMMA AccountedStep == IInv /\ OrderInv /\ Accounted /\ [Next]_vars => Accounted'
<1> SUFFICES ASSUME IInv, OrderInv, Accounted, [Next]_vars PROVE Accounted'
  OBVIOUS
<1>t. TypeOK /\ TypeOK' /\ handed \in Nat
  BY TypeStep DEF IInv, TypeOK
<1>u. /\ Unsettled = Ahead \cup ({hand} \ {NoWrite})
      /\ Unsettled' = Ahead' \cup ({hand'} \ {NoWrite})
  <2>1. (TypeOK => Unsettled = Ahead \cup ({hand} \ {NoWrite}))'
    BY UnsettledIs, PTL
  <2>2. QED BY <1>t, <2>1, UnsettledIs
<1>f. /\ 1..handed \subseteq Found
      /\ \A f \in Files : reported[f] = Cardinality({w \in Lost : w.file = f})
      /\ IsFiniteSet(dropped) /\ IsFiniteSet(failed)
  BY DEF Accounted, EveryWriteAccounted, Found
<1>g. ASSUME 1..handed' \subseteq Found',
             \A f \in Files : reported'[f] = Cardinality({w \in Lost' : w.file = f}),
             IsFiniteSet(dropped'), IsFiniteSet(failed')
      PROVE  Accounted'
  BY <1>g DEF Accounted, EveryWriteAccounted, Found
<1>s. ASSUME handed' = handed, Found \subseteq Found', UNCHANGED <<reported, dropped, failed>>
      PROVE  Accounted'
  BY <1>f, <1>g, <1>s DEF Lost
<1>1. ASSUME NEW t \in Threads, NEW f \in Files, Accept(t, f) \/ Overflow(t, f) PROVE Accounted'
  <2>1. /\ UNCHANGED <<hand, disk, reported, dropped, failed, skipped>> /\ handed' = handed + 1
        /\ NewWrite(f).no = handed + 1 /\ Ahead' = Ahead \cup {NewWrite(f)}
    BY <1>1, AcceptMoves, OverflowMoves DEF Accept, Overflow, workVars
  <2>2. Found \cup {handed + 1} \subseteq Found'
    BY <2>1, <1>u DEF Found, Lost
  <2>3. 1..(handed + 1) = 1..handed \cup {handed + 1}
    BY <1>t
  <2>4. QED BY <1>f, <1>g, <2>1, <2>2, <2>3 DEF Lost
<1>2. ASSUME NEW t \in Threads, ReportDrop(t) PROVE Accounted'
  <2>1. /\ UNCHANGED <<queue, hand, disk, handed, failed, skipped>> /\ arg \in Write /\ arg # NoWrite
        /\ arg' = NoWrite /\ dropped' = dropped \cup {arg}
        /\ reported' = [reported EXCEPT ![arg.file] = @ + 1]
    BY <1>2, WriterAssumption DEF ReportDrop, workVars, IInv, LockInv, Write
  <2>2. Lost' = Lost \cup {arg} /\ Queue' = Queue /\ Ahead' = Queue /\ Ahead = Queue \cup {arg}
    BY <2>1, OtherMoves DEF Lost, Ahead
  <2>3. arg \notin Lost
    BY <2>1, <2>2, OrderTypes, <1>t DEF Lost, OrderInv, LossOrder
  <2>4. \A f \in Files : reported'[f] = Cardinality({w \in Lost' : w.file = f})
    BY <2>1, <2>2, <2>3, LossCounted
  <2>5. Found \subseteq Found'
    BY <2>1, <2>2, <1>u DEF Found
  <2>6. IsFiniteSet(dropped') /\ IsFiniteSet(failed')
    BY <2>1, <1>f, FS_AddElement
  <2>7. QED BY <1>f, <1>g, <2>1, <2>4, <2>5, <2>6
<1>3. ASSUME NEW t \in Threads, PutStop(t) PROVE Accounted'
  <2>1. UNCHANGED <<hand, disk, handed, reported, dropped, failed, skipped>> /\ Ahead' = Ahead
    BY <1>3, PutStopMoves DEF PutStop, workVars
  <2>2. QED BY <1>s, <1>u, <2>1 DEF Found, Lost
<1>4. CASE Get
  <2>1. UNCHANGED <<arg, disk, handed, reported, dropped, failed, skipped>>
    BY <1>4 DEF Get, callVars
  <2>2. Unsettled \subseteq Unsettled'
    BY <1>4, <1>u, <2>1, GetMoves DEF OrderInv, Ahead
  <2>3. QED BY <1>s, <2>1, <2>2 DEF Found, Lost
<1>5. CASE AppendSkipped
  <2>1. /\ UNCHANGED <<queue, arg, disk, handed, reported, dropped, failed>>
        /\ skipped' = skipped \cup {hand} /\ Ahead' = Ahead
    BY <1>5, OtherMoves DEF AppendSkipped, callVars
  <2>2. QED BY <1>s, <1>u, <2>1 DEF Found, Lost
<1>6. CASE AppendDone
  <2>1. UNCHANGED <<queue, arg, handed, reported, dropped, failed, skipped>> /\ Ahead' = Ahead
    BY <1>6, OtherMoves DEF AppendDone, callVars
  <2>2. hand.file \in Files /\ hand' = NoWrite
    BY <1>6, AppendDoneMoves
  <2>3. \A f \in Files : ElementsOf(disk[f]) \subseteq ElementsOf(disk'[f])
    BY <1>6, AppendDoneMoves DEF Written
  <2>4. hand.no \in ElementsOf(disk'[hand.file])
    BY <1>6, <2>2, AppendDoneMoves
  <2>5. ASSUME NEW n \in Found PROVE n \in Found'
    <3>1. CASE \E w \in Ahead \cup Lost \cup skipped : w.no = n
      BY <1>u, <2>1, <3>1 DEF Found, Lost
    <3>2. CASE n = hand.no
      BY <2>2, <2>4, <3>2 DEF Found
    <3>3. CASE \E f \in Files : n \in ElementsOf(disk[f])
      BY <2>3, <3>3 DEF Found
    <3>4. QED BY <1>u, <3>1, <3>2, <3>3 DEF Found
  <2>6. QED BY <1>s, <2>1, <2>5
<1>7. CASE AppendFails
  <2>1. /\ UNCHANGED <<queue, arg, hand, disk, handed, reported, dropped, failed, skipped>>
        /\ Ahead' = Ahead
    BY <1>7, OtherMoves DEF AppendFails, callVars
  <2>2. QED BY <1>s, <1>u, <2>1 DEF Found, Lost
<1>8. CASE Fail
  <2>1. /\ UNCHANGED <<queue, arg, disk, handed, dropped, skipped>> /\ hand \in Write /\ hand # NoWrite
        /\ hand' = NoWrite /\ failed' = failed \cup {hand}
        /\ reported' = [reported EXCEPT ![hand.file] = @ + 1]
    BY <1>8, <1>t DEF Fail, Told, callVars, IInv, WorkInv, TypeOK
  <2>2. Lost' = Lost \cup {hand} /\ Ahead' = Ahead
    BY <2>1, OtherMoves DEF Lost
  <2>3. hand \notin Lost
    BY <2>1, OrderTypes, <1>t DEF Lost, OrderInv, LossOrder
  <2>4. \A f \in Files : reported'[f] = Cardinality({w \in Lost' : w.file = f})
    BY <2>1, <2>2, <2>3, LossCounted
  <2>5. Found \subseteq Found'
    BY <2>1, <2>2, <1>u DEF Found
  <2>6. IsFiniteSet(dropped') /\ IsFiniteSet(failed')
    BY <2>1, <1>f, FS_AddElement
  <2>7. QED BY <1>f, <1>g, <2>1, <2>4, <2>5, <2>6
<1>9. CASE CloseHandles
  <2>1. /\ UNCHANGED <<queue, arg, hand, handed, reported, dropped, failed, skipped>>
        /\ Ahead' = Ahead
    BY <1>9, OtherMoves DEF CloseHandles, callVars
  <2>2. \A f \in Files : ElementsOf(disk[f]) \subseteq ElementsOf(disk'[f])
    BY <1>9, CloseHandlesMoves
  <2>3. Found \subseteq Found'
    BY <1>u, <2>1, <2>2 DEF Found, Lost
  <2>4. QED BY <1>s, <2>1, <2>3
<1>10. CASE Quiet
  BY <1>s, <1>10 DEF Quiet, Found, Lost, Unsettled
<1>11. QED BY <1>1, <1>2, <1>3, <1>4, <1>5, <1>6, <1>7, <1>8, <1>9, <1>10, StepCases

\* A count of none means that none was lost.
LEMMA NoneLost ==
  ASSUME Accounted, NEW f \in Files, reported[f] = 0
  PROVE  \A w \in Lost : w.file # f
<1> DEFINE S == {w \in Lost : w.file = f}
<1>1. IsFiniteSet(dropped \cup failed)
  BY FS_Union DEF Accounted
<1>2. S \subseteq dropped \cup failed
  BY DEF Lost
<1>3. IsFiniteSet(S)
  BY <1>1, <1>2, FS_Subset
<1>4. Cardinality(S) = 0
  BY DEF Accounted, EveryWriteAccounted
<1>5. S = {}
  BY <1>3, <1>4, FS_EmptySet
<1>6. QED BY <1>5

LEMMA KInductive == Spec => []KInv
<1>1. IInv /\ KInv /\ [Next]_vars => KInv'
  BY OrderStep, StrictStep, AccountedStep DEF KInv
<1>2. QED BY InitKInv, Inductive, <1>1, PTL DEF Spec

\* Every file, its unwritten tail included, is in the order in which append()
\* accepted the writes, and nothing that is still to come is older.
THEOREM WriterAppendOrder == Spec => []AppendOrder
<1>1. IInv /\ KInv => AppendOrder
  <2> SUFFICES ASSUME IInv, KInv PROVE AppendOrder
    OBVIOUS
  <2>1. \A f \in Files : ElementsOf(disk[f] \o kept[f]) = Written(f)
    BY OrderTypes DEF IInv
  <2>2. DOMAIN queue = 1..Len(queue)
    BY DEF IInv, TypeOK
  <2>3. QED BY <2>1, <2>2 DEF AppendOrder, KInv, OrderInv, FileOrder, QueueOrder, Ahead, Queue
<1>2. QED BY Inductive, KInductive, <1>1, PTL

\* A number is never lost track of: every write that was handed over is in a
\* file, on its way to one, passed over, or counted as lost once.
THEOREM WriterAccountsForEveryWrite == Spec => []EveryWriteAccounted
<1>1. KInv => EveryWriteAccounted
  BY DEF KInv, Accounted
<1>2. QED BY KInductive, <1>1, PTL

\* A strict writer leaves nothing in a file that is newer than its one failure.
THEOREM WriterStrictStops == Spec => []StrictStopsAtFirstFailure
<1>1. IInv /\ KInv => StrictStopsAtFirstFailure
  BY DEF KInv, StrictInv, StrictStopsAtFirstFailure, Written
<1>2. QED BY Inductive, KInductive, <1>1, PTL

-------------------------------------------------------------------------------
(* Induction over the naturals *)

\* The least element of a set of naturals, from the finite intervals below its
\* elements; and induction as a statement about the set of the numbers of which
\* something holds.
LEMMA LeastElement ==
  ASSUME NEW T \in SUBSET Nat, T # {}
  PROVE  \E x \in T : \A y \in T : x <= y
<1> DEFINE Below == {0..n : n \in T}
<1>1. Below \subseteq FiniteSubsetsOf(Nat) /\ Below # {}
  <2>1. ASSUME NEW n \in T PROVE 0..n \in FiniteSubsetsOf(Nat)
    <3>1. n \in Int /\ 0 \in Int /\ 0..n \in SUBSET Nat
      OBVIOUS
    <3>2. IsFiniteSet(0..n)
      BY <3>1, FS_Interval
    <3>3. QED BY <3>1, <3>2 DEF FiniteSubsetsOf
  <2>2. QED BY <2>1
<1>2. \E B \in Below : \A C \in Below : <<C, B>> \notin StrictSubsetOrdering(Nat)
  BY <1>1, FS_StrictSubsetOrderingWellFounded, WFMin
<1>3. PICK x \in T : \A y \in T : <<0..y, 0..x>> \notin StrictSubsetOrdering(Nat)
  BY <1>2
<1>4. ASSUME NEW y \in T, y < x PROVE FALSE
  <2>1. 0..y \in SUBSET Nat /\ 0..x \in SUBSET Nat /\ 0..y \subseteq 0..x /\ x \in 0..x /\ x \notin 0..y
    BY <1>4
  <2>2. <<0..y, 0..x>> \in StrictSubsetOrdering(Nat)
    BY <2>1 DEF StrictSubsetOrdering
  <2>3. QED BY <1>3, <2>2
<1>5. QED BY <1>4

LEMMA Induction ==
  ASSUME NEW S, 0 \in S, \A n \in Nat : n \in S => n + 1 \in S
  PROVE  Nat \subseteq S
<1>1. SUFFICES ASSUME Nat \ S # {} PROVE FALSE
  OBVIOUS
<1>2. PICK x \in Nat \ S : \A y \in Nat \ S : x <= y
  BY <1>1, LeastElement
<1>3. x # 0 /\ x - 1 \in Nat /\ ~ (x <= x - 1)
  BY <1>2
<1>4. x - 1 \in S BY <1>2, <1>3
<1>5. QED BY <1>2, <1>4, <1>3

-------------------------------------------------------------------------------
(* What Without leaves of a sequence *)

\* One step of Without, and the functions that take it up to n.
LeftAfter(u, e, bad) == IF e \in bad THEN u ELSE Append(u, e)
Steps(left, s, bad, n) ==
  left[0] = <<>> /\ \A i \in 1..n : left[i] = LeftAfter(left[i - 1], s[i], bad)
Leaves(left, s, bad, n) ==
  left = [i \in 0..n |-> IF i = 0 THEN <<>>
                         ELSE IF s[i] \in bad THEN left[i - 1] ELSE Append(left[i - 1], s[i])]

LEMMA LeavesRec ==
  ASSUME NEW s, NEW bad, NEW n \in Nat, NEW f, Leaves(f, s, bad, n)
  PROVE  Steps(f, s, bad, n)
<1>1. \A i \in 0..n : f[i] = IF i = 0 THEN <<>> ELSE IF s[i] \in bad THEN f[i - 1] ELSE Append(f[i - 1], s[i])
  BY DEF Leaves
<1>2. QED BY <1>1 DEF LeftAfter, Steps

LEMMA LeavesExist ==
  ASSUME NEW s, NEW bad, NEW n \in Nat
  PROVE  \E left : Leaves(left, s, bad, n)
<1> DEFINE S == {k \in Nat : \E left : Leaves(left, s, bad, k)}
<1>1. 0 \in S
  <2> DEFINE f == [i \in 0..0 |-> <<>>]
  <2>1. Leaves(f, s, bad, 0)
    BY DEF Leaves
  <2>2. QED BY <2>1
<1>2. ASSUME NEW k \in Nat, k \in S PROVE k + 1 \in S
  <2>1. PICK f : Leaves(f, s, bad, k)
    BY <1>2
  <2> DEFINE g == [i \in 0..(k + 1) |-> IF i = k + 1 THEN LeftAfter(f[k], s[k + 1], bad) ELSE f[i]]
  <2>2. f[0] = <<>> /\ \A i \in 1..k : f[i] = LeftAfter(f[i - 1], s[i], bad)
    BY <2>1, LeavesRec, SMTT(60) DEF Steps
  <2>3. ASSUME NEW i \in 0..(k + 1)
        PROVE  g[i] = IF i = 0 THEN <<>> ELSE LeftAfter(g[i - 1], s[i], bad)
    <3>1. CASE i = 0
      BY <3>1, <2>2
    <3>2. CASE i \in 1..k
      <4>1. i \in 0..(k + 1) /\ i # k + 1 /\ i - 1 \in 0..(k + 1) /\ i - 1 # k + 1
        BY <3>2
      <4>2. g[i] = f[i] /\ g[i - 1] = f[i - 1]
        BY <4>1
      <4>3. QED BY <3>2, <2>2, <4>2
    <3>3. CASE i = k + 1
      <4>1. g[i] = LeftAfter(f[k], s[k + 1], bad) /\ g[k] = f[k] /\ i - 1 = k
        BY <3>3
      <4>2. QED BY <3>3, <4>1
    <3>4. QED BY <3>1, <3>2, <3>3
  <2>4. g = [i \in 0..(k + 1) |-> IF i = 0 THEN <<>> ELSE LeftAfter(g[i - 1], s[i], bad)]
    BY <2>3
  <2>5. Leaves(g, s, bad, k + 1)
    BY <2>4 DEF Leaves, LeftAfter
  <2>6. QED BY <2>5
<1>3. Nat \subseteq S
  <2> HIDE DEF S
  <2>1. QED BY <1>1, <1>2, Induction
<1>4. QED BY <1>3

LEMMA LeavesAgree ==
  ASSUME NEW s, NEW bad, NEW n \in Nat, NEW f, Steps(f, s, bad, n),
         NEW t, NEW worse, NEW m \in Nat, NEW g, Steps(g, t, worse, m),
         NEW k \in Nat, k <= n, k <= m,
         \A i \in 1..k : s[i] = t[i] /\ (s[i] \in bad <=> s[i] \in worse)
  PROVE  f[k] = g[k]
<1> DEFINE S == {j \in Nat : j <= k => f[j] = g[j]}
<1>f. f[0] = <<>> /\ \A i \in 1..n : f[i] = LeftAfter(f[i - 1], s[i], bad)
  BY DEF Steps
<1>g. g[0] = <<>> /\ \A i \in 1..m : g[i] = LeftAfter(g[i - 1], t[i], worse)
  BY DEF Steps
<1>1. 0 \in S
  BY <1>f, <1>g
<1>2. ASSUME NEW j \in Nat, j \in S PROVE j + 1 \in S
  <2> SUFFICES ASSUME j + 1 <= k PROVE f[j + 1] = g[j + 1]
    OBVIOUS
  <2>1. j + 1 \in 1..k /\ j + 1 \in 1..n /\ j + 1 \in 1..m /\ (j + 1) - 1 = j /\ j <= k
    OBVIOUS
  <2>2. f[j] = g[j]
    BY <1>2, <2>1
  <2>3. QED BY <1>f, <1>g, <2>1, <2>2 DEF LeftAfter
<1>3. Nat \subseteq S
  <2> HIDE DEF S
  <2>1. QED BY <1>1, <1>2, Induction
<1>4. k \in S
  BY <1>3
<1>5. QED BY <1>4

LEMMA WithoutLeaves ==
  ASSUME NEW s \in Seq(Nat), NEW bad
  PROVE  \E left : Steps(left, s, bad, Len(s)) /\ Without(s, bad) = left[Len(s)]
<1>0. Len(s) \in Nat
  OBVIOUS
<1>1. \E left : Leaves(left, s, bad, Len(s))
  BY <1>0, LeavesExist
<1>2. \E left : Leaves(left, s, bad, Len(s)) /\ Without(s, bad) = left[Len(s)]
  BY <1>1, Zenon DEF Leaves, Without
<1>3. QED BY <1>0, <1>2, LeavesRec

LEMMA WithoutEmpty ==
  ASSUME NEW bad
  PROVE  Without(<<>>, bad) = <<>>
<1>1. <<>> \in Seq(Nat) /\ Len(<<>>) = 0
  OBVIOUS
<1>2. PICK left : Steps(left, <<>>, bad, 0) /\ Without(<<>>, bad) = left[0]
  BY <1>1, WithoutLeaves
<1>3. QED BY <1>2 DEF Steps

LEMMA WithoutAppend ==
  ASSUME NEW s \in Seq(Nat), NEW n \in Nat, NEW bad
  PROVE  Without(Append(s, n), bad) = IF n \in bad THEN Without(s, bad) ELSE Append(Without(s, bad), n)
<1>0. Append(s, n) \in Seq(Nat)
  OBVIOUS
<1>1. PICK t \in Seq(Nat) : t = Append(s, n)
  BY ONLY <1>0
<1>2. PICK k \in Nat : k = Len(s)
  OBVIOUS
<1>3. PICK m \in Nat : m = k + 1
  OBVIOUS
<1>4. Len(t) = m /\ t[m] = n /\ m \in 1..m /\ m - 1 = k /\ k <= k /\ k <= m
  BY <1>1, <1>2, <1>3
<1>5. \A i \in 1..k : s[i] = t[i] /\ (s[i] \in bad <=> s[i] \in bad)
  BY <1>1, <1>2
<1>6. PICK f : Steps(f, s, bad, k) /\ Without(s, bad) = f[k]
  BY <1>2, WithoutLeaves
<1>7. PICK g : Steps(g, t, bad, m) /\ Without(t, bad) = g[m]
  BY <1>4, WithoutLeaves
<1>8. f[k] = g[k]
  BY ONLY k \in Nat, m \in Nat, <1>4, <1>5, <1>6, <1>7, LeavesAgree
<1>9. \A i \in 1..m : g[i] = LeftAfter(g[i - 1], t[i], bad)
  BY <1>7 DEF Steps
<1>10. g[m] = LeftAfter(g[k], n, bad)
  BY <1>4, <1>9
<1>11. QED BY <1>1, <1>6, <1>7, <1>8, <1>10 DEF LeftAfter

LEMMA WithoutSame ==
  ASSUME NEW s \in Seq(Nat), NEW bad, NEW worse,
         \A n \in ElementsOf(s) : n \in bad <=> n \in worse
  PROVE  Without(s, bad) = Without(s, worse)
<1>1. PICK f : Steps(f, s, bad, Len(s)) /\ Without(s, bad) = f[Len(s)]
  BY WithoutLeaves
<1>2. PICK g : Steps(g, s, worse, Len(s)) /\ Without(s, worse) = g[Len(s)]
  BY WithoutLeaves
<1>3. \A i \in 1..Len(s) : s[i] \in bad <=> s[i] \in worse
  BY DEF ElementsOf
<1>4. f[Len(s)] = g[Len(s)]
  BY <1>1, <1>2, <1>3, LeavesAgree
<1>5. QED BY <1>1, <1>2, <1>4

LEMMA WithoutBadTail ==
  ASSUME NEW s \in Seq(Nat), NEW t \in Seq(Nat), NEW bad, ElementsOf(t) \subseteq bad
  PROVE  Without(s \o t, bad) = Without(s, bad)
<1>0. s \o t \in Seq(Nat)
  OBVIOUS
<1>1. PICK u \in Seq(Nat) : u = s \o t
  BY ONLY <1>0
<1>2. PICK k \in Nat : k = Len(s)
  OBVIOUS
<1>3. PICK m \in Nat : m = Len(u)
  OBVIOUS
<1>4. m = k + Len(t) /\ Len(t) \in Nat /\ k <= k /\ k <= m
  BY <1>1, <1>2, <1>3
<1>5. \A i \in 1..k : s[i] = u[i] /\ (s[i] \in bad <=> s[i] \in bad)
  BY <1>1, <1>2
<1>6. \A i \in 1..Len(t) : u[k + i] \in bad
  BY <1>1, <1>2 DEF ElementsOf
<1>7. PICK f : Steps(f, s, bad, k) /\ Without(s, bad) = f[k]
  BY <1>2, WithoutLeaves
<1>8. PICK g : Steps(g, u, bad, m) /\ Without(u, bad) = g[m]
  BY <1>3, WithoutLeaves
<1>9. f[k] = g[k]
  BY ONLY k \in Nat, m \in Nat, <1>4, <1>5, <1>7, <1>8, LeavesAgree
<1>10. \A i \in 1..m : g[i] = LeftAfter(g[i - 1], u[i], bad)
  BY <1>8 DEF Steps
<1> DEFINE S == {j \in Nat : j <= Len(t) => g[k + j] = g[k]}
<1>11. 0 \in S
  OBVIOUS
<1>12. ASSUME NEW j \in Nat, j \in S PROVE j + 1 \in S
  <2> SUFFICES ASSUME j + 1 <= Len(t) PROVE g[k + (j + 1)] = g[k]
    OBVIOUS
  <2>1. /\ k + (j + 1) \in 1..m /\ (k + (j + 1)) - 1 = k + j
        /\ j + 1 \in 1..Len(t) /\ j <= Len(t)
    BY <1>4
  <2>2. u[k + (j + 1)] \in bad
    BY <1>6, <2>1
  <2>3. QED BY <1>10, <1>12, <2>1, <2>2 DEF LeftAfter
<1>13. Len(t) \in S
  <2> HIDE DEF S
  <2>1. QED BY <1>4, <1>11, <1>12, Induction
<1>14. QED BY <1>1, <1>4, <1>7, <1>8, <1>9, <1>13

-------------------------------------------------------------------------------
(* The refinement of SpoolLog *)

\* What failed flushes left in a buffer are writes that were reported lost, or the
\* one that is about to be.
KeptInv ==
  \A f \in Files : \A n \in ElementsOf(kept[f]) :
    n \in FailedIn(f) \/ (wpc = "report" /\ hand.file = f /\ hand.no = n)

LEMMA KeptStep == IInv /\ KeptInv /\ [Next]_vars => KeptInv'
<1> SUFFICES ASSUME IInv, KeptInv, [Next]_vars PROVE KeptInv'
  OBVIOUS
<1>1. ASSUME UNCHANGED <<kept, failed>>, wpc = "report" => wpc' = "report" /\ hand' = hand
      PROVE  KeptInv'
  BY <1>1 DEF KeptInv, FailedIn
<1>2. ASSUME NEW t \in Threads, NEW f \in Files, Accept(t, f) \/ Overflow(t, f) PROVE KeptInv'
  BY <1>1, <1>2 DEF Accept, Overflow, workVars
<1>3. ASSUME NEW t \in Threads, ReportDrop(t) \/ PutStop(t) PROVE KeptInv'
  BY <1>1, <1>3 DEF ReportDrop, PutStop, workVars
<1>4. CASE Get \/ AppendSkipped
  BY <1>1, <1>4 DEF Get, AppendSkipped
<1>5. CASE AppendDone
  <2>1. wpc = "append" /\ failed' = failed
    BY <1>5 DEF AppendDone
  <2>2. ASSUME NEW f \in Files PROVE ElementsOf(kept'[f]) \subseteq ElementsOf(kept[f])
    BY <1>5, AppendDoneMoves, ElementsEmpty
  <2>3. QED BY <2>1, <2>2 DEF KeptInv, FailedIn
<1>6. CASE AppendFails
  <2>1. wpc = "append" /\ wpc' = "report" /\ failed' = failed /\ hand' = hand
    BY <1>6 DEF AppendFails
  <2>2. ASSUME NEW f \in Files
        PROVE  \/ ElementsOf(kept'[f]) = ElementsOf(kept[f])
               \/ f = hand.file /\ ElementsOf(kept'[f]) = ElementsOf(kept[f]) \cup {hand.no}
    BY <1>6, AppendFailsMoves
  <2>3. QED BY <2>1, <2>2 DEF KeptInv, FailedIn
<1>7. CASE Fail
  <2>1. kept' = kept /\ failed' = failed \cup {hand}
    BY <1>7 DEF Fail
  <2>2. QED BY <2>1 DEF KeptInv, FailedIn
<1>8. CASE CloseHandles
  BY <1>8, CloseHandlesMoves, ElementsEmpty DEF KeptInv
<1>9. CASE Quiet
  BY <1>1, <1>9 DEF Quiet
<1>10. QED BY <1>2, <1>3, <1>4, <1>5, <1>6, <1>7, <1>8, <1>9, StepCases

LEMMA KeptInductive == Spec => []KeptInv
<1>1. Init => KeptInv
  BY ElementsEmpty DEF Init, KeptInv
<1>2. QED BY <1>1, Inductive, KeptStep, PTL DEF Spec

\* The variables of the log that are computed from the writer's.
Waiting == (IF hand = NoWrite THEN <<>> ELSE <<hand>>) \o QueuedWrites
Broken == strict /\ firstError /\ wpc # "report"
AllLost == Lost \cup ({arg} \ {NoWrite})
LogFiles == [f \in Files |-> Delivered(f)]

\* What is queued behind the hand, sentinel or none.
LEMMA QueuedFacts ==
  ASSUME IInv
  PROVE  /\ QueuedWrites \in Seq(Write)
         /\ accepting => QueuedWrites = queue
         /\ Len(QueuedWrites) <= Len(queue)
         /\ queue = <<>> => QueuedWrites = <<>>
<1>1. /\ queue \in Seq(Write \cup {Stop}) /\ Len(queue) \in Nat
      /\ \A i \in 1..Len(queue) : queue[i] \in Write \cup {Stop}
      /\ \A i \in 1..Len(queue) : queue[i] = Stop => i = Len(queue) /\ ~accepting
  BY QueueFacts DEF IInv, TypeOK, StopInv
<1>2. CASE queue # <<>> /\ queue[Len(queue)] = Stop
  <2>1. Len(queue) > 0 /\ Len(queue) \in 1..Len(queue) /\ Len(queue) - 1 \in Nat
    BY <1>1, <1>2
  <2>2. QueuedWrites = SubSeq(queue, 1, Len(queue) - 1)
    BY <1>2 DEF QueuedWrites
  <2>3. \A i \in 1..(Len(queue) - 1) : queue[i] \in Write
    BY <1>1, <2>1
  <2>4. PICK n \in Int : n = Len(queue) - 1
    BY <2>1
  <2>5. SubSeq(queue, 1, n) \in Seq(Write) /\ Len(SubSeq(queue, 1, n)) = IF 1 <= n THEN n - 1 + 1 ELSE 0
    <3>1. \A i \in 1..n : queue[i] \in Write
      BY <2>3, <2>4
    <3>2. 1 \in Int
      OBVIOUS
    <3>3. QED BY <3>1, <3>2, SubSeqProperties
  <2>6. Len(SubSeq(queue, 1, n)) <= Len(queue)
    BY <2>1, <2>4, <2>5
  <2>7. QED BY <1>1, <1>2, <2>1, <2>2, <2>4, <2>5, <2>6
<1>3. CASE ~(queue # <<>> /\ queue[Len(queue)] = Stop)
  <2>1. QueuedWrites = queue
    BY <1>3 DEF QueuedWrites
  <2>2. \A i \in 1..Len(queue) : queue[i] \in Write
    <3>1. ASSUME NEW i \in 1..Len(queue), queue[i] = Stop PROVE FALSE
      <4>1. i = Len(queue) /\ queue # <<>>
        BY <1>1, <3>1
      <4>2. QED BY <1>3, <3>1, <4>1
    <3>2. QED BY <1>1, <3>1
  <2>3. queue \in Seq(Write)
    BY <1>1, <2>2
  <2>4. QED BY <1>1, <2>1, <2>3
<1>4. QED BY <1>2, <1>3

LEMMA PutStopQueued ==
  ASSUME IInv, NEW t \in Threads, PutStop(t)
  PROVE  QueuedWrites' = QueuedWrites
<1>1. queue' = Append(queue, Stop) /\ queue \in Seq(Write \cup {Stop}) /\ Len(queue) \in Nat
  BY DEF PutStop, Queued, IInv, TypeOK
<1>2. \A i \in 1..Len(queue) : queue[i] # Stop
  BY DEF PutStop, IInv, StopInv
<1>3. QueuedWrites = queue
  BY <1>1, <1>2 DEF QueuedWrites
<1>4. Len(queue') = Len(queue) + 1 /\ queue' # <<>> /\ queue'[Len(queue')] = Stop
  BY <1>1
<1>5. QueuedWrites' = SubSeq(queue', 1, Len(queue))
  BY <1>1, <1>4 DEF QueuedWrites
<1>6. SubSeq(Append(queue, Stop), 1, Len(queue)) = queue
  <2>1. /\ SubSeq(Append(queue, Stop), 1, Len(queue)) \in Seq(Write \cup {Stop})
        /\ Len(SubSeq(Append(queue, Stop), 1, Len(queue))) = Len(queue)
        /\ \A i \in 1..Len(queue) : SubSeq(Append(queue, Stop), 1, Len(queue))[i] = queue[i]
    BY <1>1
  <2>2. QED BY <1>1, <2>1, SeqEqual
<1>7. QED BY <1>1, <1>3, <1>5, <1>6

LEMMA GetQueued ==
  ASSUME IInv, QueueOrder, Get
  PROVE  Waiting' = Waiting
<1>1. /\ queue # <<>> /\ Len(queue) \in Nat /\ Len(queue) > 0 /\ queue' = Tail(queue)
      /\ Head(queue) = queue[1] /\ Tail(queue) \in Seq(Write \cup {Stop})
      /\ queue \in Seq(Write \cup {Stop}) /\ Len(Tail(queue)) = Len(queue) - 1
      /\ \A i \in 1..Len(Tail(queue)) : Tail(queue)[i] = queue[i + 1]
  BY QueueFacts DEF Get, IInv, TypeOK
<1>2. hand = NoWrite /\ QueuedWrites \in Seq(Write) /\ Waiting = QueuedWrites
  <2>1. hand = NoWrite
    BY DEF Get, IInv, WorkInv
  <2>2. QueuedWrites \in Seq(Write)
    BY QueuedFacts
  <2>3. QED BY <2>1, <2>2, ConcatEmptySeq DEF Waiting
<1>3. CASE queue[1] = Stop
  <2>1. Len(queue) = 1 /\ hand' = NoWrite
    <3>1. 1 \in 1..Len(queue)
      BY <1>1
    <3>2. QED BY <3>1, <1>1, <1>2, <1>3 DEF IInv, StopInv, Get, IsStop
  <2>2. Tail(queue) = <<>>
    BY <1>1, <2>1
  <2>3. QueuedWrites' = <<>>
    BY <1>1, <2>2 DEF QueuedWrites
  <2>4. QueuedWrites = <<>>
    <3>1. QueuedWrites = SubSeq(queue, 1, 0)
      BY <1>1, <1>3, <2>1 DEF QueuedWrites
    <3>2. QED BY <3>1
  <2>5. QED BY <1>2, <2>1, <2>3, <2>4, SMTT(60) DEF Waiting
<1>4. CASE queue[1] # Stop
  <2>1. hand' = queue[1] /\ hand' # NoWrite /\ queue[1] \in Write
    BY <1>1, <1>4, QueueFacts, WriterAssumption DEF Get, IsStop, IInv, Write
  <2>2. Waiting' = <<queue[1]>> \o QueuedWrites'
    BY <2>1 DEF Waiting
  <2>3. <<queue[1]>> \o QueuedWrites' = QueuedWrites
    <3>1. CASE Len(queue) > 1 /\ queue[Len(queue)] = Stop
      <4>1. Tail(queue) # <<>> /\ Tail(queue)[Len(Tail(queue))] = Stop
        <5>1. /\ Len(Tail(queue)) \in 1..Len(Tail(queue)) /\ Len(Tail(queue)) > 0
              /\ Len(Tail(queue)) + 1 = Len(queue)
          BY <1>1, <3>1
        <5>. Tail(queue) # <<>>
          BY <5>1
        <5>2. Tail(queue)[Len(Tail(queue))] = queue[Len(queue)]
          BY <1>1, <5>1
        <5>3. QED BY <3>1, <5>1, <5>2
      <4>2. QueuedWrites' = SubSeq(Tail(queue), 1, Len(queue) - 2)
        BY <1>1, <4>1 DEF QueuedWrites
      <4>3. QueuedWrites = SubSeq(queue, 1, Len(queue) - 1)
        BY <1>1, <3>1 DEF QueuedWrites
      <4> DEFINE a == <<queue[1]>> \o SubSeq(Tail(queue), 1, Len(queue) - 2)
                 b == SubSeq(queue, 1, Len(queue) - 1)
      <4>4. /\ a \in Seq(Write \cup {Stop}) /\ b \in Seq(Write \cup {Stop}) /\ Len(a) = Len(queue) - 1
            /\ Len(b) = Len(queue) - 1
        BY <1>1, <3>1, <2>1
      <4>5. \A i \in 1..Len(a) : a[i] = b[i]
        BY <1>1, <3>1, <2>1
      <4>6. a = b
        BY <4>4, <4>5, SeqEqual
      <4>7. QED BY <4>2, <4>3, <4>6
    <3>2. CASE ~(Len(queue) > 1 /\ queue[Len(queue)] = Stop)
      <4>1. queue[Len(queue)] # Stop
        BY <1>1, <1>4, <3>2
      <4>2. QueuedWrites = queue
        BY <4>1 DEF QueuedWrites
      <4>3. Tail(queue) = <<>> \/ Tail(queue)[Len(Tail(queue))] # Stop
        BY <1>1, <4>1, SMTT(60)
      <4>4. QueuedWrites' = Tail(queue)
        BY <1>1, <4>3 DEF QueuedWrites
      <4> DEFINE a == <<queue[1]>> \o Tail(queue)
      <4>5. a \in Seq(Write \cup {Stop}) /\ Len(a) = Len(queue) /\ \A i \in 1..Len(queue) : a[i] = queue[i]
        BY <1>1, <2>1
      <4>6. a = queue
        BY <1>1, <4>5, SeqEqual
      <4>7. QED BY <4>2, <4>4, <4>6
    <3>3. QED BY <3>1, <3>2
  <2>4. QED BY <1>2, <2>2, <2>3
<1>5. QED BY <1>3, <1>4

\* What counts as delivered, before and after each step that touches a file or
\* adds to the failures.
LEMMA DeliveredDone ==
  ASSUME IInv, OrderInv, KeptInv, AppendDone, NEW f \in Files
  PROVE  Delivered(f)' = IF f = hand.file THEN Append(Delivered(f), hand.no) ELSE Delivered(f)
<1>1. failed' = failed /\ wpc = "append"
  BY DEF AppendDone
<1>2. FailedIn(f)' = FailedIn(f)
  BY <1>1 DEF FailedIn
<1>3. CASE f # hand.file
  BY <1>2, <1>3, AppendDoneMoves DEF Delivered
<1>4. CASE f = hand.file
  <2>1. /\ disk[f] \in Seq(Nat) /\ kept[f] \in Seq(Nat) /\ disk[f] \o kept[f] \in Seq(Nat)
        /\ hand \in Write /\ hand # NoWrite /\ hand.no \in Nat
        /\ disk'[f] = Append(disk[f] \o kept[f], hand.no)
    BY <1>4, AppendDoneMoves, OrderTypes DEF IInv
  <2>2. hand.no \notin FailedIn(f)
    <3>1. \A w \in failed : w.no \in Nat /\ w.no < hand.no
      BY <2>1, OrderTypes DEF OrderInv, LossOrder, IInv, TypeOK
    <3>2. QED BY <3>1, <2>1 DEF FailedIn
  <2>3. ElementsOf(kept[f]) \subseteq FailedIn(f)
    BY <1>1 DEF KeptInv
  <2>4. Without(Append(disk[f] \o kept[f], hand.no), FailedIn(f))
          = Append(Without(disk[f] \o kept[f], FailedIn(f)), hand.no)
    <3>1. PICK s \in Seq(Nat) : s = disk[f] \o kept[f]
      BY <2>1
    <3>2. PICK n \in Nat : n = hand.no
      BY <2>1
    <3>3. PICK bad : bad = FailedIn(f)
      OBVIOUS
    <3>4. Without(Append(s, n), bad) = IF n \in bad THEN Without(s, bad) ELSE Append(Without(s, bad), n)
      BY WithoutAppend
    <3>5. n \notin bad
      BY <2>2, <3>2, <3>3
    <3>6. Without(Append(s, n), bad) = Append(Without(s, bad), n)
      BY <3>4, <3>5
    <3>7. QED BY ONLY <3>1, <3>2, <3>3, <3>6
  <2>5. Without(disk[f] \o kept[f], FailedIn(f)) = Without(disk[f], FailedIn(f))
    BY <2>1, <2>3, WithoutBadTail
  <2>6. QED BY <1>2, <1>4, <2>1, <2>4, <2>5 DEF Delivered
<1>5. QED BY <1>3, <1>4

LEMMA DeliveredFail ==
  ASSUME IInv, OrderInv, Fail, NEW f \in Files
  PROVE  Delivered(f)' = Delivered(f)
<1>1. failed' = failed \cup {hand} /\ disk' = disk /\ hand # NoWrite /\ disk[f] \in Seq(Nat)
  BY OrderTypes DEF Fail, IInv, WorkInv
<1>2. hand.no \notin ElementsOf(disk[f])
  <2>1. \A n \in ElementsOf(disk[f]) : n \in Nat /\ n < hand.no
    BY <1>1, OrderTypes DEF OrderInv, FileOrder, Written, IInv
  <2>2. hand.no \in Nat
    BY <1>1, OrderTypes DEF IInv, TypeOK
  <2>3. QED BY <2>1, <2>2
<1>3. \A n \in ElementsOf(disk[f]) : n \in FailedIn(f) <=> n \in FailedIn(f)'
  BY <1>1, <1>2 DEF FailedIn
<1>4. PICK bad, worse : bad = FailedIn(f) /\ worse = FailedIn(f)'
  OBVIOUS
<1>5. Without(disk[f], bad) = Without(disk[f], worse)
  BY <1>1, <1>3, <1>4, WithoutSame
<1>6. QED BY <1>1, <1>4, <1>5 DEF Delivered

LEMMA DeliveredClose ==
  ASSUME IInv, KeptInv, CloseHandles, NEW f \in Files
  PROVE  Delivered(f)' = Delivered(f)
<1>1. failed' = failed /\ wpc = "exiting" /\ disk[f] \in Seq(Nat) /\ kept[f] \in Seq(Nat)
  BY OrderTypes DEF CloseHandles, IInv
<1>2. FailedIn(f)' = FailedIn(f)
  BY <1>1 DEF FailedIn
<1>3. ElementsOf(kept[f]) \subseteq FailedIn(f)
  BY <1>1 DEF KeptInv
<1>4. Without(disk[f] \o kept[f], FailedIn(f)) = Without(disk[f], FailedIn(f))
  BY <1>1, <1>3, WithoutBadTail
<1>5. disk'[f] = disk[f] \/ disk'[f] = disk[f] \o kept[f]
  BY CloseHandlesMoves
<1>6. QED BY <1>2, <1>4, <1>5 DEF Delivered

LEMMA LogInit == Init => Log!Init
<1> SUFFICES ASSUME Init PROVE Log!Init
  OBVIOUS
<1>1. Waiting = <<>>
  BY DEF Init, Waiting, QueuedWrites
<1>2. LogFiles = [f \in Files |-> <<>>]
  BY WithoutEmpty DEF Init, LogFiles, Delivered
<1>3. AllLost = {}
  BY DEF Init, AllLost, Lost
<1>4. Broken = FALSE /\ Joined = FALSE
  BY DEF Init, Broken, Joined
<1>5. QED BY <1>1, <1>2, <1>3, <1>4 DEF Init, Log!Init, Waiting, LogFiles, AllLost, Broken

\* Every step of the writer is one of the log's, or leaves the log as it is.
LEMMA LogStep == IInv /\ OrderInv /\ StrictInv /\ KeptInv /\ [Next]_vars => [Log!Next]_(Log!vars)
<1> SUFFICES ASSUME IInv, OrderInv, StrictInv, KeptInv, [Next]_vars PROVE [Log!Next]_(Log!vars)
  OBVIOUS
<1>t. /\ TypeOK /\ Len(queue) \in Nat /\ handed \in Nat /\ MaxQueued \in Nat
      /\ QueuedWrites \in Seq(Write)
  BY QueueFacts, QueuedFacts, WriterAssumption DEF IInv, TypeOK
<1>s. ASSUME UNCHANGED <<strict, accepting, handed, Waiting, LogFiles, AllLost, skipped, Broken, Joined>>
      PROVE  [Log!Next]_(Log!vars)
  BY <1>s DEF Log!vars, Waiting, LogFiles, AllLost, Broken
<1>f. ASSUME UNCHANGED <<disk, failed>> PROVE LogFiles' = LogFiles
  BY <1>f DEF LogFiles, Delivered, FailedIn
<1>w. ASSUME UNCHANGED <<queue, hand>> PROVE Waiting' = Waiting
  BY <1>w DEF Waiting, QueuedWrites
<1>1. ASSUME NEW t \in Threads, NEW f \in Files, Accept(t, f) PROVE [Log!Next]_(Log!vars)
  <2>1. /\ accepting /\ Len(queue) < MaxQueued /\ handed < MaxHanded /\ handed' = handed + 1
        /\ UNCHANGED <<strict, accepting, disk, failed, dropped, skipped, arg, hand, firstError, wpc>>
        /\ queue' = Append(queue, NewWrite(f)) /\ NewWrite(f) \in Write
    BY <1>1, AcceptMoves DEF Accept, StillAccepting, Queued, callVars, workVars
  <2>2. QueuedWrites = queue /\ queue \in Seq(Write)
    BY <2>1, <1>t, QueuedFacts
  <2>3. QueuedWrites' = Append(queue, NewWrite(f))
    <3>1. NewWrite(f) # Stop /\ queue'[Len(queue')] = NewWrite(f)
      BY <2>1, <2>2, WriterAssumption DEF Write
    <3>2. QED BY <2>1, <3>1 DEF QueuedWrites
  <2>4. Len(Waiting) <= MaxQueued /\ Waiting' = Append(Waiting, NewWrite(f))
    <3>1. CASE hand = NoWrite
      BY <3>1, <1>t, <2>1, <2>2, <2>3, ConcatEmptySeq, AppendProperties DEF Waiting
    <3>2. CASE hand # NoWrite
      <4>1. hand \in Write /\ <<hand>> \in Seq(Write) /\ Len(<<hand>>) = 1
        BY <3>2, <1>t DEF TypeOK
      <4>2. Waiting = <<hand>> \o queue /\ Waiting' = <<hand>> \o Append(queue, NewWrite(f))
        BY <3>2, <2>1, <2>2, <2>3 DEF Waiting
      <4>3. Len(<<hand>> \o queue) = 1 + Len(queue)
        BY <4>1, <2>2
      <4>4. <<hand>> \o Append(queue, NewWrite(f)) = Append(<<hand>> \o queue, NewWrite(f))
        BY <4>1, <2>1, <2>2, ConcatAssociative, AppendIsConcat
      <4>5. QED BY <1>t, <2>1, <4>2, <4>3, <4>4
    <3>3. QED BY <3>1, <3>2
  <2>5. LogFiles' = LogFiles /\ AllLost' = AllLost /\ Broken' = Broken /\ Joined' = Joined
    BY <1>f, <2>1 DEF AllLost, Lost, Broken, Joined
  <2>6. Log!Take(f)
    BY <2>1, <2>4, <2>5 DEF Log!Take, Log!NewWrite, NewWrite, Waiting, LogFiles, AllLost, Broken
  <2>7. QED BY <2>6 DEF Log!Next
<1>2. ASSUME NEW t \in Threads, NEW f \in Files, Overflow(t, f) PROVE [Log!Next]_(Log!vars)
  <2>1. /\ accepting /\ Len(queue) >= MaxQueued /\ handed < MaxHanded /\ handed' = handed + 1
        /\ UNCHANGED <<strict, accepting, queue, disk, failed, dropped, skipped, hand, firstError, wpc>>
        /\ arg = NoWrite /\ arg' = NewWrite(f) /\ NewWrite(f) # NoWrite
    BY <1>2, OverflowMoves DEF Overflow, StillAccepting, workVars
  <2>2. QueuedWrites = queue /\ queue \in Seq(Write)
    BY <2>1, <1>t, QueuedFacts
  <2>3. Len(Waiting) >= MaxQueued /\ Waiting' = Waiting
    <3>1. CASE hand = NoWrite
      BY <3>1, <1>t, <1>w, <2>1, <2>2, ConcatEmptySeq DEF Waiting
    <3>2. CASE hand # NoWrite
      <4>1. <<hand>> \in Seq(Write) /\ Len(<<hand>>) = 1
        BY <3>2, <1>t DEF TypeOK
      <4>2. Len(<<hand>> \o queue) = 1 + Len(queue)
        BY <4>1, <2>2
      <4>3. QED BY <3>2, <1>t, <1>w, <2>1, <2>2, <4>2 DEF Waiting
    <3>3. QED BY <3>1, <3>2
  <2>4. AllLost' = AllLost \cup {NewWrite(f)}
    BY <2>1 DEF AllLost, Lost
  <2>5. LogFiles' = LogFiles /\ Broken' = Broken /\ Joined' = Joined
    BY <1>f, <2>1 DEF Broken, Joined
  <2>6. Log!TurnAway(f)
    BY <2>1, <2>3, <2>4, <2>5 DEF Log!TurnAway, Log!NewWrite, NewWrite, Waiting, LogFiles, AllLost, Broken
  <2>7. QED BY <2>6 DEF Log!Next
<1>3. ASSUME NEW t \in Threads, ReportDrop(t) PROVE [Log!Next]_(Log!vars)
  <2>1. /\ UNCHANGED <<strict, accepting, queue, handed, disk, failed, skipped, hand, firstError, wpc>>
        /\ arg # NoWrite /\ arg' = NoWrite /\ dropped' = dropped \cup {arg}
    BY <1>3, WriterAssumption DEF ReportDrop, workVars, IInv, LockInv, Write
  <2>2. AllLost' = AllLost
    BY <2>1 DEF AllLost, Lost
  <2>3. QED BY <1>s, <1>f, <1>w, <2>1, <2>2 DEF Broken, Joined
<1>4. ASSUME NEW t \in Threads, PutStop(t) PROVE [Log!Next]_(Log!vars)
  <2>1. UNCHANGED <<strict, accepting, handed, arg, disk, failed, dropped, skipped, hand, firstError, wpc>>
    BY <1>4 DEF PutStop, workVars
  <2>2. Waiting' = Waiting
    BY <1>4, <2>1, PutStopQueued DEF Waiting
  <2>3. QED BY <1>s, <1>f, <2>1, <2>2 DEF Broken, Joined, AllLost, Lost
<1>5. ASSUME NEW t \in Threads, StopAccepting(t) PROVE [Log!Next]_(Log!vars)
  <2>1. /\ UNCHANGED <<strict, queue, handed, arg, disk, failed, dropped, skipped, hand, firstError, wpc>>
        /\ accepting' = FALSE
    BY <1>5 DEF StopAccepting, workVars
  <2>2. UNCHANGED <<strict, handed, Waiting, LogFiles, AllLost, skipped, Broken, Joined>>
    BY <1>f, <1>w, <2>1 DEF Broken, Joined, AllLost, Lost
  <2>3. CASE accepting
    <3>1. Log!Shut
      BY <2>1, <2>2, <2>3 DEF Log!Shut, Waiting, LogFiles, AllLost, Broken
    <3>2. QED BY <3>1 DEF Log!Next
  <2>4. CASE ~accepting
    BY <1>s, <2>1, <2>2, <2>4, <1>t DEF TypeOK
  <2>5. QED BY <2>3, <2>4
<1>6. ASSUME NEW t \in Threads, Refuse(t) \/ Join(t) PROVE [Log!Next]_(Log!vars)
  <2>1. /\ UNCHANGED <<strict, queue, handed, arg, disk, failed, dropped, skipped, hand, firstError, wpc>>
        /\ UNCHANGED accepting
    BY <1>6 DEF Refuse, Join, vars, callVars, workVars
  <2>2. QED BY <1>s, <1>f, <1>w, <2>1 DEF Broken, Joined, AllLost, Lost
<1>7. CASE MakeDirs
  <2>1. /\ UNCHANGED <<strict, queue, handed, arg, disk, failed, dropped, skipped, hand, firstError>>
        /\ UNCHANGED accepting /\ wpc = "start" /\ wpc' = "get"
    BY <1>7 DEF MakeDirs, callVars
  <2>2. QED BY <1>s, <1>f, <1>w, <2>1 DEF Broken, Joined, AllLost, Lost
<1>8. CASE Get
  <2>1. /\ UNCHANGED <<strict, accepting, handed, arg, disk, failed, dropped, skipped, firstError>>
        /\ wpc = "get" /\ wpc' \in {"append", "exiting"}
    BY <1>8 DEF Get, callVars
  <2>2. Waiting' = Waiting
    BY <1>8, GetQueued DEF OrderInv
  <2>3. QED BY <1>s, <1>f, <2>1, <2>2 DEF Broken, Joined, AllLost, Lost
<1>h. ASSUME hand # NoWrite, hand' = NoWrite, queue' = queue
      PROVE  Waiting # <<>> /\ Head(Waiting) = hand /\ Waiting' = Tail(Waiting)
  <2>1. hand \in Write /\ Waiting = <<hand>> \o QueuedWrites /\ Waiting' = <<>> \o QueuedWrites
    BY <1>h, <1>t DEF Waiting, TypeOK, QueuedWrites
  <2>2. PICK q \in Seq(Write) : q = QueuedWrites
    BY <1>t
  <2>3. /\ <<hand>> \o q # <<>> /\ Head(<<hand>> \o q) = hand
        /\ Tail(<<hand>> \o q) = q
    <3>1. <<hand>> \o q \in Seq(Write) /\ Len(<<hand>> \o q) = 1 + Len(q) /\ Len(q) \in Nat
      BY <2>1
    <3>2. (<<hand>> \o q)[1] = hand /\ \A i \in 1..Len(q) : (<<hand>> \o q)[i + 1] = q[i]
      BY <2>1
    <3>3. <<hand>> \o q # <<>> /\ Head(<<hand>> \o q) = hand
      BY <3>1, <3>2
    <3>4. /\ Tail(<<hand>> \o q) \in Seq(Write) /\ Len(Tail(<<hand>> \o q)) = Len(q)
          /\ \A i \in 1..Len(q) : Tail(<<hand>> \o q)[i] = q[i]
      BY <3>1, <3>2, <3>3, HeadTailProperties
    <3>5. QED BY <3>3, <3>4, SeqEqual
  <2>4. <<>> \o q = q
    BY ConcatEmptySeq
  <2>5. QED BY <2>1, <2>2, <2>3, <2>4
<1>9. CASE AppendSkipped
  <2>1. /\ UNCHANGED <<strict, accepting, queue, handed, arg, disk, failed, dropped, firstError>>
        /\ hand # NoWrite /\ hand' = NoWrite /\ skipped' = skipped \cup {hand}
        /\ strict /\ firstError /\ wpc = "append" /\ wpc' = "get"
    BY <1>9 DEF AppendSkipped, ShortCircuit, callVars, IInv, WorkInv
  <2>2. Broken /\ Broken' /\ UNCHANGED <<LogFiles, AllLost, Joined>>
    BY <1>f, <2>1 DEF Broken, Joined, AllLost, Lost
  <2>3. Broken' = Broken
    BY <2>2, Zenon DEF Broken
  <2>4. Waiting # <<>> /\ Head(Waiting) = hand /\ Waiting' = Tail(Waiting)
    BY <1>h, <2>1
  <2>5. Log!Skip
    BY <2>1, <2>2, <2>3, <2>4 DEF Log!Skip, Waiting, LogFiles, AllLost, Broken
  <2>6. QED BY <2>5 DEF Log!Next, Log!Settle
<1>10. CASE AppendDone
  <2>1. /\ UNCHANGED <<strict, accepting, queue, handed, arg, failed, dropped, skipped, firstError>>
        /\ hand # NoWrite /\ hand' = NoWrite /\ ~(strict /\ firstError)
        /\ wpc = "append" /\ wpc' = "get" /\ hand.file \in Files
    BY <1>10, AppendDoneMoves DEF AppendDone, ShortCircuit, callVars
  <2>2. LogFiles' = [LogFiles EXCEPT ![hand.file] = Append(@, hand.no)]
    <3>1. \A f \in Files : Delivered(f)' = IF f = hand.file THEN Append(Delivered(f), hand.no) ELSE Delivered(f)
      BY <1>10, DeliveredDone
    <3>2. QED BY <2>1, <3>1 DEF LogFiles
  <2>3. ~Broken /\ ~Broken' /\ UNCHANGED <<AllLost, Joined>>
    BY <2>1 DEF Broken, Joined, AllLost, Lost
  <2>4. Broken' = Broken
    BY <2>3, Zenon DEF Broken
  <2>5. Waiting # <<>> /\ Head(Waiting) = hand /\ Waiting' = Tail(Waiting)
    BY <1>h, <2>1
  <2>6. Log!Deliver
    BY <2>1, <2>2, <2>3, <2>4, <2>5 DEF Log!Deliver, Waiting, LogFiles, AllLost, Broken
  <2>7. QED BY <2>6 DEF Log!Next, Log!Settle
<1>11. CASE AppendFails
  <2>1. /\ UNCHANGED <<strict, accepting, queue, handed, arg, hand, disk, failed, dropped, skipped>>
        /\ ~(strict /\ firstError) /\ wpc = "append" /\ wpc' = "report"
    BY <1>11 DEF AppendFails, ShortCircuit, callVars
  <2>2. ~Broken /\ ~Broken' /\ UNCHANGED <<AllLost, Joined>>
    BY <2>1 DEF Broken, Joined, AllLost, Lost
  <2>3. Broken' = Broken
    BY <2>2, Zenon DEF Broken
  <2>4. QED BY <1>s, <1>f, <1>w, <2>1, <2>2, <2>3
<1>12. CASE Fail
  <2>1. /\ UNCHANGED <<strict, accepting, queue, handed, arg, disk, dropped, skipped, firstError>>
        /\ hand # NoWrite /\ hand' = NoWrite /\ failed' = failed \cup {hand}
        /\ wpc = "report" /\ wpc' = "get" /\ firstError
    BY <1>12 DEF Fail, callVars, IInv, WorkInv, StrictInv
  <2>2. LogFiles' = LogFiles
    BY <1>12, DeliveredFail DEF LogFiles
  <2>3. ~Broken /\ AllLost' = AllLost \cup {hand} /\ Joined' = Joined
    BY <2>1 DEF Broken, Joined, AllLost, Lost
  <2>4. Broken' = strict
    BY <2>1, <1>t, Zenon DEF Broken, TypeOK
  <2>5. Waiting # <<>> /\ Head(Waiting) = hand /\ Waiting' = Tail(Waiting)
    BY <1>h, <2>1
  <2>6. Log!Lose
    BY <2>1, <2>2, <2>3, <2>4, <2>5 DEF Log!Lose, Waiting, LogFiles, AllLost, Broken
  <2>7. QED BY <2>6 DEF Log!Next, Log!Settle
<1>13. CASE CloseHandles
  <2>1. /\ UNCHANGED <<strict, accepting, queue, handed, arg, hand, failed, dropped, skipped, firstError>>
        /\ wpc = "exiting" /\ wpc' = "exited" /\ ~accepting /\ queue = <<>> /\ hand = NoWrite
    BY <1>13 DEF CloseHandles, callVars, IInv, StopInv, WorkInv
  <2>2. LogFiles' = LogFiles
    BY <1>13, DeliveredClose DEF LogFiles
  <2>3. Waiting = <<>> /\ Waiting' = Waiting
    BY <1>w, <2>1 DEF Waiting, QueuedWrites
  <2>4. ~Joined /\ Joined' = TRUE /\ UNCHANGED <<AllLost, Broken>>
    BY <2>1 DEF Broken, Joined, AllLost, Lost
  <2>5. Log!Finish
    BY <2>1, <2>2, <2>3, <2>4 DEF Log!Finish, Waiting, LogFiles, AllLost, Broken
  <2>6. QED BY <2>5 DEF Log!Next
<1>14. CASE UNCHANGED vars
  <2>1. /\ UNCHANGED <<strict, queue, handed, arg, disk, failed, dropped, skipped, hand, firstError, wpc>>
        /\ UNCHANGED accepting
    BY <1>14 DEF vars, callVars, workVars
  <2>2. QED BY <1>s, <1>f, <1>w, <2>1 DEF Broken, Joined, AllLost, Lost
<1>15. QED BY <1>1, <1>2, <1>3, <1>4, <1>5, <1>6, <1>7, <1>8, <1>9, <1>10, <1>11, <1>12, <1>13, <1>14
           DEF Next, Submit, Close, Run

\* The writer never does what the log of SpoolLog would not.
THEOREM WriterImplementsLog == Spec => Log!Safety
<1>1. IInv /\ KInv /\ KeptInv /\ [Next]_vars => [Log!Next]_(Log!vars)
  BY LogStep DEF KInv
<1>2. QED BY LogInit, Inductive, KInductive, KeptInductive, <1>1, PTL DEF Spec, Log!Safety
===============================================================================

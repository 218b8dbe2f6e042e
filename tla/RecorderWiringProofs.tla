-------------------------- MODULE RecorderWiringProofs --------------------------
(***************************************************************************)
(* A recorder's handlers, its one finalization and the agents it hears,    *)
(* for any number of recorders, sessions, agents, events and threads.      *)
(***************************************************************************)
EXTENDS RecorderWiring, TLAPS

USE DEF At, recorderVars, sessionVars, agentVars, threadVars

\* What a thread works on, by where it is.
JobInv ==
  \A t \in Threads :
    /\ pc[t] \in {"attach", "subscribe", "leave", "bind", "handoff"} =>
         R(t) \in Recorders /\ S(t) \in Sessions /\ job[t].agent \in Agents
    /\ pc[t] = "subscribe" => job[t].todo \subseteq Events
    /\ pc[t] \in {"finish", "detach", "finalize"} => R(t) \in Recorders
    /\ pc[t] = "detach" => job[t].todo \subseteq Sessions \X Events

LockInv ==
  \A t \in Threads : pc[t] \in {"subscribe", "leave", "detach"} => lock[R(t)] = t

\* A thread that subscribes does so for a live recorder, to what is not attached yet.
SubscribeInv ==
  \A t \in Threads : pc[t] = "subscribe" =>
    /\ recording[R(t)]
    /\ \A e \in job[t].todo : <<S(t), e>> \notin attached[R(t)]

\* A handler on a session is one that finish() will take off, is about to, or could not.
Known(r, s, e) ==
  \/ <<s, e>> \in attached[r]
  \/ <<r, <<s, e>>>> \in stuck
  \/ \E t \in Threads : pc[t] = "detach" /\ R(t) = r /\ <<s, e>> \in job[t].todo

ListenInv ==
  \A s \in Sessions, r \in Recorders, e \in Events :
    /\ listeners[s][<<r, e>>] <= 1
    /\ listeners[s][<<r, e>>] > 0 => Known(r, s, e)

Releasing(t, r) == pc[t] \in {"detach", "finalize"} /\ R(t) = r

\* The call is claimed by one finish(), and until then nothing was taken off.
ClaimInv ==
  \A r \in Recorders :
    /\ finalized[r] <= 1
    /\ recording[r] => /\ finalized[r] = 0
                       /\ \A t \in Threads : ~Releasing(t, r)
                       /\ \A p \in Sessions \X Events : <<r, p>> \notin stuck
    /\ ~recording[r] => attached[r] = {}
    /\ \A t \in Threads : Releasing(t, r) =>
         finalized[r] = 0 /\ \A u \in Threads : Releasing(u, r) => u = t

IInv == TypeOK /\ JobInv /\ LockInv /\ SubscribeInv /\ ListenInv /\ ClaimInv

LEMMA InitIInv == Init => IInv
<1> SUFFICES ASSUME Init PROVE IInv
  OBVIOUS
<1>1. TypeOK
  BY DEF Init, TypeOK, NoJob, Jobs, Places
<1>2. QED
  BY <1>1, WiringAssumption
     DEF Init, IInv, JobInv, LockInv, SubscribeInv, ListenInv, ClaimInv, Releasing, Threads

LEMMA JobTyped ==
  ASSUME TypeOK, NEW t \in Threads,
         NEW todo \in SUBSET (Events \cup (Sessions \X Events))
  PROVE  [job EXCEPT ![t].todo = todo] \in [Threads -> Jobs]
<1>1. job[t] \in Jobs
  BY DEF TypeOK
<1>2. [job[t] EXCEPT !.todo = todo] \in Jobs
  BY <1>1 DEF Jobs
<1>3. QED BY <1>2 DEF TypeOK

\* The flags of the tap stay flags.
LEMMA FlagsTyped ==
  ASSUME TypeOK
  PROVE  /\ \A a, r, rs : SpeaksTo(a, r, rs) => unheard' \in [Recorders -> BOOLEAN]
         /\ \A a, r, rs : BindAgent(a, r, rs) => /\ tapped' \in [Recorders -> BOOLEAN]
                                               /\ missing' \in [Recorders -> BOOLEAN]
<1>1. \A a, r, rs : SpeaksTo(a, r, rs) => unheard' \in [Recorders -> BOOLEAN]
  BY Zenon DEF SpeaksTo
<1>2. ASSUME NEW a, NEW r, NEW rs, BindAgent(a, r, rs)
      PROVE  tapped' \in [Recorders -> BOOLEAN] /\ missing' \in [Recorders -> BOOLEAN]
  <2>1. tapped' \in [Recorders -> BOOLEAN]
    BY <1>2, Zenon DEF BindAgent
  <2>2. \A q \in Recorders : (IF q \in rs THEN Missed(a, q) ELSE missing[q]) \in BOOLEAN
    <3>1. \A q \in Recorders : missing[q] \in BOOLEAN
      BY DEF TypeOK
    <3>2. \A q \in Recorders : Missed(a, q) \in BOOLEAN
      BY Zenon DEF Missed
    <3>3. QED BY <3>1, <3>2, Zenon
  <2>3. missing' \in [Recorders -> BOOLEAN]
    BY <1>2, <2>2 DEF BindAgent
  <2>4. QED BY <2>1, <2>3
<1>3. QED BY <1>1, <1>2, Zenon

\* Types, given what each thread works on.
LEMMA TypeStep ==
  ASSUME TypeOK, JobInv, [Next]_vars
  PROVE  TypeOK'
<1>1. CASE UNCHANGED vars
  BY <1>1 DEF vars, TypeOK
<1>2. ASSUME NEW t \in Wirings, NEW s \in Sessions, NEW r \in Recorders, NEW a \in Agents,
             Observe(t, s, r, a)
      PROVE  TypeOK'
  <2>1. job' \in [Threads -> Jobs]
    BY <1>2 DEF Observe, TypeOK, Jobs, Threads
  <2>2. QED BY <1>2, <2>1 DEF Observe, Threads, Places, TypeOK
<1>3. ASSUME NEW s \in Sessions, NEW a \in Agents, UpdateAgent(s, a)
      PROVE  TypeOK'
  <2>1. handoff[s] # <<>> => handoff[s][Len(handoff[s])] \in Recorders
    BY DEF TypeOK
  <2>2. \A r \in Recorders : <<r>> \in Seq(Recorders)
    OBVIOUS
  <2>3. unheard' \in [Recorders -> BOOLEAN]
    BY <1>3, FlagsTyped DEF UpdateAgent
  <2>4. tapped' \in [Recorders -> BOOLEAN] /\ missing' \in [Recorders -> BOOLEAN]
    <3>1. CASE handoff[s] = <<>> \/ a \in Frozen
      BY <1>3, <3>1 DEF UpdateAgent, TypeOK
    <3>2. CASE ~(handoff[s] = <<>> \/ a \in Frozen)
      BY <1>3, <3>2, FlagsTyped DEF UpdateAgent
    <3>3. QED BY <3>1, <3>2
  <2>5. vaani' \in [Agents -> Recorders \cup {None}] /\ watch' \in [Agents -> Seq(Recorders)]
    BY <1>3, <2>1, <2>2 DEF UpdateAgent, BindAgent, Watched, TypeOK
  <2>6. untold' \in [Sessions -> SUBSET Recorders]
    <3>1. {r \in Given(s) : ~Told(s, r)} \in SUBSET Recorders
      BY DEF Given
    <3>2. QED BY <1>3, <3>1 DEF UpdateAgent, TypeOK
  <2>7. QED BY <1>3, <2>3, <2>4, <2>5, <2>6 DEF UpdateAgent, Places, TypeOK
<1>4. ASSUME NEW t \in Finishes, NEW r \in Recorders, Finish(t, r)
      PROVE  TypeOK'
  <2>1. job' \in [Threads -> Jobs]
    <3>1. t \in Threads
      BY DEF Threads
    <3>2. job' = [job EXCEPT ![t].recorder = r]
      BY <1>4 DEF Finish
    <3>3. [job[t] EXCEPT !.recorder = r] \in Jobs
      <4>1. job[t] \in Jobs
        BY <3>1 DEF TypeOK
      <4>2. QED BY <4>1 DEF Jobs
    <3>4. QED BY <3>1, <3>2, <3>3 DEF TypeOK
  <2>2. QED BY <1>4, <2>1 DEF Finish, Threads, Places, TypeOK
<1>5. ASSUME NEW t \in Threads, Proceed(t)
      PROVE  TypeOK'
  <2>1. CASE Enter(t)
    <3>1. R(t) \in Recorders /\ t \in Wirings \cup Finishes
      BY <2>1 DEF Enter, JobInv, Threads
    <3>2. job' = job \/ job' = [job EXCEPT ![t].todo = Events]
      BY <2>1 DEF Enter
    <3>3. job' \in [Threads -> Jobs]
      <4>1. [job EXCEPT ![t].todo = Events] \in [Threads -> Jobs]
        BY JobTyped
      <4>2. QED BY <3>2, <4>1 DEF TypeOK
    <3>4. QED BY <2>1, <3>1, <3>3 DEF Enter, Lock, Places, TypeOK
  <2>2. CASE Subscribe(t)
    <3>1. PICK e \in job[t].todo :
            /\ job' = [job EXCEPT ![t].todo = @ \ {e}]
            /\ \/ /\ listeners' = [listeners EXCEPT ![S(t)][<<R(t), e>>] = @ + 1]
                  /\ attached' = [attached EXCEPT ![R(t)] = @ \cup {<<S(t), e>>}]
               \/ UNCHANGED <<listeners, attached>>
            /\ At(t, IF job[t].todo = {e} THEN "leave" ELSE "subscribe")
      BY <2>2 DEF Subscribe
    <3>2. R(t) \in Recorders /\ S(t) \in Sessions /\ e \in Events
      BY <2>2, <3>1 DEF Subscribe, JobInv
    <3>3. job' \in [Threads -> Jobs]
      <4>1. job[t].todo \ {e} \in SUBSET (Events \cup (Sessions \X Events))
        BY DEF TypeOK, Jobs
      <4>2. QED BY <3>1, <4>1, JobTyped
    <3>4. listeners' \in [Sessions -> [Recorders \X Events -> Nat]]
      <4>1. <<R(t), e>> \in Recorders \X Events /\ listeners[S(t)][<<R(t), e>>] + 1 \in Nat
        BY <3>2 DEF TypeOK
      <4>2. [listeners[S(t)] EXCEPT ![<<R(t), e>>] = @ + 1] \in [Recorders \X Events -> Nat]
        BY <3>2, <4>1 DEF TypeOK
      <4>3. QED BY <3>1, <3>2, <4>2 DEF TypeOK
    <3>5. attached' \in [Recorders -> SUBSET (Sessions \X Events)]
      <4>1. attached[R(t)] \cup {<<S(t), e>>} \in SUBSET (Sessions \X Events)
        BY <3>2 DEF TypeOK
      <4>2. QED BY <3>1, <3>2, <4>1, ZenonT(60) DEF TypeOK
    <3>6. QED BY <2>2, <3>1, <3>3, <3>4, <3>5 DEF Subscribe, Places, TypeOK
  <2>3. CASE Leave(t)
    <3>1. QED BY <2>3 DEF Leave, Unlock, Places, TypeOK
  <2>4. CASE Bind(t)
    <3>1. R(t) \in Recorders /\ <<R(t)>> \in Seq(Recorders)
      BY <2>4 DEF Bind, JobInv
    <3>2. vaani' \in [Agents -> Recorders \cup {None}] /\ watch' \in [Agents -> Seq(Recorders)]
      BY <2>4, <3>1 DEF Bind, BindAgent, Watched, TypeOK
    <3>3. /\ tapped' \in [Recorders -> BOOLEAN] /\ missing' \in [Recorders -> BOOLEAN]
          /\ unheard' \in [Recorders -> BOOLEAN]
      BY <2>4, FlagsTyped DEF Bind
    <3>4. untold' \in [Sessions -> SUBSET Recorders]
      BY <2>4 DEF Bind, TypeOK
    <3>5. QED BY <2>4, <3>2, <3>3, <3>4 DEF Bind, Places, TypeOK
  <2>5. CASE WatchHandoff(t)
    <3>1. R(t) \in Recorders /\ S(t) \in Sessions
      BY <2>5 DEF WatchHandoff, JobInv
    <3>2. handoff[S(t)] \in Seq(Recorders) /\ <<R(t)>> \o handoff[S(t)] \in Seq(Recorders)
      BY <3>1 DEF TypeOK
    <3>3. handoff' \in [Sessions -> Seq(Recorders)]
      BY <2>5, <3>1, <3>2 DEF WatchHandoff, TypeOK
    <3>4. QED BY <2>5, <3>3 DEF WatchHandoff, Places, TypeOK
  <2>6. CASE Claim(t)
    <3>1. R(t) \in Recorders
      BY <2>6 DEF Claim, JobInv
    <3>2. attached[R(t)] \in SUBSET (Events \cup (Sessions \X Events))
      BY <3>1 DEF TypeOK
    <3>3. job' \in [Threads -> Jobs]
      <4>1. job' = job \/ job' = [job EXCEPT ![t].todo = attached[R(t)]]
        BY <2>6 DEF Claim
      <4>2. [job EXCEPT ![t].todo = attached[R(t)]] \in [Threads -> Jobs]
        BY <3>2, JobTyped
      <4>3. QED BY <4>1, <4>2 DEF TypeOK
    <3>4. QED BY <2>6, <3>1, <3>3, ZenonT(60) DEF Claim, Places, TypeOK
  <2>7. CASE Unsubscribe(t)
    <3>1. PICK p \in job[t].todo :
            /\ job' = [job EXCEPT ![t].todo = @ \ {p}]
            /\ \/ /\ listeners' = [listeners EXCEPT ![p[1]][<<R(t), p[2]>>] = 0]
                  /\ UNCHANGED stuck
               \/ stuck' = stuck \cup {<<R(t), p>>} /\ UNCHANGED listeners
      BY <2>7 DEF Unsubscribe
    <3>2. R(t) \in Recorders /\ p \in Sessions \X Events
      BY <2>7, <3>1 DEF Unsubscribe, JobInv
    <3>3. job' \in [Threads -> Jobs]
      <4>1. job[t].todo \ {p} \in SUBSET (Events \cup (Sessions \X Events))
        BY DEF TypeOK, Jobs
      <4>2. QED BY <3>1, <4>1, JobTyped
    <3>4. listeners' \in [Sessions -> [Recorders \X Events -> Nat]]
      <4>1. <<R(t), p[2]>> \in Recorders \X Events /\ p[1] \in Sessions
        BY <3>2
      <4>2. [listeners[p[1]] EXCEPT ![<<R(t), p[2]>>] = 0] \in [Recorders \X Events -> Nat]
        BY <4>1 DEF TypeOK
      <4>3. QED BY <3>1, <4>1, <4>2 DEF TypeOK
    <3>5. stuck' \in SUBSET (Recorders \X (Sessions \X Events))
      BY <3>1, <3>2 DEF TypeOK
    <3>6. QED BY <2>7, <3>3, <3>4, <3>5 DEF Unsubscribe, Places, TypeOK
  <2>8. CASE Detached(t)
    <3>1. QED BY <2>8 DEF Detached, Unlock, Places, TypeOK
  <2>9. CASE Finalize(t)
    <3>1. R(t) \in Recorders
      BY <2>9 DEF Finalize, JobInv
    <3>2. finalized' \in [Recorders -> Nat]
      BY <2>9, <3>1 DEF Finalize, TypeOK
    <3>3. QED BY <2>9, <3>2 DEF Finalize, Places, TypeOK
  <2>10. QED BY <1>5, <2>1, <2>2, <2>3, <2>4, <2>5, <2>6, <2>7, <2>8, <2>9 DEF Proceed
<1>6. QED BY <1>1, <1>2, <1>3, <1>4, <1>5 DEF Next

\* What a thread works on changes only where it begins.
LEMMA JobStep ==
  ASSUME TypeOK, JobInv, [Next]_vars
  PROVE  JobInv'
<1>1. CASE UNCHANGED vars
  BY <1>1 DEF vars, JobInv, R, S
<1>2. ASSUME NEW t \in Wirings, NEW s \in Sessions, NEW r \in Recorders, NEW a \in Agents,
             Observe(t, s, r, a)
      PROVE  JobInv'
  BY <1>2, WiringAssumption DEF Observe, R, S, TypeOK, Threads, JobInv, Jobs
<1>3. ASSUME NEW s \in Sessions, NEW a \in Agents, UpdateAgent(s, a)
      PROVE  JobInv'
  BY <1>3 DEF UpdateAgent, R, S, TypeOK, Threads, JobInv, Jobs
<1>4. ASSUME NEW t \in Finishes, NEW r \in Recorders, Finish(t, r)
      PROVE  JobInv'
  BY <1>4, WiringAssumption DEF Finish, R, S, TypeOK, Threads, JobInv, Jobs
<1>5. ASSUME NEW t \in Threads, Proceed(t)
      PROVE  JobInv'
  <2>1. CASE Enter(t)
    <3>1. CASE Released(R(t)) \/ AlreadyAttached(R(t), S(t))
      <4>1. job' = job /\ pc' = [pc EXCEPT ![t] = "leave"] /\ pc[t] = "attach"
        BY <2>1, <3>1 DEF Enter
      <4>2. QED BY <4>1 DEF R, S, TypeOK, JobInv
    <3>2. CASE ~(Released(R(t)) \/ AlreadyAttached(R(t), S(t)))
      <4>1. job' = [job EXCEPT ![t].todo = Events] /\ pc' = [pc EXCEPT ![t] = "subscribe"]
        BY <2>1, <3>2 DEF Enter
      <4>2. QED BY <2>1, <3>2, <4>1, WiringAssumption
               DEF Enter, Lock, LockFree, Released, AlreadyAttached, R, S, TypeOK, Threads, JobInv, Jobs
    <3>3. QED BY <3>1, <3>2
  <2>2. CASE Subscribe(t)
    BY <2>2, WiringAssumption DEF Subscribe, R, S, TypeOK, Threads, JobInv, Jobs
  <2>3. CASE Leave(t)
    BY <2>3, WiringAssumption DEF Leave, Unlock, R, S, TypeOK, Threads, JobInv, Jobs
  <2>4. CASE Bind(t)
    BY <2>4, WiringAssumption DEF Bind, R, S, TypeOK, Threads, JobInv, Jobs
  <2>5. CASE WatchHandoff(t)
    BY <2>5, WiringAssumption DEF WatchHandoff, R, S, TypeOK, Threads, JobInv, Jobs
  <2>6. CASE Claim(t)
    <3>1. CASE ~recording[R(t)]
      BY <2>6, <3>1, WiringAssumption DEF Claim, R, S, TypeOK, Threads, JobInv, Jobs
    <3>2. CASE recording[R(t)]
      <4>1. job' = [job EXCEPT ![t].todo = attached[R(t)]] /\ pc' = [pc EXCEPT ![t] = "detach"]
        BY <2>6, <3>2 DEF Claim
      <4>2. R(t) \in Recorders
        BY <2>6 DEF Claim, JobInv
      <4>3. QED BY <2>6, <3>2, <4>1, <4>2, WiringAssumption
         DEF Claim, LockFree, R, S, TypeOK, Threads, JobInv, Jobs
    <3>3. QED BY <3>1, <3>2
  <2>7. CASE Unsubscribe(t)
    BY <2>7, WiringAssumption DEF Unsubscribe, R, S, TypeOK, Threads, JobInv, Jobs
  <2>8. CASE Detached(t)
    BY <2>8, WiringAssumption DEF Detached, Unlock, R, S, TypeOK, Threads, JobInv, Jobs
  <2>9. CASE Finalize(t)
    BY <2>9, WiringAssumption DEF Finalize, R, S, TypeOK, Threads, JobInv, Jobs
  <2>10. QED BY <1>5, <2>1, <2>2, <2>3, <2>4, <2>5, <2>6, <2>7, <2>8, <2>9 DEF Proceed
<1>6. QED BY <1>1, <1>2, <1>3, <1>4, <1>5 DEF Next

\* Only the holder of a lock gives it back.
LEMMA LockStep ==
  ASSUME TypeOK, JobInv, LockInv, [Next]_vars
  PROVE  LockInv'
<1>1. CASE UNCHANGED vars
  BY <1>1 DEF vars, LockInv, R
<1>2. ASSUME NEW t \in Wirings, NEW s \in Sessions, NEW r \in Recorders, NEW a \in Agents,
             Observe(t, s, r, a)
      PROVE  LockInv'
  BY <1>2, WiringAssumption DEF Observe, R, S, TypeOK, Threads, JobInv, LockInv, Jobs
<1>3. ASSUME NEW s \in Sessions, NEW a \in Agents, UpdateAgent(s, a)
      PROVE  LockInv'
  BY <1>3 DEF UpdateAgent, R, S, TypeOK, Threads, JobInv, LockInv, Jobs
<1>4. ASSUME NEW t \in Finishes, NEW r \in Recorders, Finish(t, r)
      PROVE  LockInv'
  BY <1>4, WiringAssumption DEF Finish, R, S, TypeOK, Threads, JobInv, LockInv, Jobs
<1>5. ASSUME NEW t \in Threads, Proceed(t)
      PROVE  LockInv'
  <2>1. CASE Enter(t)
    <3>1. CASE Released(R(t)) \/ AlreadyAttached(R(t), S(t))
      BY <2>1, <3>1, WiringAssumption
         DEF Enter, Lock, LockFree, R, S, TypeOK, Threads, JobInv, Jobs, LockInv
    <3>2. CASE ~(Released(R(t)) \/ AlreadyAttached(R(t), S(t)))
      <4>1. job' = [job EXCEPT ![t].todo = Events] /\ pc' = [pc EXCEPT ![t] = "subscribe"]
        BY <2>1, <3>2 DEF Enter
      <4>2. QED BY <2>1, <3>2, <4>1, WiringAssumption
               DEF Enter, Lock, LockFree, Released, AlreadyAttached, R, S, TypeOK, Threads,
                   JobInv, Jobs, LockInv
    <3>3. QED BY <3>1, <3>2
  <2>2. CASE Subscribe(t)
    BY <2>2, WiringAssumption DEF Subscribe, R, S, TypeOK, Threads, JobInv, LockInv, Jobs
  <2>3. CASE Leave(t)
    BY <2>3, WiringAssumption DEF Leave, Unlock, R, S, TypeOK, Threads, JobInv, LockInv, Jobs
  <2>4. CASE Bind(t)
    BY <2>4, WiringAssumption
       DEF Bind, R, S, TypeOK, Threads, JobInv, LockInv, Jobs
  <2>5. CASE WatchHandoff(t)
    BY <2>5, WiringAssumption DEF WatchHandoff, R, S, TypeOK, Threads, JobInv, LockInv, Jobs
  <2>6. CASE Claim(t)
    <3>1. CASE ~recording[R(t)]
      BY <2>6, <3>1, WiringAssumption DEF Claim, R, S, TypeOK, Threads, JobInv, Jobs, LockInv
    <3>2. CASE recording[R(t)]
      <4>1. job' = [job EXCEPT ![t].todo = attached[R(t)]] /\ pc' = [pc EXCEPT ![t] = "detach"]
        BY <2>6, <3>2 DEF Claim
      <4>2. R(t) \in Recorders
        BY <2>6 DEF Claim, JobInv
      <4>3. QED BY <2>6, <3>2, <4>1, <4>2, WiringAssumption
         DEF Claim, LockFree, R, S, TypeOK, Threads, JobInv, Jobs, LockInv
    <3>3. QED BY <3>1, <3>2
  <2>7. CASE Unsubscribe(t)
    BY <2>7, WiringAssumption DEF Unsubscribe, R, S, TypeOK, Threads, JobInv, LockInv, Jobs
  <2>8. CASE Detached(t)
    BY <2>8, WiringAssumption DEF Detached, Unlock, R, S, TypeOK, Threads, JobInv, LockInv, Jobs
  <2>9. CASE Finalize(t)
    BY <2>9, WiringAssumption DEF Finalize, R, S, TypeOK, Threads, JobInv, LockInv, Jobs
  <2>10. QED BY <1>5, <2>1, <2>2, <2>3, <2>4, <2>5, <2>6, <2>7, <2>8, <2>9 DEF Proceed
<1>6. QED BY <1>1, <1>2, <1>3, <1>4, <1>5 DEF Next

\* Nobody claims or subscribes to a recorder behind the back of one who holds its lock.
LEMMA SubscribeStep ==
  ASSUME TypeOK, JobInv, LockInv, SubscribeInv, [Next]_vars
  PROVE  SubscribeInv'
<1>1. CASE UNCHANGED vars
  BY <1>1 DEF vars, SubscribeInv, R, S
<1>2. ASSUME NEW t \in Wirings, NEW s \in Sessions, NEW r \in Recorders, NEW a \in Agents,
             Observe(t, s, r, a)
      PROVE  SubscribeInv'
  BY <1>2, WiringAssumption
     DEF Observe, R, S, TypeOK, Threads, JobInv, LockInv, SubscribeInv, Jobs
<1>3. ASSUME NEW s \in Sessions, NEW a \in Agents, UpdateAgent(s, a)
      PROVE  SubscribeInv'
  BY <1>3
     DEF UpdateAgent, R, S, TypeOK, Threads, JobInv, LockInv,
         SubscribeInv, Jobs
<1>4. ASSUME NEW t \in Finishes, NEW r \in Recorders, Finish(t, r)
      PROVE  SubscribeInv'
  BY <1>4, WiringAssumption
     DEF Finish, R, S, TypeOK, Threads, JobInv, LockInv, SubscribeInv, Jobs
<1>5. ASSUME NEW t \in Threads, Proceed(t)
      PROVE  SubscribeInv'
  <2>1. CASE Enter(t)
    <3>1. R(t) \in Recorders /\ R(t)' = R(t) /\ S(t)' = S(t)
      BY <2>1 DEF Enter, JobInv, R, S, TypeOK, Jobs
    <3>2. \A u \in Threads \ {t} : pc'[u] = pc[u] /\ job'[u] = job[u]
      BY <2>1 DEF Enter, TypeOK
    <3>3. UNCHANGED <<recording, attached>>
      BY <2>1 DEF Enter
    <3>4. pc'[t] = "subscribe" =>
            recording[R(t)] /\ \A e \in Events : <<S(t), e>> \notin attached[R(t)]
      BY <2>1 DEF Enter, Released, AlreadyAttached, TypeOK
    <3>5. pc'[t] = "subscribe" => job'[t].todo = Events
      BY <2>1 DEF Enter, TypeOK, Jobs
    <3>6. QED BY <3>1, <3>2, <3>3, <3>4, <3>5 DEF SubscribeInv, R, S
  <2>2. CASE Subscribe(t)
    <3>1. PICK e \in job[t].todo :
            /\ job' = [job EXCEPT ![t].todo = @ \ {e}]
            /\ \/ /\ listeners' = [listeners EXCEPT ![S(t)][<<R(t), e>>] = @ + 1]
                  /\ attached' = [attached EXCEPT ![R(t)] = @ \cup {<<S(t), e>>}]
               \/ UNCHANGED <<listeners, attached>>
            /\ At(t, IF job[t].todo = {e} THEN "leave" ELSE "subscribe")
      BY <2>2 DEF Subscribe
    <3>2. R(t) \in Recorders /\ S(t) \in Sessions /\ e \in Events
      BY <2>2, <3>1 DEF Subscribe, JobInv
    <3> SUFFICES ASSUME NEW u \in Threads, pc'[u] = "subscribe"
                 PROVE  /\ recording[R(u)']
                        /\ \A f \in job'[u].todo : <<S(u)', f>> \notin attached'[R(u)']
      BY <2>2 DEF Subscribe, SubscribeInv, R, S
    <3>3. R(u)' = R(u) /\ S(u)' = S(u) /\ job'[u].todo = (IF u = t THEN job[t].todo \ {e}
                                                                    ELSE job[u].todo)
      BY <3>1 DEF R, S, TypeOK, Jobs
    <3>4. CASE u = t
      BY <2>2, <3>1, <3>2, <3>3, <3>4 DEF Subscribe, SubscribeInv, TypeOK
    <3>5. CASE u # t
      <4>1. pc[u] = "subscribe"
        BY <3>1, <3>5 DEF TypeOK
      <4>2. R(u) # R(t)
        BY <2>2, <3>5, <4>1 DEF LockInv, Subscribe
      <4>3. attached'[R(u)] = attached[R(u)]
        BY <3>1, <3>2, <4>1, <4>2 DEF JobInv, TypeOK
      <4>4. QED BY <3>3, <3>5, <4>1, <4>3 DEF SubscribeInv
    <3>6. QED BY <3>4, <3>5
  <2>3. CASE Leave(t)
    BY <2>3, WiringAssumption
       DEF Leave, Unlock, R, S, TypeOK, Threads, JobInv, LockInv, SubscribeInv, Jobs
  <2>4. CASE Bind(t)
    BY <2>4, WiringAssumption
       DEF Bind, R, S, TypeOK, Threads, JobInv, LockInv, SubscribeInv, Jobs
  <2>5. CASE WatchHandoff(t)
    BY <2>5, WiringAssumption
       DEF WatchHandoff, R, S, TypeOK, Threads, JobInv, LockInv, SubscribeInv, Jobs
  <2>6. CASE Claim(t)
    <3>1. CASE ~recording[R(t)]
      BY <2>6, <3>1, WiringAssumption
         DEF Claim, R, S, TypeOK, Threads, JobInv, Jobs, LockInv, SubscribeInv
    <3>2. CASE recording[R(t)]
      <4>1. job' = [job EXCEPT ![t].todo = attached[R(t)]] /\ pc' = [pc EXCEPT ![t] = "detach"]
        BY <2>6, <3>2 DEF Claim
      <4>2. R(t) \in Recorders
        BY <2>6 DEF Claim, JobInv
      <4>3. ASSUME NEW u \in Threads, pc'[u] = "subscribe"
            PROVE  /\ u # t /\ pc[u] = "subscribe" /\ job'[u] = job[u]
                   /\ R(u) # R(t)
        <5>1. u # t /\ pc[u] = "subscribe" /\ job'[u] = job[u]
          BY <4>1, <4>3 DEF TypeOK
        <5>2. lock[R(u)] = u /\ lock[R(t)] = None
          BY <2>6, <3>2, <5>1 DEF Claim, LockFree, LockInv
        <5>3. QED BY <5>1, <5>2, WiringAssumption
      <4>4. \A r \in Recorders \ {R(t)} :
              recording'[r] = recording[r] /\ attached'[r] = attached[r]
        BY <2>6, <3>2, <4>2 DEF Claim, TypeOK
      <4>5. \A u \in Threads : pc[u] = "subscribe" => R(u) \in Recorders
        BY DEF JobInv
      <4>6. QED BY <4>3, <4>4, <4>5 DEF SubscribeInv, R, S
    <3>3. QED BY <3>1, <3>2
  <2>7. CASE Unsubscribe(t)
    BY <2>7, WiringAssumption, SMTT(60)
       DEF Unsubscribe, R, S, TypeOK, Threads, JobInv, LockInv, SubscribeInv, Jobs
  <2>8. CASE Detached(t)
    BY <2>8, WiringAssumption
       DEF Detached, Unlock, R, S, TypeOK, Threads, JobInv, LockInv, SubscribeInv, Jobs
  <2>9. CASE Finalize(t)
    BY <2>9, WiringAssumption
       DEF Finalize, R, S, TypeOK, Threads, JobInv, LockInv, SubscribeInv, Jobs
  <2>10. QED BY <1>5, <2>1, <2>2, <2>3, <2>4, <2>5, <2>6, <2>7, <2>8, <2>9 DEF Proceed
<1>6. QED BY <1>1, <1>2, <1>3, <1>4, <1>5 DEF Next

\* The lock makes the claim of the call and of its handlers one.
LEMMA ClaimStep ==
  ASSUME TypeOK, JobInv, LockInv, SubscribeInv, ClaimInv, [Next]_vars
  PROVE  ClaimInv'
<1>1. CASE UNCHANGED vars
  BY <1>1 DEF vars, ClaimInv, Releasing, R
<1>2. ASSUME NEW t \in Wirings, NEW s \in Sessions, NEW r \in Recorders, NEW a \in Agents,
             Observe(t, s, r, a)
      PROVE  ClaimInv'
  BY <1>2, WiringAssumption
     DEF Observe, R, S, TypeOK, Threads, JobInv, LockInv, SubscribeInv, ClaimInv,
         Releasing, Jobs
<1>3. ASSUME NEW s \in Sessions, NEW a \in Agents, UpdateAgent(s, a)
      PROVE  ClaimInv'
  BY <1>3
     DEF UpdateAgent, R, S, TypeOK, Threads, JobInv, LockInv,
         SubscribeInv, ClaimInv, Releasing, Jobs
<1>4. ASSUME NEW t \in Finishes, NEW r \in Recorders, Finish(t, r)
      PROVE  ClaimInv'
  BY <1>4, WiringAssumption
     DEF Finish, R, S, TypeOK, Threads, JobInv, LockInv, SubscribeInv, ClaimInv, Releasing,
         Jobs
<1>5. ASSUME NEW t \in Threads, Proceed(t)
      PROVE  ClaimInv'
  <2>1. CASE Enter(t)
    <3>1. \A u \in Threads, r \in Recorders : Releasing(u, r)' => Releasing(u, r)
      BY <2>1 DEF Enter, Releasing, R, TypeOK, Jobs
    <3>2. QED BY <2>1, <3>1 DEF Enter, ClaimInv
  <2>2. CASE Subscribe(t)
    <3>1. \A u \in Threads, r \in Recorders : Releasing(u, r)' => Releasing(u, r)
      BY <2>2 DEF Subscribe, Releasing, R, TypeOK, Jobs
    <3>2. R(t) \in Recorders /\ recording[R(t)]
      BY <2>2 DEF Subscribe, JobInv, SubscribeInv
    <3>3. \A r \in Recorders : r # R(t) => attached'[r] = attached[r]
      BY <2>2 DEF Subscribe, TypeOK
    <3>4. QED BY <2>2, <3>1, <3>2, <3>3 DEF Subscribe, ClaimInv
  <2>3. CASE Leave(t)
    BY <2>3, WiringAssumption
       DEF Leave, Unlock, R, S, TypeOK, Threads, JobInv, LockInv, SubscribeInv, ClaimInv,
           Releasing, Jobs
  <2>4. CASE Bind(t)
    BY <2>4, WiringAssumption
       DEF Bind, R, S, TypeOK, Threads, JobInv, LockInv,
           SubscribeInv, ClaimInv, Releasing, Jobs
  <2>5. CASE WatchHandoff(t)
    BY <2>5, WiringAssumption
       DEF WatchHandoff, R, S, TypeOK, Threads, JobInv, LockInv, SubscribeInv, ClaimInv,
           Releasing, Jobs
  <2>6. CASE Claim(t)
    <3>1. R(t) \in Recorders
      BY <2>6 DEF Claim, JobInv
    <3>2. CASE ~recording[R(t)]
      <4>1. \A u \in Threads, r \in Recorders : Releasing(u, r)' => Releasing(u, r)
        BY <2>6, <3>2 DEF Claim, Releasing, R, TypeOK
      <4>2. QED BY <2>6, <3>2, <4>1 DEF Claim, ClaimInv
    <3>3. CASE recording[R(t)]
      <4>1. \A r \in Recorders : r # R(t) =>
              recording'[r] = recording[r] /\ attached'[r] = attached[r]
        BY <2>6, <3>1, <3>3 DEF Claim, TypeOK
      <4>2. \A u \in Threads : R(u)' = R(u) /\ (u # t => pc'[u] = pc[u])
        BY <2>6, <3>3 DEF Claim, R, TypeOK, Jobs
      <4>3. \A r \in Recorders, u \in Threads :
              r # R(t) /\ Releasing(u, r)' => Releasing(u, r)
        BY <4>2 DEF Releasing
      <4>4. \A u \in Threads : Releasing(u, R(t))' => u = t
        BY <2>6, <3>1, <3>3 DEF Claim, Releasing, R, ClaimInv, TypeOK, Jobs
      <4>5. ~recording'[R(t)] /\ attached'[R(t)] = {} /\ finalized[R(t)] = 0
        BY <2>6, <3>1, <3>3 DEF Claim, ClaimInv, TypeOK
      <4>6. UNCHANGED <<finalized, stuck>>
        BY <2>6 DEF Claim
      <4> SUFFICES ASSUME NEW r \in Recorders
                   PROVE  ClaimInv!(r)'
        BY DEF ClaimInv
      <4>7. CASE r = R(t)
        BY <4>2, <4>4, <4>5, <4>6, <4>7 DEF Releasing
      <4>8. CASE r # R(t)
        BY <4>1, <4>3, <4>6, <4>8 DEF ClaimInv
      <4>9. QED BY <4>7, <4>8
    <3>4. QED BY <3>2, <3>3
  <2>7. CASE Unsubscribe(t)
    BY <2>7, WiringAssumption
       DEF Unsubscribe, R, S, TypeOK, Threads, JobInv, LockInv, SubscribeInv, ClaimInv,
           Releasing, Jobs
  <2>8. CASE Detached(t)
    BY <2>8, WiringAssumption
       DEF Detached, Unlock, R, S, TypeOK, Threads, JobInv, LockInv, SubscribeInv,
           ClaimInv, Releasing, Jobs
  <2>9. CASE Finalize(t)
    BY <2>9, WiringAssumption
       DEF Finalize, R, S, TypeOK, Threads, JobInv, LockInv, SubscribeInv, ClaimInv,
           Releasing, Jobs
  <2>10. QED BY <1>5, <2>1, <2>2, <2>3, <2>4, <2>5, <2>6, <2>7, <2>8, <2>9 DEF Proceed
<1>6. QED BY <1>1, <1>2, <1>3, <1>4, <1>5 DEF Next

\* Handlers stay known while nothing touches what they are known by.
LEMMA KnownKept ==
  ASSUME ListenInv, UNCHANGED <<listeners, attached, stuck>>,
         \A t \in Threads : pc[t] = "detach" =>
           pc'[t] = "detach" /\ job'[t].recorder = R(t)
             /\ job[t].todo \subseteq job'[t].todo
  PROVE  ListenInv'
<1> SUFFICES ASSUME NEW s \in Sessions, NEW r \in Recorders, NEW e \in Events,
                    Known(r, s, e)
             PROVE  Known(r, s, e)'
  BY DEF ListenInv
<1> QED BY DEF Known, R

\* A handler is registered once, and known to whoever has to take it off.
LEMMA ListenStep ==
  ASSUME TypeOK, JobInv, SubscribeInv, ClaimInv, ListenInv, [Next]_vars
  PROVE  ListenInv'
<1>1. CASE UNCHANGED vars
  BY <1>1, KnownKept DEF vars, R, TypeOK, Threads
<1>2. ASSUME NEW t \in Wirings, NEW s \in Sessions, NEW r \in Recorders, NEW a \in Agents,
             Observe(t, s, r, a)
      PROVE  ListenInv'
  BY <1>2, KnownKept DEF Observe, R, TypeOK, Threads
<1>3. ASSUME NEW s \in Sessions, NEW a \in Agents, UpdateAgent(s, a)
      PROVE  ListenInv'
  BY <1>3, KnownKept DEF UpdateAgent, R, TypeOK, Threads
<1>4. ASSUME NEW t \in Finishes, NEW r \in Recorders, Finish(t, r)
      PROVE  ListenInv'
  BY <1>4, KnownKept DEF Finish, R, TypeOK, Threads
<1>5. ASSUME NEW t \in Threads, Proceed(t)
      PROVE  ListenInv'
  <2>1. CASE Enter(t)
    BY <2>1, KnownKept DEF Enter, Lock, LockFree, Released, AlreadyAttached, R, TypeOK, Threads
  <2>2. CASE Subscribe(t)
    <3>1. PICK e \in job[t].todo :
            /\ job' = [job EXCEPT ![t].todo = @ \ {e}]
            /\ \/ /\ listeners' = [listeners EXCEPT ![S(t)][<<R(t), e>>] = @ + 1]
                  /\ attached' = [attached EXCEPT ![R(t)] = @ \cup {<<S(t), e>>}]
               \/ UNCHANGED <<listeners, attached>>
            /\ At(t, IF job[t].todo = {e} THEN "leave" ELSE "subscribe")
      BY <2>2 DEF Subscribe
    <3>2. R(t) \in Recorders /\ S(t) \in Sessions /\ e \in Events
      BY <2>2, <3>1 DEF Subscribe, JobInv
    <3>3. CASE UNCHANGED <<listeners, attached>>
      BY <2>2, <3>1, <3>3, KnownKept DEF Subscribe, R, TypeOK
    <3>4. CASE /\ listeners' = [listeners EXCEPT ![S(t)][<<R(t), e>>] = @ + 1]
               /\ attached' = [attached EXCEPT ![R(t)] = @ \cup {<<S(t), e>>}]
      <4>1. ~Known(R(t), S(t), e)
        BY <2>2, <3>1, <3>2 DEF Subscribe, SubscribeInv, ClaimInv, Releasing, Known
      <4>2. listeners[S(t)][<<R(t), e>>] = 0
        BY <3>2, <4>1 DEF ListenInv, TypeOK
      <4> SUFFICES ASSUME NEW s \in Sessions, NEW r \in Recorders, NEW f \in Events
                   PROVE  /\ listeners'[s][<<r, f>>] <= 1
                          /\ listeners'[s][<<r, f>>] > 0 => Known(r, s, f)'
        BY DEF ListenInv
      <4>3. CASE <<s, r, f>> = <<S(t), R(t), e>>
        BY <3>2, <3>4, <4>2, <4>3 DEF Known, TypeOK
      <4>4. CASE <<s, r, f>> # <<S(t), R(t), e>>
        <5>1. listeners'[s][<<r, f>>] = listeners[s][<<r, f>>]
          BY <3>2, <3>4, <4>4 DEF TypeOK
        <5>2. Known(r, s, f) => Known(r, s, f)'
          BY <2>2, <3>1, <3>2, <3>4, ZenonT(60) DEF Known, Subscribe, R, TypeOK
        <5>3. QED BY <5>1, <5>2 DEF ListenInv
      <4>5. QED BY <4>3, <4>4
    <3>5. QED BY <3>1, <3>3, <3>4
  <2>3. CASE Leave(t)
    BY <2>3, KnownKept DEF Leave, Unlock, R, TypeOK, Threads
  <2>4. CASE Bind(t)
    BY <2>4, KnownKept DEF Bind, R, TypeOK, Threads
  <2>5. CASE WatchHandoff(t)
    BY <2>5, KnownKept DEF WatchHandoff, R, TypeOK, Threads
  <2>6. CASE Claim(t)
    <3>1. R(t) \in Recorders
      BY <2>6 DEF Claim, JobInv
    <3>2. CASE ~recording[R(t)]
      BY <2>6, <3>2, KnownKept DEF Claim, R, TypeOK
    <3>3. CASE recording[R(t)]
      <4> SUFFICES ASSUME NEW s \in Sessions, NEW r \in Recorders, NEW e \in Events,
                          Known(r, s, e)
                   PROVE  Known(r, s, e)'
        BY <2>6 DEF ListenInv, Claim
      <4>1. CASE <<s, e>> \in attached[r] /\ r = R(t)
        <5>1. pc'[t] = "detach" /\ R(t)' = r /\ <<s, e>> \in job'[t].todo
          BY <2>6, <3>3, <4>1 DEF Claim, R, TypeOK, Jobs
        <5>2. QED BY <5>1 DEF Known
      <4>2. CASE <<s, e>> \in attached[r] /\ r # R(t)
        BY <2>6, <3>1, <3>3, <4>2 DEF Claim, Known, TypeOK
      <4>3. CASE <<r, <<s, e>>>> \in stuck
        BY <2>6, <4>3 DEF Claim, Known
      <4>4. ASSUME NEW u \in Threads, pc[u] = "detach", R(u) = r, <<s, e>> \in job[u].todo
            PROVE  Known(r, s, e)'
        <5>1. u # t
          BY <2>6, <4>4 DEF Claim
        <5>2. pc'[u] = "detach" /\ R(u)' = r /\ <<s, e>> \in job'[u].todo
          BY <2>6, <3>3, <4>4, <5>1 DEF Claim, R, TypeOK
        <5>3. QED BY <5>2 DEF Known
      <4>5. QED BY <4>1, <4>2, <4>3, <4>4 DEF Known
    <3>4. QED BY <3>2, <3>3
  <2>7. CASE Unsubscribe(t)
    <3>1. PICK p \in job[t].todo :
            /\ job' = [job EXCEPT ![t].todo = @ \ {p}]
            /\ \/ /\ listeners' = [listeners EXCEPT ![p[1]][<<R(t), p[2]>>] = 0]
                  /\ UNCHANGED stuck
               \/ stuck' = stuck \cup {<<R(t), p>>} /\ UNCHANGED listeners
      BY <2>7 DEF Unsubscribe
    <3>2. R(t) \in Recorders /\ p \in Sessions \X Events
      BY <2>7, <3>1 DEF Unsubscribe, JobInv
    <3> SUFFICES ASSUME NEW s \in Sessions, NEW r \in Recorders, NEW e \in Events
                 PROVE  /\ listeners'[s][<<r, e>>] <= 1
                        /\ listeners'[s][<<r, e>>] > 0 => Known(r, s, e)'
      BY DEF ListenInv
    <3>3. CASE r = R(t) /\ <<s, e>> = p
      <4>1. p[1] = s /\ p[2] = e /\ <<r, e>> \in Recorders \X Events
        BY <3>3
      <4>2. CASE listeners' = [listeners EXCEPT ![p[1]][<<R(t), p[2]>>] = 0]
        <5>1. listeners'[s][<<r, e>>] = 0
          BY <3>3, <4>1, <4>2 DEF TypeOK
        <5>2. QED BY <5>1
      <4>3. CASE stuck' = stuck \cup {<<R(t), p>>} /\ UNCHANGED listeners
        BY <3>3, <4>3 DEF ListenInv, Known
      <4>4. QED BY <3>1, <4>2, <4>3
    <3>4. CASE ~(r = R(t) /\ <<s, e>> = p)
      <4>1. listeners'[s][<<r, e>>] = listeners[s][<<r, e>>]
        BY <3>1, <3>2, <3>4 DEF TypeOK
      <4>2. CASE <<s, e>> \in attached[r] \/ <<r, <<s, e>>>> \in stuck
        BY <2>7, <3>1, <4>1, <4>2 DEF Unsubscribe, Known, ListenInv
      <4>3. ASSUME NEW u \in Threads, pc[u] = "detach", R(u) = r, <<s, e>> \in job[u].todo
            PROVE  Known(r, s, e)'
        <5>1. pc'[u] = "detach" /\ R(u)' = r /\ <<s, e>> \in job'[u].todo
          BY <2>7, <3>1, <3>4, <4>3 DEF Unsubscribe, R, TypeOK, Jobs
        <5>2. QED BY <5>1 DEF Known
      <4>4. QED BY <4>1, <4>2, <4>3 DEF Known, ListenInv
    <3>5. QED BY <3>3, <3>4
  <2>8. CASE Detached(t)
    <3> SUFFICES ASSUME NEW s \in Sessions, NEW r \in Recorders, NEW e \in Events,
                        Known(r, s, e)
                 PROVE  Known(r, s, e)'
      BY <2>8 DEF ListenInv, Detached
    <3>1. CASE <<s, e>> \in attached[r] \/ <<r, <<s, e>>>> \in stuck
      BY <2>8, <3>1 DEF Detached, Known
    <3>2. ASSUME NEW u \in Threads, pc[u] = "detach", R(u) = r, <<s, e>> \in job[u].todo
          PROVE  Known(r, s, e)'
      <4>1. u # t
        BY <2>8, <3>2 DEF Detached
      <4>2. pc'[u] = "detach" /\ R(u)' = r /\ <<s, e>> \in job'[u].todo
        BY <2>8, <3>2, <4>1 DEF Detached, R, TypeOK
      <4>3. QED BY <4>2 DEF Known
    <3>3. QED BY <3>1, <3>2 DEF Known
  <2>9. CASE Finalize(t)
    BY <2>9, KnownKept DEF Finalize, R, TypeOK, Threads
  <2>10. QED BY <1>5, <2>1, <2>2, <2>3, <2>4, <2>5, <2>6, <2>7, <2>8, <2>9 DEF Proceed
<1>6. QED BY <1>1, <1>2, <1>3, <1>4, <1>5 DEF Next

LEMMA InductiveIInv == IInv /\ [Next]_vars => IInv'
BY TypeStep, JobStep, LockStep, SubscribeStep, ClaimStep, ListenStep DEF IInv

LEMMA SpecIInv == Spec => []IInv
BY InitIInv, InductiveIInv, PTL DEF Spec

\* No thread ever works on a recorder, a session or an agent that is not there.
THEOREM WiringTypes == Spec => []TypeOK
<1>1. IInv => TypeOK
  BY DEF IInv
<1>2. QED BY <1>1, SpecIInv, PTL

\* However many startup paths, retries and reconnects attach one recorder to one
\* session, each event reaches it through one handler: no transcript is doubled.
THEOREM EventsHandledOnce == Spec => []HandledOnce
<1>1. IInv => HandledOnce
  BY DEF IInv, ListenInv, HandledOnce
<1>2. QED BY <1>1, SpecIInv, PTL

\* However attach() and finish() interleave, the call is ended once, and then no
\* session holds a handler of the recorder but one that off() failed to remove.
THEOREM FinishLetsGo == Spec => []FinishedLetsGo
<1>1. ASSUME IInv, NEW r \in Recorders, finalized[r] = 1
      PROVE  attached[r] = {} /\ \A t \in Threads : ~Releasing(t, r)
  <2>1. ~recording[r]
    BY <1>1 DEF IInv, ClaimInv
  <2>2. QED BY <1>1, <2>1 DEF IInv, ClaimInv
<1>2. ASSUME IInv, NEW r \in Recorders, finalized[r] = 1,
             NEW s \in Sessions, NEW e \in Events, listeners[s][<<r, e>>] > 0
      PROVE  <<r, <<s, e>>>> \in stuck
  BY <1>1, <1>2 DEF IInv, ListenInv, Known, Releasing
<1>3. IInv => FinishedLetsGo
  BY <1>2 DEF FinishedLetsGo, IInv, ClaimInv
<1>4. QED BY <1>3, SpecIInv, PTL

-------------------------------------------------------------------------------
(* Agents.  What the calls and the wrappers of a session bind, when each   *)
(* call is recorded by one recorder, each recorder records one call, and   *)
(* agents take what is set on them.  Sessions may take no wrapper, and may *)
(* be handed over while they are wired.                                    *)

Paired ==
  \A s, x \in Sessions : \A r \in MayRecord[s], q \in MayRecord[x] : r = q <=> s = x

PlaceInv ==
  /\ \A u \in Wirings :
       pc[u] \in {"idle", "attach", "subscribe", "leave", "bind", "handoff", "done"}
  /\ \A u \in Finishes : pc[u] \in {"idle", "finish", "detach", "finalize", "done"}

\* Whoever wires a session does it for the recorder of that session.
EngagedInv ==
  \A u \in Wirings : pc[u] # "idle" =>
    /\ S(u) \in Sessions /\ R(u) \in MayRecord[S(u)] /\ job[u].agent \in Agents
    /\ inCharge[S(u)] \in Agents

\* The wrappers of a session are its recorder's, and a recorder that is told of its
\* handoffs has one there.
Wraps(s) ==
  /\ \A i \in DOMAIN handoff[s] : handoff[s][i] \in MayRecord[s]
  /\ \A r \in Recorders : Told(s, r) => handoff[s] # <<>>

WrapperInv == \A s \in Sessions : Wraps(s)

\* No other session is being wired to the agent being wired, or is recorded with it.
Charged(u) ==
  /\ \A v \in Wirings : Wiring(v) /\ job[v].agent = job[u].agent => S(v) = S(u)
  /\ \A x \in Sessions \ {S(u)} :
       inCharge[x] = job[u].agent => \A r \in Given(x) : ~recording[r]

ChargeInv == \A u \in Wirings : Wiring(u) => Charged(u)

BoundTo(a, r) == vaani[a] = r /\ watch[a] = <<r>>

\* A recorder that was not passed over by a handoff holds the agent in charge, or is
\* about to.
Holds(u) ==
  \/ BoundTo(inCharge[S(u)], R(u))
  \/ pc[u] \in {"attach", "subscribe", "leave", "bind"} /\ inCharge[S(u)] = job[u].agent

BoundInv ==
  \A u \in Wirings :
    pc[u] # "idle" /\ recording[R(u)] /\ R(u) \notin untold[S(u)] => Holds(u)

\* What could not be heard was noted.
HeardInv == \A r \in Recorders : unheard[r] => missing[r]

AgentInv == PlaceInv /\ EngagedInv /\ WrapperInv /\ ChargeInv /\ BoundInv /\ HeardInv

LEMMA InitAgentInv == Init => AgentInv
BY WiringAssumption
   DEF Init, AgentInv, PlaceInv, EngagedInv, WrapperInv, Wraps, ChargeInv, BoundInv,
       HeardInv, Told, Wired, Wiring, Threads

\* A thread goes on to another place, and nothing about agents changes.
Advances(t) ==
  /\ UNCHANGED <<handoff, inCharge, untold, unheard, vaani, watch, missing>>
  /\ \A u \in Threads : /\ job'[u].session = job[u].session
                        /\ job'[u].agent = job[u].agent
  /\ \A u \in Threads \ {t} : pc'[u] = pc[u] /\ job'[u].recorder = job[u].recorder
  /\ \A r \in Recorders : recording'[r] => recording[r]
  /\ t \in Wirings => /\ job'[t].recorder = job[t].recorder
                      /\ pc[t] \in {"attach", "subscribe", "leave"}
                      /\ pc'[t] \in {"subscribe", "leave", "bind"}
  /\ t \in Finishes => pc'[t] \in {"finish", "detach", "finalize", "done"}

LEMMA AdvancesKeeps ==
  ASSUME NEW t \in Threads, Advances(t), AgentInv
  PROVE  AgentInv'
<1>1. \A u \in Wirings :
        /\ R(u)' = R(u) /\ S(u)' = S(u) /\ job'[u].agent = job[u].agent
        /\ pc'[u] = "idle" <=> pc[u] = "idle"
        /\ pc'[u] = "done" <=> pc[u] = "done"
        /\ pc[u] \in {"attach", "subscribe", "leave", "bind"} =>
             pc'[u] \in {"attach", "subscribe", "leave", "bind"}
  BY WiringAssumption DEF Advances, Threads, R, S
<1>2. /\ \A u \in Wirings : Wiring(u)' <=> Wiring(u)
      /\ \A s \in Sessions, r \in Recorders : Told(s, r)' <=> Told(s, r)
      /\ \A s \in Sessions : Given(s)' = Given(s)
  BY <1>1 DEF Wiring, Told, Wired, Given
<1>3. /\ UNCHANGED <<handoff, inCharge, untold, unheard, vaani, watch, missing>>
      /\ \A r \in Recorders : recording'[r] => recording[r]
  BY DEF Advances
<1>4. PlaceInv'
  BY WiringAssumption DEF Advances, AgentInv, PlaceInv, Threads
<1>5. EngagedInv'
  BY <1>1, <1>3 DEF AgentInv, EngagedInv
<1>6. WrapperInv'
  BY <1>2, <1>3 DEF AgentInv, WrapperInv, Wraps
<1>7. ChargeInv'
  <2>1. \A x \in Sessions : Given(x) \subseteq Recorders
    BY DEF Given
  <2>2. QED BY <1>1, <1>2, <1>3, <2>1 DEF AgentInv, ChargeInv, Charged
<1>8. BoundInv'
  <2>1. \A u \in Wirings : Holds(u) => Holds(u)'
    BY <1>1, <1>3 DEF Holds, BoundTo
  <2>2. \A u \in Wirings : pc[u] # "idle" => R(u) \in Recorders
    BY WiringAssumption DEF AgentInv, EngagedInv
  <2>3. QED BY <1>1, <1>3, <2>1, <2>2 DEF AgentInv, BoundInv
<1>9. HeardInv'
  BY <1>3 DEF AgentInv, HeardInv
<1>10. QED BY <1>4, <1>5, <1>6, <1>7, <1>8, <1>9 DEF AgentInv

\* Working off what a thread has to do changes nothing else about its job.
LEMMA TodoOnly ==
  ASSUME TypeOK, NEW t \in Threads, NEW todo, job' = [job EXCEPT ![t].todo = todo]
  PROVE  \A u \in Threads : /\ job'[u].recorder = job[u].recorder
                            /\ job'[u].session = job[u].session
                            /\ job'[u].agent = job[u].agent
BY DEF TypeOK, Jobs

\* Steps that only advance a thread.
LEMMA ProceedAdvances ==
  ASSUME TypeOK, JobInv, PlaceInv, NEW t \in Threads,
         \/ Enter(t) \/ Subscribe(t) \/ Leave(t)
         \/ Claim(t) \/ Unsubscribe(t) \/ Detached(t) \/ Finalize(t)
  PROVE  Advances(t)
<1> DEFINE SameJobs == \A u \in Threads : /\ job'[u].recorder = job[u].recorder
                                          /\ job'[u].session = job[u].session
                                          /\ job'[u].agent = job[u].agent
<1>1. CASE Enter(t)
  <2>1. SameJobs
    <3>1. job' = job \/ job' = [job EXCEPT ![t].todo = Events]
      BY <1>1 DEF Enter
    <3>2. QED BY <3>1, TodoOnly
  <2>2. /\ \A u \in Threads \ {t} : pc'[u] = pc[u]
        /\ pc[t] = "attach" /\ pc'[t] \in {"leave", "subscribe"}
    BY <1>1 DEF Enter, TypeOK
  <2>3. UNCHANGED <<handoff, inCharge, untold, unheard, vaani, watch, missing, recording>>
    BY <1>1 DEF Enter
  <2>4. QED BY <2>1, <2>2, <2>3 DEF Advances, PlaceInv
<1>2. CASE Subscribe(t)
  <2>1. SameJobs
    <3>1. PICK e \in job[t].todo : job' = [job EXCEPT ![t].todo = @ \ {e}]
      BY <1>2 DEF Subscribe
    <3>2. job' = [job EXCEPT ![t].todo = job[t].todo \ {e}]
      BY <3>1
    <3>3. QED BY <3>2, TodoOnly
  <2>2. /\ \A u \in Threads \ {t} : pc'[u] = pc[u]
        /\ pc[t] = "subscribe" /\ pc'[t] \in {"leave", "subscribe"}
    BY <1>2 DEF Subscribe, TypeOK
  <2>3. UNCHANGED <<handoff, inCharge, untold, unheard, vaani, watch, missing, recording>>
    BY <1>2 DEF Subscribe
  <2>4. QED BY <2>1, <2>2, <2>3 DEF Advances, PlaceInv
<1>3. CASE Leave(t)
  BY <1>3, WiringAssumption DEF Leave, Advances, PlaceInv, TypeOK, Jobs, Threads
<1>4. CASE Claim(t)
  <2>1. SameJobs
    <3>1. job' = job \/ job' = [job EXCEPT ![t].todo = attached[R(t)]]
      BY <1>4 DEF Claim
    <3>2. QED BY <3>1, TodoOnly
  <2>2. /\ \A u \in Threads \ {t} : pc'[u] = pc[u]
        /\ pc[t] = "finish" /\ pc'[t] \in {"detach", "done"}
    BY <1>4 DEF Claim, TypeOK
  <2>3. /\ UNCHANGED <<handoff, inCharge, untold, unheard, vaani, watch, missing>>
        /\ \A r \in Recorders : recording'[r] => recording[r]
    BY <1>4 DEF Claim, TypeOK
  <2>4. QED BY <2>1, <2>2, <2>3 DEF Advances, PlaceInv
<1>5. CASE Unsubscribe(t)
  <2>1. SameJobs
    <3>1. PICK p \in job[t].todo : job' = [job EXCEPT ![t].todo = @ \ {p}]
      BY <1>5 DEF Unsubscribe
    <3>2. job' = [job EXCEPT ![t].todo = job[t].todo \ {p}]
      BY <3>1
    <3>3. QED BY <3>2, TodoOnly
  <2>2. pc' = pc /\ pc[t] = "detach"
    BY <1>5 DEF Unsubscribe
  <2>3. UNCHANGED <<handoff, inCharge, untold, unheard, vaani, watch, missing, recording>>
    BY <1>5 DEF Unsubscribe
  <2>4. QED BY <2>1, <2>2, <2>3 DEF Advances, PlaceInv
<1>6. CASE Detached(t)
  BY <1>6, WiringAssumption DEF Detached, Advances, PlaceInv, TypeOK, Jobs, Threads
<1>7. CASE Finalize(t)
  BY <1>7, WiringAssumption DEF Finalize, Advances, PlaceInv, TypeOK, Jobs, Threads
<1>8. QED BY <1>1, <1>2, <1>3, <1>4, <1>5, <1>6, <1>7

LEMMA FinishAdvances ==
  ASSUME TypeOK, PlaceInv, NEW t \in Finishes, NEW r \in Recorders, Finish(t, r)
  PROVE  Advances(t)
BY WiringAssumption DEF Finish, Advances, PlaceInv, TypeOK, Jobs, Threads

\* What bind_agent() of one recorder notes.
LEMMA BoundFlags ==
  ASSUME TypeOK, NEW a, NEW r \in Recorders, BindAgent(a, r, {r})
  PROVE  \A q \in Recorders : /\ missing[q] => missing'[q]
                              /\ a \notin Tapped /\ q = r => missing'[q]
<1> SUFFICES ASSUME NEW q \in Recorders
             PROVE  /\ missing[q] => missing'[q]
                    /\ a \notin Tapped /\ q = r => missing'[q]
  OBVIOUS
<1>1. /\ missing'[q] = IF q \in {r} THEN Missed(a, q) ELSE missing[q]
      /\ missing[q] \in BOOLEAN
  BY DEF BindAgent, TypeOK
<1>2. CASE q = r
  BY <1>1, <1>2, Zenon DEF Missed
<1>3. CASE q # r
  BY <1>1, <1>3
<1>4. QED BY <1>2, <1>3

\* What goes unheard is an agent that the recorder was told of and does not hear.
LEMMA SpokenFlags ==
  ASSUME NEW a, NEW r, NEW rs, SpeaksTo(a, r, rs), NEW q \in Recorders, unheard'[q]
  PROVE  unheard[q] \/ (q \in rs /\ ~(a \in Tapped /\ q = r))
<1>1. unheard'[q] = (unheard[q] \/ (q \in rs /\ recording[q] /\ ~(a \in Tapped /\ q = r)))
  BY DEF SpeaksTo
<1>2. QED BY <1>1, Zenon

\* There is one recorder to a session, and one session to a recorder.
LEMMA PairedFacts ==
  ASSUME Paired, EngagedInv
  PROVE  /\ \A s \in Sessions : MayRecord[s] \subseteq Recorders
         /\ \A u, v \in Wirings : pc[u] # "idle" /\ pc[v] # "idle" =>
              (R(u) = R(v) <=> S(u) = S(v))
         /\ \A u \in Wirings : pc[u] # "idle" => R(u) \in Recorders /\ R(u) \in Given(S(u))
         /\ \A s \in Sessions, r \in Recorders : Told(s, r) => r \in MayRecord[s]
<1>1. \A s \in Sessions : MayRecord[s] \subseteq Recorders
  BY WiringAssumption
<1>2. \A u, v \in Wirings : pc[u] # "idle" /\ pc[v] # "idle" => (R(u) = R(v) <=> S(u) = S(v))
  BY DEF Paired, EngagedInv
<1>3. \A u \in Wirings : pc[u] # "idle" => R(u) \in Recorders /\ R(u) \in Given(S(u))
  BY <1>1 DEF EngagedInv, Given
<1>4. \A s \in Sessions, r \in Recorders : Told(s, r) => r \in MayRecord[s]
  BY DEF Told, Wired, EngagedInv
<1>5. QED BY <1>1, <1>2, <1>3, <1>4

LEMMA ObserveKeeps ==
  ASSUME TypeOK, AgentInv, NEW t \in Wirings, NEW s \in Sessions,
         NEW r \in Recorders, NEW a \in Agents, Observe(t, s, r, a)
  PROVE  AgentInv'
<1>1. /\ pc[t] = "idle" /\ pc'[t] = "attach"
      /\ R(t)' = r /\ S(t)' = s /\ job'[t].agent = a
      /\ \A u \in Threads \ {t} : pc'[u] = pc[u] /\ job'[u] = job[u]
      /\ \A u \in Threads \ {t} : R(u)' = R(u) /\ S(u)' = S(u)
      /\ t \in Threads /\ Wirings \subseteq Threads /\ Finishes \subseteq Threads
  BY DEF Observe, TypeOK, Threads, R, S
<1>2. /\ r \in MayRecord[s] /\ inCharge[s] \in {None, a} /\ None \notin Agents
      /\ Available(a, s)
  BY WiringAssumption DEF Observe
<1>3. /\ UNCHANGED <<recording, handoff, untold, unheard, vaani, watch, missing>>
      /\ inCharge'[s] = a /\ \A x \in Sessions \ {s} : inCharge'[x] = inCharge[x]
  BY DEF Observe, TypeOK
<1>4. /\ \A u \in Wirings : Wiring(u)' <=> u = t \/ Wiring(u)
      /\ \A x \in Sessions, q \in Recorders : Told(x, q)' <=> Told(x, q)
      /\ \A x \in Sessions \ {s} : Given(x)' = Given(x)
  BY <1>1 DEF Wiring, Told, Wired, Given
\* The first call to begin finds the session's agent, or brings it.
<1>5. \A u \in Wirings : pc[u] # "idle" => inCharge'[S(u)] = inCharge[S(u)]
  BY <1>2, <1>3 DEF AgentInv, EngagedInv
<1>6. PlaceInv'
  BY <1>1, WiringAssumption DEF AgentInv, PlaceInv
<1>7. EngagedInv'
  BY <1>1, <1>2, <1>3 DEF AgentInv, EngagedInv
<1>8. WrapperInv'
  BY <1>3, <1>4 DEF AgentInv, WrapperInv, Wraps
<1>9. ChargeInv'
  <2> SUFFICES ASSUME NEW u \in Wirings, Wiring(u)' PROVE Charged(u)'
    BY DEF ChargeInv
  <2>1. CASE u = t
    <3>1. ASSUME NEW v \in Wirings, Wiring(v)', job'[v].agent = a PROVE S(v)' = s
      BY <1>1, <1>2, <1>4, <3>1 DEF Available
    <3>2. ASSUME NEW x \in Sessions \ {s}, inCharge'[x] = a, NEW q \in Given(x)'
          PROVE  ~recording'[q]
      BY <1>2, <1>3, <1>4, <3>2 DEF Available
    <3>3. QED BY <1>1, <2>1, <3>1, <3>2 DEF Charged
  <2>2. CASE u # t
    <3>1. /\ Wiring(u) /\ job'[u] = job[u] /\ S(u)' = S(u) /\ Charged(u)
          /\ job[u].agent = a => S(u) = s
      BY <1>1, <1>2, <1>4, <2>2 DEF AgentInv, ChargeInv, Available
    <3>2. ASSUME NEW v \in Wirings, Wiring(v)', job'[v].agent = job[u].agent
          PROVE  S(v)' = S(u)
      BY <1>1, <1>4, <3>1, <3>2 DEF Charged
    <3>3. ASSUME NEW x \in Sessions \ {S(u)}, inCharge'[x] = job[u].agent, NEW q \in Given(x)'
          PROVE  ~recording'[q]
      <4>1. x # s
        BY <1>3, <3>1, <3>3
      <4>2. QED BY <1>3, <1>4, <3>1, <3>3, <4>1 DEF Charged
    <3>4. QED BY <3>1, <3>2, <3>3 DEF Charged
  <2>3. QED BY <2>1, <2>2
<1>10. BoundInv'
  <2> SUFFICES ASSUME NEW u \in Wirings, pc'[u] # "idle", recording'[R(u)'],
                      R(u)' \notin untold'[S(u)']
               PROVE  Holds(u)'
    BY DEF BoundInv
  <2>1. CASE u = t
    BY <1>1, <1>3, <2>1 DEF Holds
  <2>2. CASE u # t
    <3>1. pc'[u] = pc[u] /\ job'[u] = job[u] /\ R(u)' = R(u) /\ S(u)' = S(u)
      BY <1>1, <2>2
    <3>2. Holds(u)
      BY <1>3, <3>1 DEF AgentInv, BoundInv
    <3>3. QED BY <1>3, <1>5, <3>1, <3>2 DEF Holds, BoundTo
  <2>3. QED BY <2>1, <2>2
<1>11. HeardInv'
  BY <1>3 DEF AgentInv, HeardInv
<1>12. QED BY <1>6, <1>7, <1>8, <1>9, <1>10, <1>11 DEF AgentInv

LEMMA BindKeeps ==
  ASSUME Paired, TypeOK, AgentInv, NEW t \in Threads, Bind(t)
  PROVE  AgentInv'
<1>1. PICK r, s, a : r = R(t) /\ s = S(t) /\ a = job[t].agent
  OBVIOUS
<1>2. /\ t \in Wirings /\ Wiring(t) /\ s \in Sessions /\ r \in MayRecord[s] /\ r \in Recorders
      /\ a \in Agents /\ inCharge[s] \in Agents /\ Charged(t)
      /\ Wirings \subseteq Threads /\ Finishes \subseteq Threads
  BY <1>1, PairedFacts, WiringAssumption
     DEF Bind, Wiring, AgentInv, PlaceInv, EngagedInv, ChargeInv, Threads
<1>3. /\ UNCHANGED <<recording, handoff, inCharge, job>>
      /\ pc[t] = "bind" /\ pc'[t] = "handoff" /\ \A u \in Threads \ {t} : pc'[u] = pc[u]
      /\ \A u \in Threads : R(u)' = R(u) /\ S(u)' = S(u)
      /\ BindAgent(a, r, {r}) /\ SpeaksTo(a, r, {r})
  BY <1>1 DEF Bind, TypeOK, R, S
<1>4. /\ vaani'[a] = r /\ watch'[a] = <<r>>
      /\ \A b \in Agents \ {a} : vaani'[b] = vaani[b] /\ watch'[b] = watch[b]
  BY <1>2, <1>3 DEF BindAgent, Watched, TypeOK
<1>5. /\ \A x \in Sessions \ {s} : untold'[x] = untold[x]
      /\ inCharge[s] # a => untold'[s] = untold[s]
  BY <1>1, <1>2 DEF Bind, TypeOK
<1>6. /\ \A u \in Wirings : Wiring(u)' <=> Wiring(u)
      /\ \A x \in Sessions, q \in Recorders : Told(x, q)' <=> Told(x, q)
      /\ \A x \in Sessions : Given(x)' = Given(x)
  BY <1>2, <1>3 DEF Wiring, Told, Wired, Given
<1>7. PlaceInv'
  BY <1>2, <1>3, WiringAssumption DEF AgentInv, PlaceInv
<1>8. EngagedInv'
  BY <1>2, <1>3 DEF AgentInv, EngagedInv
<1>9. WrapperInv'
  BY <1>3, <1>6 DEF AgentInv, WrapperInv, Wraps
<1>10. ChargeInv'
  BY <1>2, <1>3, <1>6 DEF AgentInv, ChargeInv, Charged
<1>11. BoundInv'
  <2> SUFFICES ASSUME NEW u \in Wirings, pc'[u] # "idle", recording[R(u)],
                      R(u) \notin untold'[S(u)]
               PROVE  Holds(u)'
    BY <1>2, <1>3 DEF BoundInv
  <2>1. /\ pc[u] # "idle" /\ u \in Threads /\ S(u) \in Sessions /\ inCharge[S(u)] \in Agents
        /\ R(u) \in Given(S(u)) /\ (R(u) = r <=> S(u) = s)
    BY <1>1, <1>2, <1>3, PairedFacts DEF AgentInv, EngagedInv
  <2>2. CASE inCharge[S(u)] = a
    <3>1. S(u) = s
      BY <1>1, <1>2, <2>1, <2>2 DEF Charged
    <3>2. QED BY <1>3, <1>4, <2>1, <2>2, <3>1 DEF Holds, BoundTo
  <2>3. CASE inCharge[S(u)] # a
    <3>1. Holds(u)
      BY <1>5, <2>1, <2>3 DEF AgentInv, BoundInv
    <3>2. CASE BoundTo(inCharge[S(u)], R(u))
      BY <1>3, <1>4, <2>1, <2>3, <3>2 DEF Holds, BoundTo
    <3>3. CASE pc[u] \in {"attach", "subscribe", "leave", "bind"} /\ inCharge[S(u)] = job[u].agent
      <4>1. u # t
        BY <1>1, <2>3, <3>3
      <4>2. QED BY <1>3, <2>1, <3>3, <4>1 DEF Holds
    <3>4. QED BY <3>1, <3>2, <3>3 DEF Holds
  <2>4. QED BY <2>2, <2>3
<1>12. HeardInv'
  BY <1>2, <1>3, BoundFlags, SpokenFlags DEF AgentInv, HeardInv
<1>13. QED BY <1>7, <1>8, <1>9, <1>10, <1>11, <1>12 DEF AgentInv

LEMMA WatchHandoffKeeps ==
  ASSUME Paired, TypeOK, AgentInv, NEW t \in Threads, WatchHandoff(t)
  PROVE  AgentInv'
<1>1. PICK r, s : r = R(t) /\ s = S(t)
  OBVIOUS
<1>2. /\ t \in Wirings /\ Wiring(t) /\ s \in Sessions /\ r \in MayRecord[s] /\ r \in Recorders
      /\ handoff[s] \in Seq(Recorders)
      /\ Wirings \subseteq Threads /\ Finishes \subseteq Threads
  BY <1>1, PairedFacts, WiringAssumption
     DEF WatchHandoff, Wiring, AgentInv, PlaceInv, EngagedInv, Threads, TypeOK
<1>3. /\ UNCHANGED <<recording, inCharge, untold, unheard, vaani, watch, missing, job>>
      /\ pc[t] = "handoff" /\ pc'[t] = "done" /\ \A u \in Threads \ {t} : pc'[u] = pc[u]
      /\ \A u \in Threads : R(u)' = R(u) /\ S(u)' = S(u)
  BY DEF WatchHandoff, TypeOK, R, S
<1>4. /\ \/ handoff'[s] = handoff[s] /\ (s \in Sealed \/ handoff[s] # <<>>)
         \/ handoff'[s] = <<r>> \o handoff[s]
      /\ \A x \in Sessions \ {s} : handoff'[x] = handoff[x]
  BY <1>1, <1>2 DEF WatchHandoff, TypeOK
<1>5. /\ \A u \in Wirings : Wiring(u)' => Wiring(u)
      /\ \A x \in Sessions \ {s}, q \in Recorders : Told(x, q)' <=> Told(x, q)
      /\ \A x \in Sessions : Given(x)' = Given(x)
  <2>1. \A u \in Wirings : Wiring(u)' => Wiring(u)
    BY <1>2, <1>3 DEF Wiring
  <2>2. \A x \in Sessions \ {s}, q \in Recorders : Told(x, q)' <=> Told(x, q)
    BY <1>1, <1>2, <1>3 DEF Told, Wired
  <2>3. \A x \in Sessions : Given(x)' = Given(x)
    BY <1>2, <1>3 DEF Given
  <2>4. QED BY <2>1, <2>2, <2>3
<1>6. PlaceInv'
  BY <1>2, <1>3, WiringAssumption DEF AgentInv, PlaceInv
<1>7. EngagedInv'
  BY <1>2, <1>3 DEF AgentInv, EngagedInv
<1>8. WrapperInv'
  <2>1. ASSUME NEW x \in Sessions \ {s} PROVE  Wraps(x)'
    BY <1>4, <1>5 DEF AgentInv, WrapperInv, Wraps
  <2>2. /\ \A i \in DOMAIN handoff'[s] : handoff'[s][i] \in MayRecord[s]
        /\ s \in Sealed \/ handoff'[s] # <<>>
    <3>1. \A i \in DOMAIN handoff[s] : handoff[s][i] \in MayRecord[s]
      BY <1>2 DEF AgentInv, WrapperInv, Wraps
    <3>2. CASE handoff'[s] = handoff[s] /\ (s \in Sealed \/ handoff[s] # <<>>)
      BY <3>1, <3>2
    <3>3. CASE handoff'[s] = <<r>> \o handoff[s]
      BY <1>2, <3>1, <3>3
    <3>4. QED BY <1>4, <3>2, <3>3
  <2>3. Wraps(s)'
    BY <2>2 DEF Wraps, Told
  <2>4. QED BY <2>1, <2>3 DEF WrapperInv
<1>9. ChargeInv'
  BY <1>2, <1>3, <1>5 DEF AgentInv, ChargeInv, Charged
<1>10. BoundInv'
  <2> SUFFICES ASSUME NEW u \in Wirings, pc'[u] # "idle", recording[R(u)],
                      R(u) \notin untold[S(u)]
               PROVE  Holds(u)'
    BY <1>2, <1>3 DEF BoundInv
  <2>1. Holds(u) /\ u \in Threads
    BY <1>2, <1>3 DEF AgentInv, BoundInv
  <2>2. pc[u] \in {"attach", "subscribe", "leave", "bind"} => pc'[u] = pc[u]
    BY <1>3, <2>1
  <2>3. QED BY <1>3, <2>1, <2>2 DEF Holds, BoundTo
<1>11. HeardInv'
  BY <1>3 DEF AgentInv, HeardInv
<1>12. QED BY <1>6, <1>7, <1>8, <1>9, <1>10, <1>11 DEF AgentInv

\* A handoff, wherever the recorder's wiring has got to: if the session's wrapper tells
\* it, the replacement is bound to it alone.
LEMMA HandedOver ==
  ASSUME Paired, Frozen = {}, TypeOK, AgentInv,
         NEW s \in Sessions, NEW a \in Agents, UpdateAgent(s, a)
  PROVE  /\ \A b \in Agents \ {a} : vaani'[b] = vaani[b] /\ watch'[b] = watch[b]
         /\ \A q \in Recorders : missing[q] => missing'[q]
         /\ \A r \in Recorders : Told(s, r) =>
              vaani'[a] = r /\ watch'[a] = <<r>> /\ (a \notin Tapped => missing'[r])
<1>1. CASE handoff[s] = <<>>
  <2>1. UNCHANGED agentVars
    BY <1>1 DEF UpdateAgent
  <2>2. \A r \in Recorders : ~Told(s, r)
    BY <1>1 DEF AgentInv, WrapperInv, Wraps
  <2>3. QED BY <2>1, <2>2
<1>2. CASE handoff[s] # <<>>
  <2>1. /\ handoff[s] \in Seq(Recorders) /\ Len(handoff[s]) \in DOMAIN handoff[s]
        /\ \A i \in DOMAIN handoff[s] : handoff[s][i] \in MayRecord[s]
    BY <1>2 DEF TypeOK, AgentInv, WrapperInv, Wraps
  <2>2. PICK r \in Recorders : r = handoff[s][Len(handoff[s])]
    BY <2>1
  <2>3. \A q \in MayRecord[s] : q = r
    BY <2>1, <2>2 DEF Paired
  <2>4. {handoff[s][i] : i \in DOMAIN handoff[s]} = {r}
    BY <2>1, <2>2, <2>3
  <2>5. BindAgent(a, r, {r})
    BY <1>2, <2>2, <2>4 DEF UpdateAgent
  <2>6. /\ vaani'[a] = r /\ watch'[a] = <<r>>
        /\ \A b \in Agents \ {a} : vaani'[b] = vaani[b] /\ watch'[b] = watch[b]
    BY <2>5 DEF BindAgent, Watched, TypeOK
  <2>7. \A q \in Recorders : Told(s, q) => q = r
    BY <2>3, PairedFacts DEF AgentInv
  <2>8. QED BY <2>5, <2>6, <2>7, BoundFlags
<1>3. QED BY <1>1, <1>2

LEMMA UpdateAgentKeeps ==
  ASSUME Paired, Frozen = {}, TypeOK, AgentInv,
         NEW s \in Sessions, NEW a \in Agents, UpdateAgent(s, a)
  PROVE  AgentInv'
<1>1. /\ UNCHANGED <<recording, handoff, pc, job>>
      /\ inCharge'[s] = a /\ \A x \in Sessions \ {s} : inCharge'[x] = inCharge[x]
      /\ untold'[s] = {r \in Given(s) : ~Told(s, r)}
      /\ \A x \in Sessions \ {s} : untold'[x] = untold[x]
      /\ SpeaksTo(a, vaani'[a], {r \in Recorders : Told(s, r)})
      /\ Available(a, s) /\ Wirings \subseteq Threads
  BY DEF UpdateAgent, TypeOK, Threads
<1>2. /\ \A b \in Agents \ {a} : vaani'[b] = vaani[b] /\ watch'[b] = watch[b]
      /\ \A q \in Recorders : missing[q] => missing'[q]
      /\ \A r \in Recorders : Told(s, r) =>
           vaani'[a] = r /\ watch'[a] = <<r>> /\ (a \notin Tapped => missing'[r])
  BY HandedOver
<1>3. /\ \A u \in Wirings : Wiring(u)' <=> Wiring(u)
      /\ \A u \in Wirings : R(u)' = R(u) /\ S(u)' = S(u)
      /\ \A x \in Sessions, q \in Recorders : Told(x, q)' <=> Told(x, q)
      /\ \A x \in Sessions : Given(x)' = Given(x)
  BY <1>1 DEF Wiring, Told, Wired, Given, R, S
<1>4. PlaceInv'
  BY <1>1 DEF AgentInv, PlaceInv
<1>5. EngagedInv'
  BY <1>1, <1>3 DEF AgentInv, EngagedInv
<1>6. WrapperInv'
  BY <1>1, <1>3 DEF AgentInv, WrapperInv, Wraps
<1>7. ChargeInv'
  <2> SUFFICES ASSUME NEW u \in Wirings, Wiring(u) PROVE Charged(u)'
    BY <1>3 DEF ChargeInv
  <2>1. Charged(u) /\ (job[u].agent = a => S(u) = s)
    BY <1>1 DEF AgentInv, ChargeInv, Available
  <2>2. ASSUME NEW x \in Sessions \ {S(u)}, inCharge'[x] = job[u].agent, NEW q \in Given(x)
        PROVE  ~recording[q]
    <3>1. x # s
      BY <1>1, <2>1, <2>2
    <3>2. QED BY <1>1, <2>1, <2>2, <3>1 DEF Charged
  <2>3. QED BY <1>1, <1>3, <2>1, <2>2 DEF Charged
<1>8. BoundInv'
  <2> SUFFICES ASSUME NEW u \in Wirings, pc[u] # "idle", recording[R(u)],
                      R(u) \notin untold'[S(u)]
               PROVE  Holds(u)'
    BY <1>1, <1>3 DEF BoundInv
  <2>1. /\ S(u) \in Sessions /\ inCharge[S(u)] \in Agents
        /\ R(u) \in Recorders /\ R(u) \in Given(S(u))
    BY PairedFacts DEF AgentInv, EngagedInv
  <2>2. CASE S(u) = s
    <3>1. Told(s, R(u))
      BY <1>1, <2>1, <2>2
    <3>2. QED BY <1>1, <1>2, <1>3, <2>1, <2>2, <3>1 DEF Holds, BoundTo
  <2>3. CASE S(u) # s
    <3>1. inCharge[S(u)] # a
      BY <1>1, <2>1, <2>3 DEF Available
    <3>2. Holds(u)
      BY <1>1, <2>1, <2>3 DEF AgentInv, BoundInv
    <3>3. QED BY <1>1, <1>2, <1>3, <2>1, <2>3, <3>1, <3>2 DEF Holds, BoundTo
  <2>4. QED BY <2>2, <2>3
<1>9. HeardInv'
  <2> SUFFICES ASSUME NEW q \in Recorders, unheard'[q] PROVE missing'[q]
    BY DEF HeardInv
  <2>1. CASE unheard[q]
    BY <1>2, <2>1 DEF AgentInv, HeardInv
  <2>2. CASE ~unheard[q]
    <3>1. Told(s, q) /\ ~(a \in Tapped /\ q = vaani'[a])
      BY <1>1, <2>2, SpokenFlags
    <3>2. QED BY <1>2, <3>1
  <2>3. QED BY <2>1, <2>2
<1>10. QED BY <1>4, <1>5, <1>6, <1>7, <1>8, <1>9 DEF AgentInv

LEMMA AgentStep ==
  ASSUME Paired, Frozen = {}, IInv, AgentInv, [Next]_vars
  PROVE  AgentInv'
<1>1. TypeOK /\ JobInv /\ PlaceInv /\ Finishes \subseteq Threads
  BY DEF IInv, AgentInv, Threads
<1>2. CASE UNCHANGED vars
  <2>1. UNCHANGED <<handoff, inCharge, untold, unheard, vaani, watch, missing, pc, job, recording>>
    BY <1>2 DEF vars
  <2>2. /\ \A u \in Wirings : Wiring(u)' <=> Wiring(u)
        /\ \A u \in Wirings : R(u)' = R(u) /\ S(u)' = S(u)
        /\ \A x \in Sessions, q \in Recorders : Told(x, q)' <=> Told(x, q)
        /\ \A x \in Sessions : Given(x)' = Given(x)
    BY <2>1 DEF Wiring, Told, Wired, Given, R, S
  <2>3. PlaceInv' /\ EngagedInv' /\ WrapperInv' /\ HeardInv'
    BY <2>1, <2>2 DEF AgentInv, PlaceInv, EngagedInv, WrapperInv, Wraps, HeardInv
  <2>4. ChargeInv'
    BY <2>1, <2>2 DEF AgentInv, ChargeInv, Charged
  <2>5. BoundInv'
    BY <2>1, <2>2 DEF AgentInv, BoundInv, Holds, BoundTo
  <2>6. QED BY <2>3, <2>4, <2>5 DEF AgentInv
<1>3. ASSUME NEW t \in Wirings, NEW s \in Sessions, NEW r \in Recorders, NEW a \in Agents,
             Observe(t, s, r, a)
      PROVE  AgentInv'
  BY <1>1, <1>3, ObserveKeeps
<1>4. ASSUME NEW s \in Sessions, NEW a \in Agents, UpdateAgent(s, a)
      PROVE  AgentInv'
  BY <1>1, <1>4, UpdateAgentKeeps
<1>5. ASSUME NEW t \in Finishes, NEW r \in Recorders, Finish(t, r)
      PROVE  AgentInv'
  BY <1>1, <1>5, FinishAdvances, AdvancesKeeps
<1>6. ASSUME NEW t \in Threads, Proceed(t)
      PROVE  AgentInv'
  <2>1. CASE Bind(t)
    BY <1>1, <2>1, BindKeeps
  <2>2. CASE WatchHandoff(t)
    BY <1>1, <2>2, WatchHandoffKeeps
  <2>3. CASE ~Bind(t) /\ ~WatchHandoff(t)
    BY <1>1, <1>6, <2>3, ProceedAdvances, AdvancesKeeps DEF Proceed
  <2>4. QED BY <2>1, <2>2, <2>3
<1>7. QED BY <1>2, <1>3, <1>4, <1>5, <1>6 DEF Next

LEMMA SpecAgentInv == ASSUME Paired, Frozen = {} PROVE Spec => []AgentInv
<1>1. IInv /\ AgentInv /\ [Next]_vars => AgentInv'
  BY AgentStep
<1>2. QED BY <1>1, InitAgentInv, SpecIInv, PTL DEF Spec

\* However agents are handed a call, before, during and after its wiring, and whatever
\* calls they have served before, the one in charge of a wired session speaks into its
\* recorder, which alone watches its turns: if each call has a recorder of its own and
\* agents take what is set on them.  A recorder that a handoff passed over, because its
\* wiring was not through or the session took no wrapper, is excepted until it is
\* bound to the agent in charge.
THEOREM ReplacementsAreBound ==
  ASSUME Paired, Frozen = {} PROVE Spec => []AgentInChargeIsBound
<1>1. AgentInv => AgentInChargeIsBound
  <2> SUFFICES ASSUME AgentInv, NEW s \in Sessions, NEW r \in Recorders,
                      recording[r], Wired(s, r), r \notin untold[s]
               PROVE  BoundTo(inCharge[s], r)
    BY DEF AgentInChargeIsBound, BoundTo
  <2>1. PICK u \in Wirings : pc[u] = "done" /\ S(u) = s /\ R(u) = r
    BY DEF Wired
  <2>2. QED BY <2>1 DEF AgentInv, BoundInv, Holds
<1>2. QED BY <1>1, SpecAgentInv, PTL

\* A call that ends without a word about taps was heard from every agent that its
\* recorder was bound to or told of, under the same conditions.  One that it was never
\* told of is excepted: the code certifies the call all the same.
THEOREM CertifiedCallsWereHeard ==
  ASSUME Paired, Frozen = {} PROVE Spec => []CertifiedMeansHeard
<1>1. AgentInv => CertifiedMeansHeard
  BY DEF AgentInv, HeardInv, CertifiedMeansHeard
<1>2. QED BY <1>1, SpecAgentInv, PTL
===============================================================================

---------------------------- MODULE RecorderWiring ----------------------------
(***************************************************************************)
(* How a recorder of integrations/livekit.py is wired to a call and let go *)
(* of: observe_agent_session() with attach(), bind_agent(), watch_agent()  *)
(* and _watch_handoff(), and finish() with _detach().                      *)
(*                                                                         *)
(* Each call of observe_agent_session() and of finish() is a thread of its *)
(* own: a startup path, a retry or a reconnect, a close handler, a job's   *)
(* shutdown hook.  LiveKit's session is external: its listeners, on(),     *)
(* off() and the agent in charge.  Everything belongs to one attempt to    *)
(* record; a recorder never gets a second call.                            *)
(***************************************************************************)
EXTENDS Naturals, Sequences, FiniteSets

CONSTANTS Recorders, Sessions, Agents, Events,
          Wirings,      \* calls of observe_agent_session()
          Finishes,     \* calls of finish()
          MayRecord,    \* session -> the recorders it is given to
          Tapped,       \* agents whose tts_node is the mixin's (_tap_is_active)
          Frozen,       \* agents that accept no attribute
          Sealed,       \* sessions that do not: update_agent stays as it is
          None

Threads == Wirings \cup Finishes

ASSUME WiringAssumption ==
  /\ Wirings \cap Finishes = {} /\ None \notin Threads \cup Recorders \cup Agents
  /\ MayRecord \in [Sessions -> SUBSET Recorders]
  /\ Tapped \subseteq Agents /\ Frozen \subseteq Agents /\ Sealed \subseteq Sessions
  /\ IsFiniteSet(Events)

VARIABLES
  recording,  \* per recorder: self.call is there
  attached,   \* per recorder: _attached, as <<session, event>>
  lock,       \* per recorder: who holds _attach_lock
  finalized,  \* per recorder: how often its call was ended
  listeners,  \* per session: how many handlers of <<recorder, event>> are registered
  handoff,    \* per session: the recorders whose update_agent wraps it, outermost first
  inCharge,   \* per session: its agent
  untold,     \* history: per session, the recorders not told of the handoff to its agent
  unheard,    \* history: per recorder, an agent it was told of and cannot hear was in charge
  vaani,      \* per agent: agent.vaani
  watch,      \* per agent: the recorders whose watch wraps its method, outermost first
  tapped,     \* per recorder: _agent_audio_tapped
  missing,    \* per recorder: _agent_tap_missing
  pc, job,    \* per thread: where it is, and with what
  stuck       \* history: what off() failed to remove

recorderVars == <<recording, attached, lock, finalized>>
sessionVars == <<listeners, handoff, inCharge, untold, unheard>>
agentVars == <<vaani, watch, tapped, missing>>
threadVars == <<pc, job, stuck>>
vars == <<recorderVars, sessionVars, agentVars, threadVars>>

NoJob == [recorder |-> None, session |-> None, agent |-> None, todo |-> {}]

Init ==
  /\ recording = [r \in Recorders |-> TRUE] /\ attached = [r \in Recorders |-> {}]
  /\ lock = [r \in Recorders |-> None] /\ finalized = [r \in Recorders |-> 0]
  /\ listeners = [s \in Sessions |-> [p \in Recorders \X Events |-> 0]]
  /\ handoff = [s \in Sessions |-> <<>>]
  /\ inCharge = [s \in Sessions |-> None]
  /\ untold = [s \in Sessions |-> {}] /\ unheard = [r \in Recorders |-> FALSE]
  /\ vaani = [a \in Agents |-> None] /\ watch = [a \in Agents |-> <<>>]
  /\ tapped = [r \in Recorders |-> FALSE] /\ missing = [r \in Recorders |-> FALSE]
  /\ pc = [t \in Threads |-> "idle"] /\ job = [t \in Threads |-> NoJob]
  /\ stuck = {}

At(t, place) == pc' = [pc EXCEPT ![t] = place]

R(t) == job[t].recorder
S(t) == job[t].session

\* Bug: nobody waits for _attach_lock.
LockFreeAlways(r) == TRUE

LockFree(r) == lock[r] = None

Lock(t) == LockFree(R(t)) /\ lock' = [lock EXCEPT ![R(t)] = t]
Unlock(t) == lock' = [lock EXCEPT ![R(t)] = None]

\* A call of observe_agent_session() under way, or one that has been made.
Wiring(u) == u \in Wirings /\ pc[u] \notin {"idle", "done"}
Wired(s, r) == \E u \in Wirings : pc[u] = "done" /\ S(u) = s /\ R(u) = r

\* The recorders of a session, from the first call on.
Given(s) == {r \in Recorders : \E u \in Wirings : pc[u] # "idle" /\ S(u) = s /\ R(u) = r}

\* An agent object serves one call at a time, and can be reused for a later one.
Available(a, s) ==
  /\ \A u \in Threads : Wiring(u) /\ job[u].agent = a => S(u) = s
  /\ \A x \in Sessions \ {s} : inCharge[x] = a => \A r \in Given(x) : ~recording[r]

-------------------------------------------------------------------------------
(* attach() *)

\* The agent given is the one the session is started with, or has been handed to;
\* to one that is frozen the call raises.
Observe(t, s, r, a) ==
  /\ pc[t] = "idle" /\ r \in MayRecord[s] /\ a \notin Frozen
  /\ inCharge[s] \in {None, a} /\ Available(a, s)
  /\ job' = [job EXCEPT ![t] = [recorder |-> r, session |-> s, agent |-> a, todo |-> {}]]
  /\ inCharge' = [inCharge EXCEPT ![s] = a]
  /\ At(t, "attach")
  /\ UNCHANGED <<recorderVars, listeners, handoff, untold, unheard, agentVars, stuck>>

\* Bug: whether the call was released is not read under the lock.
ReleasedNever(r) == FALSE

Released(r) == ~recording[r]

AlreadyAttached(r, s) == \E e \in Events : <<s, e>> \in attached[r]

Enter(t) ==
  /\ pc[t] = "attach" /\ Lock(t)
  /\ IF Released(R(t)) \/ AlreadyAttached(R(t), S(t))
     THEN At(t, "leave") /\ UNCHANGED job
     ELSE At(t, "subscribe") /\ job' = [job EXCEPT ![t].todo = Events]
  /\ UNCHANGED <<recording, attached, finalized, sessionVars, agentVars, stuck>>

\* on() of one event more; one that the session does not know is passed over.
Subscribe(t) ==
  /\ pc[t] = "subscribe"
  /\ \E e \in job[t].todo :
       /\ job' = [job EXCEPT ![t].todo = @ \ {e}]
       /\ \/ /\ listeners' = [listeners EXCEPT ![S(t)][<<R(t), e>>] = @ + 1]
             /\ attached' = [attached EXCEPT ![R(t)] = @ \cup {<<S(t), e>>}]
          \/ UNCHANGED <<listeners, attached>>
       /\ At(t, IF job[t].todo = {e} THEN "leave" ELSE "subscribe")
  /\ UNCHANGED <<recording, lock, finalized, handoff, inCharge, untold, unheard, agentVars, stuck>>

Leave(t) ==
  /\ pc[t] = "leave" /\ Unlock(t)
  /\ At(t, "bind")
  /\ UNCHANGED <<recording, attached, finalized, sessionVars, agentVars, job, stuck>>

-------------------------------------------------------------------------------
(* bind_agent() and watch_agent() *)

\* Bug: the wrapper of an earlier call is wrapped in turn.
WatchedOnTop(a, r) == IF watch[a] # <<>> /\ watch[a][1] = r THEN watch[a] ELSE <<r>> \o watch[a]

\* An agent still carrying another recorder's wrapper is wrapped in its place.
Watched(a, r) == <<r>>

\* Bug: only an agent that follows one that was heard is missed.
MissedAfterTap(a, r) == missing[r] \/ (tapped[r] /\ a \notin Tapped)

\* An agent that cannot be heard is remembered, whichever way round the handoff went.
Missed(a, r) == missing[r] \/ a \notin Tapped

\* The recorders rs are told that a speaks from now on; r is the one it speaks to.
SpeaksTo(a, r, rs) ==
  unheard' = [q \in Recorders |->
                unheard[q] \/ (q \in rs /\ recording[q] /\ ~(a \in Tapped /\ q = r))]

\* bind_agent() of the recorders rs, of which r is the last.
BindAgent(a, r, rs) ==
  /\ vaani' = [vaani EXCEPT ![a] = r]
  /\ watch' = [watch EXCEPT ![a] = Watched(a, r)]
  /\ tapped' = [q \in Recorders |-> tapped[q] \/ (q \in rs /\ a \in Tapped)]
  /\ missing' = [q \in Recorders |-> IF q \in rs THEN Missed(a, q) ELSE missing[q]]

Bind(t) ==
  /\ pc[t] = "bind"
  /\ BindAgent(job[t].agent, R(t), {R(t)})
  /\ untold' = [untold EXCEPT ![S(t)] = IF inCharge[S(t)] = job[t].agent THEN @ \ {R(t)} ELSE @]
  /\ SpeaksTo(job[t].agent, R(t), {R(t)})
  /\ At(t, "handoff")
  /\ UNCHANGED <<recorderVars, listeners, handoff, inCharge, job, stuck>>

\* _watch_handoff(): its own outermost wrapper keeps a recorder from another, and a
\* session that refuses the attribute from any.
WatchHandoff(t) ==
  /\ pc[t] = "handoff"
  /\ handoff' = [handoff EXCEPT ![S(t)] =
                   IF S(t) \in Sealed \/ (@ # <<>> /\ @[1] = R(t)) THEN @ ELSE <<R(t)>> \o @]
  /\ At(t, "done")
  /\ UNCHANGED <<recorderVars, listeners, inCharge, untold, unheard, agentVars, job, stuck>>

\* Whether a recorder is told of the handoffs of a session.
Told(s, r) == s \notin Sealed /\ Wired(s, r)

\* session.update_agent() of a running session, wired or not yet, through every
\* wrapper: the innermost binds last.  What a frozen agent raises is swallowed.
UpdateAgent(s, a) ==
  /\ inCharge[s] \notin {None, a} /\ Available(a, s)
  /\ inCharge' = [inCharge EXCEPT ![s] = a]
  /\ untold' = [untold EXCEPT ![s] = {r \in Given(s) : ~Told(s, r)}]
  /\ IF handoff[s] = <<>> \/ a \in Frozen THEN UNCHANGED agentVars
     ELSE BindAgent(a, handoff[s][Len(handoff[s])], {handoff[s][i] : i \in DOMAIN handoff[s]})
  /\ SpeaksTo(a, vaani'[a], {r \in Recorders : Told(s, r)})
  /\ UNCHANGED <<recorderVars, listeners, handoff, threadVars>>

-------------------------------------------------------------------------------
(* finish() *)

Finish(t, r) ==
  /\ pc[t] = "idle"
  /\ job' = [job EXCEPT ![t].recorder = r]
  /\ At(t, "finish")
  /\ UNCHANGED <<recorderVars, sessionVars, agentVars, stuck>>

\* The call is claimed, and the list of what to unsubscribe taken, under the lock.
Claim(t) ==
  /\ pc[t] = "finish" /\ LockFree(R(t))
  /\ IF recording[R(t)]
     THEN /\ lock' = [lock EXCEPT ![R(t)] = t]
          /\ recording' = [recording EXCEPT ![R(t)] = FALSE]
          /\ job' = [job EXCEPT ![t].todo = attached[R(t)]]
          /\ attached' = [attached EXCEPT ![R(t)] = {}]
          /\ At(t, "detach")
     ELSE At(t, "done") /\ UNCHANGED <<lock, recording, attached, job>>
  /\ UNCHANGED <<finalized, sessionVars, agentVars, stuck>>

\* off() of one handler more; it may fail, or not be there.
Unsubscribe(t) ==
  /\ pc[t] = "detach"
  /\ \E p \in job[t].todo :
       /\ job' = [job EXCEPT ![t].todo = @ \ {p}]
       /\ \/ /\ listeners' = [listeners EXCEPT ![p[1]][<<R(t), p[2]>>] = 0]
             /\ UNCHANGED stuck
          \/ stuck' = stuck \cup {<<R(t), p>>} /\ UNCHANGED listeners
  /\ UNCHANGED <<recorderVars, handoff, inCharge, untold, unheard, agentVars, pc>>

Detached(t) ==
  /\ pc[t] = "detach" /\ job[t].todo = {} /\ Unlock(t)
  /\ At(t, "finalize")
  /\ UNCHANGED <<recording, attached, finalized, sessionVars, agentVars, job, stuck>>

\* The spans are closed and the call ended.
Finalize(t) ==
  /\ pc[t] = "finalize"
  /\ finalized' = [finalized EXCEPT ![R(t)] = @ + 1]
  /\ At(t, "done")
  /\ UNCHANGED <<recording, attached, lock, sessionVars, agentVars, job, stuck>>

Proceed(t) ==
  \/ Enter(t) \/ Subscribe(t) \/ Leave(t) \/ Bind(t) \/ WatchHandoff(t)
  \/ Claim(t) \/ Unsubscribe(t) \/ Detached(t) \/ Finalize(t)

Next ==
  \/ \E t \in Wirings, s \in Sessions, r \in Recorders, a \in Agents : Observe(t, s, r, a)
  \/ \E s \in Sessions, a \in Agents : UpdateAgent(s, a)
  \/ \E t \in Finishes, r \in Recorders : Finish(t, r)
  \/ \E t \in Threads : Proceed(t)

Spec == Init /\ [][Next]_vars

-------------------------------------------------------------------------------
(* Properties *)

Jobs == [recorder : Recorders \cup {None}, session : Sessions \cup {None},
         agent : Agents \cup {None}, todo : SUBSET (Events \cup (Sessions \X Events))]

Places == {"idle", "attach", "subscribe", "leave", "bind", "handoff",
           "finish", "detach", "finalize", "done"}

TypeOK ==
  /\ recording \in [Recorders -> BOOLEAN]
  /\ attached \in [Recorders -> SUBSET (Sessions \X Events)]
  /\ lock \in [Recorders -> Threads \cup {None}] /\ finalized \in [Recorders -> Nat]
  /\ listeners \in [Sessions -> [Recorders \X Events -> Nat]]
  /\ handoff \in [Sessions -> Seq(Recorders)]
  /\ inCharge \in [Sessions -> Agents \cup {None}]
  /\ untold \in [Sessions -> SUBSET Recorders]
  /\ unheard \in [Recorders -> BOOLEAN]
  /\ vaani \in [Agents -> Recorders \cup {None}] /\ watch \in [Agents -> Seq(Recorders)]
  /\ tapped \in [Recorders -> BOOLEAN] /\ missing \in [Recorders -> BOOLEAN]
  /\ pc \in [Threads -> Places] /\ job \in [Threads -> Jobs]
  /\ stuck \in SUBSET (Recorders \X (Sessions \X Events))

\* "Subscribing to the same session twice is a mistake a retry, a reconnect or a
\* second entry point makes for you": an event never reaches a recorder twice.
HandledOnce ==
  \A s \in Sessions : \A p \in Recorders \X Events : listeners[s][p] <= 1

\* A recording is finalized once, and nothing of it is left on any session but what
\* off() failed to take away, whoever was subscribing meanwhile.
FinishedLetsGo ==
  \A r \in Recorders :
    /\ finalized[r] <= 1
    /\ finalized[r] = 1 =>
         \A s \in Sessions, e \in Events :
           listeners[s][<<r, e>>] > 0 => <<r, <<s, e>>>> \in stuck

\* "So a replacement is never left uninstrumented": the agent in charge of a session
\* that one recorder records speaks into that recorder, which alone watches its
\* turns, whatever call the agent has served before.  The code cannot say so of an
\* agent that takes over before the recorder's wiring is through, or on a session
\* that does not take its wrapper.
AgentInChargeIsBound ==
  \A s \in Sessions, r \in Recorders :
    /\ recording[r] /\ Wired(s, r) /\ r \notin untold[s]
    /\ \A other \in Recorders \ {r} : Wired(s, other) => ~recording[other]
    /\ \A u \in Threads : ~(Wiring(u) /\ S(u) = s)
    => vaani[inCharge[s]] = r /\ watch[inCharge[s]] = <<r>>

\* What the audit certifies it has heard: a recording that ends without a word about
\* taps was spoken to, of the agents it was told of, by none that it could not hear,
\* in whatever order they came (note_audio_tap_installed, _audit_coverage).
CertifiedMeansHeard ==
  \A r \in Recorders :
    finalized[r] > 0 /\ tapped[r] /\ ~missing[r] => ~unheard[r]

\* What the code does not keep: that of a recording it would certify now, whoever is
\* in charge is heard, told or not.
CertifiableMeansHeard ==
  \A s \in Sessions, r \in Recorders :
    Wired(s, r) /\ recording[r] /\ tapped[r] /\ ~missing[r]
      => inCharge[s] \in Tapped /\ vaani[inCharge[s]] = r
===============================================================================

--------------------------- MODULE SocketObservation ---------------------------
(***************************************************************************)
(* websocket.py: the observation of provider sockets, and what a session   *)
(* does with the handles it owns.                                          *)
(*                                                                         *)
(* A socket's methods are wrapped in place, as attributes of the instance, *)
(* so an observation made while another's wrappers are there wraps those:  *)
(* `chain' lists the observations whose wrappers a frame runs through.  A  *)
(* socket may refuse attributes, or its receive be no coroutine: then such *)
(* frames run through nothing.  Frames and bytes are not counted; what     *)
(* matters is who counts them.                                             *)
(*                                                                         *)
(* Two threads touch a socket: the one whose loop it lives on, and the one *)
(* that ends the session.  _finish() tests `_closed', and the operation    *)
(* its `_done', without a lock: `finishing' holds those between the tests  *)
(* and the writes.                                                         *)
(***************************************************************************)
EXTENDS Patches, Sequences

CONSTANTS Sessions,
          ObserverOf,       \* session -> its observer
          Sockets,
          Slotted,          \* sockets that refuse attributes
          Unlisted,         \* the ones of these that no weak reference can be made to
          Uncounted,        \* socket -> the ways whose method is not wrapped: a receive
                            \* that is no coroutine function, a method of another name
          MaxObservations,  \* bound of the model
          MaxDetaches       \* how often the application detaches one handle

Ways == {"send", "receive"}

ASSUME SocketAssumption ==
  /\ ObserverOf \in [Sessions -> Observers]
  /\ Slotted \subseteq Sockets /\ Unlisted \subseteq Slotted
  /\ Uncounted \in [Sockets -> SUBSET Ways]
  /\ MaxObservations \in Nat /\ MaxDetaches \in Nat

Nothing == 0
Handles == 1..MaxObservations
Threads == {"socket", "end"}

VARIABLES
  phase,      \* per session: live, _ending, _ended
  owned,      \* per session: _open_sockets
  todo,       \* per session: what end() has yet to detach
  socket,     \* per socket: its connection and the call of connect that makes it
  chain,      \* per socket: handles whose wrappers are installed, outermost first
  marked,     \* _vaani_observed
  handles,    \* the WebSocketHandles made so far
  finishing   \* <<thread, handle>> in _finish(), past the tests

socketVars == <<phase, owned, todo, socket, chain, marked, handles, finishing>>

NewSocket == [state |-> "none", session |-> Nothing, wrapped |-> FALSE,
              promised |-> FALSE, register |-> Nothing]

SocketInit ==
  /\ phase = [x \in Sessions |-> "live"]
  /\ owned = [x \in Sessions |-> {}] /\ todo = [x \in Sessions |-> {}]
  /\ socket = [s \in Sockets |-> NewSocket]
  /\ chain = [s \in Sockets |-> <<>>] /\ marked = [s \in Sockets |-> FALSE]
  /\ handles = <<>> /\ finishing = {}

Open(s) == socket[s].state = "open"

Busy(thread) == \E f \in finishing : f[1] = thread

\* The socket's thread runs one thing at a time.
Idle == ~Busy("socket") /\ \A s \in Sockets : socket[s].register = Nothing

Past(thread, hs) ==
  finishing' = finishing \cup {<<thread, h>> : h \in {g \in hs : ~handles[g].closed}}

-------------------------------------------------------------------------------
(* observe_websocket() *)

\* Bug: a socket already observed is observed again.
AlreadyObservedNever(s) == FALSE

AlreadyObserved(s) == marked[s]

\* _install(): on a socket that refuses attributes nothing is wrapped.
InstallOn(s, h) == [chain EXCEPT ![s] = IF s \in Slotted THEN @ ELSE <<h>> \o @]

\* WebSocketHandle(...) and _mark_observed(): a session that has ended gives an
\* inert operation, but the socket is wrapped all the same.  What cannot be marked
\* is remembered in _OBSERVED, if it can be.
Attach(s, x, keeper) ==
  /\ handles' = Append(handles, [socket |-> s, session |-> x, keeper |-> keeper,
                                 below |-> chain[s], patched |-> s \notin Slotted,
                                 inert |-> phase[x] = "ended",
                                 closed |-> FALSE, written |-> 0, detached |-> 0])
  /\ chain' = InstallOn(s, Len(handles) + 1)
  /\ marked' = [marked EXCEPT ![s] = s \notin Unlisted]

\* The application, or the recorder's observe_socket(), hands the socket over.
Observe(s, x) ==
  /\ Idle /\ Open(s) /\ Constructed(ObserverOf[x])
  /\ ~AlreadyObserved(s) /\ Len(handles) < MaxObservations
  /\ Attach(s, x, "application")
  /\ UNCHANGED <<phase, owned, todo, socket, finishing>>

\* _ws_connect() is called: by its wrapper, if the class has one.
Connect(s, x) ==
  /\ Idle /\ socket[s].state = "none" /\ Constructed(ObserverOf[x])
  /\ socket' = [socket EXCEPT ![s] =
                  [state |-> "connecting", session |-> x, register |-> Nothing,
                   wrapped |-> layers["websocket"] > 0,
                   promised |-> Held(ObserverOf[x], "websocket")]]
  /\ UNCHANGED <<phase, owned, todo, chain, marked, handles, finishing>>

\* The connection is there; the wrapper observes it in the session of the context.
Connected(s) ==
  /\ Idle /\ socket[s].state = "connecting"
  /\ LET x == socket[s].session
     IN IF socket[s].wrapped /\ phase[x] # "ended"
        THEN /\ Len(handles) < MaxObservations
             /\ Attach(s, x, "session")
             /\ socket' = [socket EXCEPT ![s].state = "open",
                                         ![s].register = Len(handles) + 1]
        ELSE /\ socket' = [socket EXCEPT ![s].state = "open",
                                         ![s].promised = @ /\ phase[x] # "ended"]
             /\ UNCHANGED <<chain, marked, handles>>
  /\ UNCHANGED <<phase, owned, todo, finishing>>

-------------------------------------------------------------------------------
(* detach() *)

\* delattr() takes whatever wrapper is on the instance; when there is none, what
\* was there before the handle's own is put back.
Unwrapped(h) ==
  LET s == handles[h].socket
  IN IF ~handles[h].patched THEN chain
     ELSE [chain EXCEPT ![s] = IF @ # <<>> THEN <<>> ELSE handles[h].below]

\* Bug: nothing to do for a handle whose span has ended.
DetachUnlessClosed(h, thread) ==
  IF handles[h].closed
  THEN UNCHANGED <<chain, marked, finishing>> /\ handles' = [handles EXCEPT ![h].detached = @ + 1]
  ELSE /\ chain' = Unwrapped(h)
       /\ marked' = [marked EXCEPT ![handles[h].socket] = FALSE]
       /\ handles' = [handles EXCEPT ![h].patched = FALSE, ![h].detached = @ + 1]
       /\ Past(thread, {h})

Detach(h, thread) ==
  /\ chain' = Unwrapped(h)
  /\ marked' = [marked EXCEPT ![handles[h].socket] = FALSE]
  /\ handles' = [handles EXCEPT ![h].patched = FALSE, ![h].detached = @ + 1]
  /\ Past(thread, {h})

\* The wrapper of connect gives its handle to the session, or lets go of it.
Register(s) ==
  /\ ~Busy("socket") /\ socket[s].register # Nothing
  /\ LET h == socket[s].register
         x == socket[s].session
     IN IF phase[x] = "live"
        THEN owned' = [owned EXCEPT ![x] = @ \cup {h}]
             /\ UNCHANGED <<chain, marked, handles, finishing>>
        ELSE Detach(h, "socket") /\ UNCHANGED owned
  /\ socket' = [socket EXCEPT ![s].register = Nothing]
  /\ UNCHANGED <<phase, todo>>

\* Only whoever was given the handle: explicitly, by a with-block, or as the
\* recorder does when it finishes.
AppDetaches(h) ==
  /\ Idle /\ handles[h].keeper = "application" /\ handles[h].detached < MaxDetaches
  /\ Detach(h, "socket")
  /\ UNCHANGED <<phase, owned, todo, socket>>

-------------------------------------------------------------------------------
(* Frames, errors and closing *)

InChain(s) == {chain[s][i] : i \in DOMAIN chain[s]}

\* Sends and close() are wrapped whether they are coroutines or not, a receive only
\* if it is one.
Wrappable(s, way) == s \notin Slotted /\ way \notin Uncounted[s]

\* The observations whose wrappers a frame comes through.
Through(s, way) == IF Wrappable(s, way) THEN InChain(s) ELSE {}

\* A send or a receive raises, or is cancelled: every wrapper it comes through ends
\* its span, and leaves the socket wrapped and marked.  The socket may live on.
FrameFails(s, way) ==
  /\ Idle /\ Open(s)
  /\ Past("socket", Through(s, way))
  /\ UNCHANGED <<phase, owned, todo, socket, chain, marked, handles>>

\* The application closes the socket, or the peer does and no wrapper runs.
Close(s) ==
  /\ Idle /\ Open(s)
  /\ socket' = [socket EXCEPT ![s].state = "closed"]
  /\ Past("socket", InChain(s)) \/ UNCHANGED finishing
  /\ UNCHANGED <<phase, owned, todo, chain, marked, handles>>

\* The rest of _finish(): forget_socket(), and the span is written unless the
\* session has ended.
Finish(thread, h) ==
  /\ <<thread, h>> \in finishing
  /\ finishing' = finishing \ {<<thread, h>>}
  /\ owned' = [x \in Sessions |-> owned[x] \ {h}]
  /\ LET writes == ~handles[h].inert /\ phase[handles[h].session] # "ended"
     IN handles' = [handles EXCEPT ![h].closed = TRUE,
                                   ![h].written = IF writes THEN @ + 1 ELSE @]
  /\ UNCHANGED <<phase, todo, socket, chain, marked>>

-------------------------------------------------------------------------------
(* end() of a session, as far as its sockets go *)

MarkEnding(x) ==
  /\ phase[x] = "live" /\ Constructed(ObserverOf[x])
  /\ phase' = [phase EXCEPT ![x] = "ending"]
  /\ todo' = [todo EXCEPT ![x] = owned[x]] /\ owned' = [owned EXCEPT ![x] = {}]
  /\ UNCHANGED <<socket, chain, marked, handles, finishing>>

EndDetaches(x, h) ==
  /\ ~Busy("end") /\ h \in todo[x]
  /\ todo' = [todo EXCEPT ![x] = @ \ {h}]
  /\ Detach(h, "end")
  /\ UNCHANGED <<phase, owned, socket>>

SetEnded(x) ==
  /\ ~Busy("end") /\ phase[x] = "ending" /\ todo[x] = {}
  /\ phase' = [phase EXCEPT ![x] = "ended"]
  /\ UNCHANGED <<owned, todo, socket, chain, marked, handles, finishing>>

SocketNext ==
  \/ \E s \in Sockets :
       \/ Connected(s) \/ Register(s) \/ Close(s) \/ \E way \in Ways : FrameFails(s, way)
       \/ \E x \in Sessions : Connect(s, x) \/ Observe(s, x)
  \/ \E h \in DOMAIN handles :
       AppDetaches(h) \/ \E t \in Threads : Finish(t, h)
  \/ \E x \in Sessions :
       MarkEnding(x) \/ SetEnded(x) \/ \E h \in todo[x] : EndDetaches(x, h)

-------------------------------------------------------------------------------
(* Properties *)

SocketTypeOK ==
  /\ phase \in [Sessions -> {"live", "ending", "ended"}]
  /\ owned \in [Sessions -> SUBSET Handles] /\ todo \in [Sessions -> SUBSET Handles]
  /\ chain \in [Sockets -> Seq(Handles)] /\ marked \in [Sockets -> BOOLEAN]
  /\ Len(handles) <= MaxObservations
  /\ finishing \in SUBSET (Threads \X DOMAIN handles)

\* An observation whose span is open.
Counts(h) == ~handles[h].closed /\ ~handles[h].inert

\* A frame is counted once: it never comes through the wrappers of two observations
\* with an open span, and never past one that nobody has detached, in the ways the
\* socket can be wrapped in.  On a socket that refuses attributes, and on a receive
\* that is no coroutine, what the caller does not record itself is not counted.
FramesCountedOnce ==
  \A s \in Sockets, way \in Ways :
    LET on == {h \in DOMAIN handles : handles[h].socket = s /\ Counts(h)}
    IN /\ Cardinality(on \cap Through(s, way)) <= 1
       /\ Wrappable(s, way) => \A h \in on : handles[h].detached = 0 => h \in Through(s, way)

\* A socket everybody has let go of is its own again, and can be observed by a later
\* session: no wrapper is left on it, and no mark.
SocketReleased ==
  \A s \in Sockets :
    (\A h \in DOMAIN handles : handles[h].socket = s => handles[h].detached > 0)
      => chain[s] = <<>> /\ ~marked[s]

\* "A second call is ignored": no span is written twice.
SpanWrittenOnce == \A h \in DOMAIN handles : handles[h].written <= 1
===============================================================================

------------------------------ MODULE HttpCapture ------------------------------
(***************************************************************************)
(* instrumentation.py: a provider call through a wrapped HTTP client.      *)
(*                                                                         *)
(* A call belongs to the session of the caller's context.  httpx hands     *)
(* over an answer whose body it has or streams, and the span ends with it; *)
(* aiohttp answers before the body arrives, so a small one whose length is *)
(* declared is read first, inside the caller's own await.  Capturing the   *)
(* bodies' text, and their bounds, is left out.                            *)
(***************************************************************************)
EXTENDS Patches, Sequences

CONSTANTS Sessions,
          ObserverOf,  \* session -> its observer
          Calls

VARIABLES phase,  \* per session
          call    \* per call of send() or _request()

Over == {"returned", "raised"}
Statuses == {"ok", "error"}

NewCall == [state |-> "none", operations |-> 0, status |-> "none", written |-> <<>>,
            promised |-> FALSE, inTime |-> FALSE]

HttpInit == call = [c \in Calls |-> NewCall]

\* The wrappers there are when the client's method is looked up, each of which
\* begins an operation for a URL of ours; one on an ended session is inert.
Begun(x) == IF phase[x] = "ended" THEN 0 ELSE layers["http"]

Send(c, x) ==
  /\ call[c].state = "none" /\ Constructed(ObserverOf[x])
  /\ \E ours \in BOOLEAN :
       call' = [call EXCEPT ![c] =
         [state |-> "sent", session |-> x, status |-> "none", written |-> <<>>,
          operations |-> IF ours THEN Begun(x) ELSE 0, inTime |-> FALSE,
          promised |-> ours /\ Held(ObserverOf[x], "http") /\ phase[x] # "ended"]]
  /\ UNCHANGED phase

\* operation.end() of every wrapper, and the call is over: nothing is written for a
\* session that has ended meanwhile.
Conclude(c, state, status) ==
  LET live == phase[call[c].session] # "ended"
  IN call' = [call EXCEPT ![c].state = state, ![c].status = status, ![c].inTime = live,
                          ![c].written = [i \in 1..(IF live THEN call[c].operations ELSE 0)
                                            |-> status]]

\* A transport error, or the caller's task is cancelled: re-raised.
Raises(c) ==
  /\ call[c].state = "sent"
  /\ Conclude(c, "raised", "error")
  /\ UNCHANGED phase

Answered(c) ==
  /\ call[c].state = "sent"
  /\ \E status \in Statuses :
       \/ Conclude(c, "returned", status)
       \/ call[c].operations > 0 /\ call' = [call EXCEPT ![c].state = "reading",
                                                         ![c].status = status]
  /\ UNCHANGED phase

\* Bug: a read that is cancelled leaves the wrapper with its operation open.
BodyReadEscapes(c, outcome) ==
  IF outcome = "read" THEN Conclude(c, "returned", call[c].status)
  ELSE call' = [call EXCEPT ![c].state = "raised",
                            ![c].inTime = phase[call[c].session] # "ended"]

\* _safe_await(): whatever becomes of the read, a cancellation included, the caller
\* gets its answer and the span the status of the answer.
BodyRead(c, outcome) == Conclude(c, "returned", call[c].status)

ReadsBody(c) ==
  /\ call[c].state = "reading"
  /\ \E outcome \in {"read", "failed", "cancelled"} : BodyRead(c, outcome)
  /\ UNCHANGED phase

HttpNext ==
  \E c \in Calls :
    Raises(c) \/ Answered(c) \/ ReadsBody(c) \/ \E x \in Sessions : Send(c, x)

\* A call that ends before its session does, through a client wrapped for its
\* observer, has one span, of the status the caller saw; no call has more.
CallRecordedOnce ==
  \A c \in Calls :
    /\ Len(call[c].written) <= 1
    /\ call[c].state \in Over /\ call[c].promised /\ call[c].inTime
         => call[c].written = <<call[c].status>>
===============================================================================

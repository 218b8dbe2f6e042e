-------------------------------- MODULE Upload --------------------------------
(***************************************************************************)
(* upload_package_sync() and _send() of observer.py: create the session,   *)
(* put each object that is on disk, complete, every request retried and    *)
(* all of them under one deadline.                                         *)
(*                                                                         *)
(* Time is counted in whole units.  A body of size s takes s of them at    *)
(* the throughput floor of the options.  The network and the backend are   *)
(* external: a request may be lost, be answered and the answer lost, or    *)
(* arrive when the client has long retried or given up.                    *)
(***************************************************************************)
EXTENDS Integers, Sequences

CONSTANTS Objects,     \* PACKAGE_OBJECTS
          Size,        \* object -> its size
          Packed,      \* object -> its size under gzip
          Large,       \* objects of _COMPRESS_MIN_BYTES and more
          Handshake,   \* upload.timeout_s
          Retries,     \* upload.retries
          MinBudget,   \* _COMPRESS_MIN_BUDGET_S
          Budgets,     \* the deadlines callers give, Unlimited for none
          Unlimited,
          MaxPack,     \* bound of the model: time that gzip takes
          MaxPause,    \* bound of the model: one backoff
          MaxOverrun,  \* bound of the model: how long an answer may trickle
          MaxUploads,  \* bound of the model: uploads of the one package
          NotYet

AllObjects == {Objects[i] : i \in DOMAIN Objects}
Last == Len(Objects) + 1

ASSUME UploadAssumption ==
  /\ Objects \in Seq(AllObjects)
  /\ \A i, j \in DOMAIN Objects : Objects[i] = Objects[j] => i = j
  /\ Size \in [AllObjects -> Nat] /\ Packed \in [AllObjects -> Nat]
  /\ Budgets \subseteq Nat \cup {Unlimited} /\ Unlimited \notin Nat
  /\ Handshake \in Nat /\ Retries \in Nat /\ MinBudget \in Nat
  /\ MaxPack \in Nat /\ MaxPack <= MinBudget
  /\ MaxPause \in Nat /\ MaxOverrun \in Nat /\ MaxUploads \in Nat \ {0}
  /\ \A objects \in SUBSET AllObjects : NotYet # objects

VARIABLES
  onDisk,     \* the objects of the package: a call may have no audio
  decodes,    \* the backend stores what a gzip body expands to
  pc,
  leg,        \* 0 creates, i puts Objects[i], Last completes
  attempt, encoding,
  allowGzip, urls,  \* what the creation answered
  claimed,    \* `objects`, what the completion will name
  budget, elapsed,
  uploads,
  stored, completed,  \* the backend's
  late,       \* requests the client no longer waits for
  overran     \* history: an answer took longer than its timeout

packageVars == <<onDisk, decodes>>
sendVars == <<leg, attempt, encoding>>
learnedVars == <<allowGzip, urls, claimed>>
clockVars == <<budget, elapsed, overran>>
backendVars == <<stored, completed>>
vars == <<packageVars, pc, sendVars, learnedVars, clockVars, uploads, backendVars, late>>

Start(b) ==
  /\ pc' = "leg" /\ leg' = 0 /\ attempt' = 0 /\ encoding' = "raw"
  /\ allowGzip' = FALSE /\ urls' = {} /\ claimed' = {}
  /\ budget' = b /\ elapsed' = 0 /\ overran' = FALSE

Init ==
  /\ onDisk \in SUBSET AllObjects /\ decodes \in BOOLEAN
  /\ pc = "leg" /\ leg = 0 /\ attempt = 0 /\ encoding = "raw"
  /\ allowGzip = FALSE /\ urls = {} /\ claimed = {}
  /\ budget \in Budgets /\ elapsed = 0 /\ overran = FALSE
  /\ uploads = 1
  /\ stored = [o \in AllObjects |-> "none"] /\ completed = NotYet
  /\ late = {}

-------------------------------------------------------------------------------
(* The clock *)

Limited == budget # Unlimited
Remaining == budget - elapsed
Spent == Limited /\ elapsed >= budget

\* Time matters to the client only under a deadline.
Pass(d) == elapsed' = IF Limited THEN elapsed + d ELSE elapsed

BodySize == IF leg \notin 1..Len(Objects) THEN 0
            ELSE IF encoding = "gzip" THEN Packed[Objects[leg]] ELSE Size[Objects[leg]]

\* _request_timeout()
PerRequest == Handshake + BodySize

\* Bug: each request has its own timeout, whatever is left of the budget.
TimeoutPerRequest == PerRequest

Timeout == IF Limited /\ Remaining < PerRequest THEN Remaining ELSE PerRequest

-------------------------------------------------------------------------------
(* A leg is opened: what is sent, and how *)

Object == Objects[leg]

Skip ==
  /\ pc = "leg" /\ leg \in 1..Len(Objects) /\ Object \notin onDisk
  /\ leg' = leg + 1
  /\ UNCHANGED <<packageVars, pc, attempt, encoding, learnedVars, clockVars,
                 uploads, backendVars, late>>

NoUrl ==
  /\ pc = "leg" /\ leg \in 1..Len(Objects) /\ Object \in onDisk \ urls
  /\ pc' = "failed"
  /\ UNCHANGED <<packageVars, sendVars, learnedVars, clockVars, uploads, backendVars,
                 late>>

\* Bug: compressed because it pays, whether or not the backend can tell.
MayPackAnyway == Object \in Large /\ (Limited => Remaining >= MinBudget)

MayPack == allowGzip /\ Object \in Large /\ (Limited => Remaining >= MinBudget)

\* _encode_object(): gzip is tried, and kept if it saves anything.
Encode ==
  /\ pc = "leg" /\ leg \in 1..Len(Objects) /\ Object \in onDisk \cap urls
  /\ IF MayPack
     THEN /\ encoding' = IF Packed[Object] < Size[Object] THEN "gzip" ELSE "raw"
          /\ \E d \in 0..MaxPack : Pass(d)
     ELSE encoding' = "raw" /\ UNCHANGED elapsed
  /\ attempt' = 0 /\ pc' = "attempt"
  /\ UNCHANGED <<packageVars, leg, learnedVars, budget, overran, uploads, backendVars,
                 late>>

Prepare ==
  /\ pc = "leg" /\ leg \in {0, Last}
  /\ encoding' = "raw" /\ attempt' = 0 /\ pc' = "attempt"
  /\ UNCHANGED <<packageVars, leg, learnedVars, clockVars, uploads, backendVars, late>>

-------------------------------------------------------------------------------
(* The backend *)

Request == [leg |-> leg, encoding |-> encoding, claims |-> claimed]

Verifies(r) == \A o \in r.claims : stored[o] = "whole"

\* A compressed body is stored verbatim by a backend that does not decompress; a
\* completion is taken when every object it names has the digest it names.
Handle(r) ==
  /\ stored' = IF r.leg \in 1..Len(Objects)
               THEN [stored EXCEPT ![Objects[r.leg]] =
                       IF r.encoding = "gzip" /\ ~decodes THEN "garbled" ELSE "whole"]
               ELSE stored
  /\ completed' = IF r.leg = Last /\ Verifies(r) THEN r.claims ELSE completed

Arrive ==
  \E r \in late :
    /\ Handle(r)
    /\ late' = late \ {r}
    /\ UNCHANGED <<packageVars, pc, sendVars, learnedVars, clockVars, uploads>>

-------------------------------------------------------------------------------
(* _send() *)

\* The budget is looked at before every attempt.
OutOfBudget ==
  /\ pc = "attempt" /\ Spent
  /\ pc' = "failed"
  /\ UNCHANGED <<packageVars, sendVars, learnedVars, clockVars, uploads, backendVars,
                 late>>

Send ==
  /\ pc = "attempt" /\ ~Spent
  /\ pc' = "flight"
  /\ UNCHANGED <<packageVars, sendVars, learnedVars, clockVars, uploads, backendVars,
                 late>>

\* The timeout bounds each socket operation, not an answer that trickles in.
AnswerTakes(d) == Pass(d) /\ overran' = (overran \/ d > Timeout)

\* What a 2xx teaches, and where it leads; creation names an URL for each object it
\* wants and says whether gzip is taken.
NextLeg ==
  /\ IF leg = 0
     THEN urls' \in SUBSET AllObjects /\ allowGzip' \in {FALSE, decodes} /\ UNCHANGED claimed
     ELSE /\ claimed' = IF leg = Last THEN claimed ELSE claimed \cup {Object}
          /\ UNCHANGED <<urls, allowGzip>>
  /\ IF leg = Last THEN pc' = "ok" /\ UNCHANGED leg
                   ELSE pc' = "leg" /\ leg' = leg + 1

Succeed ==
  /\ pc = "flight" /\ (leg = Last => Verifies(Request))
  /\ Handle(Request)
  /\ \E d \in 0..(Timeout + MaxOverrun) : AnswerTakes(d)
  /\ NextLeg
  /\ UNCHANGED <<packageVars, attempt, encoding, budget, uploads, late>>

\* A permanent status, or a 2xx whose body cannot be read.
Refuse ==
  /\ pc = "flight"
  /\ \/ UNCHANGED backendVars
     \/ leg \in {0, Last} /\ Handle(Request)
  /\ \E d \in 0..(Timeout + MaxOverrun) : AnswerTakes(d)
  /\ pc' = "failed"
  /\ UNCHANGED <<packageVars, sendVars, learnedVars, budget, uploads, late>>

\* Bug: an object that cannot be put is passed over.
GiveUpOnObject ==
  IF leg \in 1..Len(Objects) THEN pc' = "leg" /\ leg' = leg + 1
                             ELSE pc' = "failed" /\ UNCHANGED leg

GiveUp == pc' = "failed" /\ UNCHANGED leg

\* A transport error, a timeout or a retryable status; the backend may have handled
\* the request, or will, or not.
Fault ==
  /\ pc = "flight"
  /\ \/ Handle(Request) /\ UNCHANGED late
     \/ late' = late \cup {Request} /\ UNCHANGED backendVars
     \/ UNCHANGED <<backendVars, late>>
  /\ \E d \in 0..(Timeout + MaxOverrun) : AnswerTakes(d)
  /\ IF attempt < Retries THEN pc' = "pause" /\ UNCHANGED leg ELSE GiveUp
  /\ UNCHANGED <<packageVars, attempt, encoding, learnedVars, budget, uploads>>

\* Bug: the attempts are not counted.
NextAttemptStays == attempt

NextAttempt == attempt + 1

\* Exponential backoff with jitter, no longer than what is left.
Pause ==
  /\ pc = "pause"
  /\ \E d \in 0..MaxPause : (Limited => d = 0 \/ d <= Remaining) /\ Pass(d)
  /\ attempt' = NextAttempt /\ pc' = "attempt"
  /\ UNCHANGED <<packageVars, leg, encoding, learnedVars, budget, overran, uploads,
                 backendVars, late>>

\* The caller, or a drain, ships the same package again.
Again ==
  /\ pc = "failed" /\ uploads < MaxUploads
  /\ uploads' = uploads + 1
  /\ \E b \in Budgets : Start(b)
  /\ UNCHANGED <<packageVars, backendVars, late>>

Client ==
  \/ Skip \/ NoUrl \/ Encode \/ Prepare \/ OutOfBudget \/ Send
  \/ Succeed \/ Refuse \/ Fault \/ Pause

Next == Client \/ Arrive \/ Again

(***************************************************************************)
(* Fairness.  Every request ends: urlopen has a timeout, and an answer     *)
(* trickles for no longer than MaxOverrun.  Nothing is asked of the        *)
(* network, nor of whoever ships again.                                    *)
(***************************************************************************)
Spec == Init /\ [][Next]_vars /\ WF_vars(Client)

-------------------------------------------------------------------------------
(* Properties *)

Requests == [leg : 0..Last, encoding : {"raw", "gzip"}, claims : SUBSET AllObjects]

TypeOK ==
  /\ onDisk \in SUBSET AllObjects /\ decodes \in BOOLEAN
  /\ pc \in {"leg", "attempt", "flight", "pause", "ok", "failed"}
  /\ leg \in 0..Last /\ attempt \in 0..Retries /\ encoding \in {"raw", "gzip"}
  /\ allowGzip \in BOOLEAN /\ urls \in SUBSET AllObjects /\ claimed \in SUBSET AllObjects
  /\ budget \in Budgets /\ elapsed \in Nat /\ overran \in BOOLEAN
  /\ uploads \in 1..MaxUploads
  /\ stored \in [AllObjects -> {"none", "whole", "garbled"}]
  /\ completed = NotYet \/ completed \in SUBSET AllObjects
  /\ late \in SUBSET Requests

\* However the retries, the backoff, the compression and the sizes fall, an upload
\* with a deadline is over when it strikes, unless an answer outlived its timeout.
OverByTheDeadline == Limited /\ ~overran => elapsed <= budget

\* A backend that has not said it decompresses is never left with a compressed
\* object: neither by a retry nor by a request that arrives late.
NothingGarbled == \A o \in AllObjects : stored[o] # "garbled"

\* Every upload ends, delivered or not.
Ended == pc \in {"ok", "failed"}
EveryUploadEnds == ~Ended ~> Ended

\* The promise its callers rely on: an answer means the backend has completed the
\* session with everything on disk, and no upload completes it with less.
Verdict == CASE pc = "ok" -> "delivered" [] pc = "failed" -> "failed" [] OTHER -> "pending"

Promise == INSTANCE UploadPromise WITH
  Nothing <- NotYet, everything <- onDisk, kept <- completed, verdict <- Verdict

ImplementsUploadPromise == Promise!Spec
===============================================================================

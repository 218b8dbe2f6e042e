----------------------------- MODULE UploadProofs -----------------------------
(***************************************************************************)
(* Proofs about an upload, for any objects of any size, any number of      *)
(* retries and of uploads of one package, and any budget.                  *)
(***************************************************************************)
EXTENDS Upload, TLAPS

\* What the steps use of the constants.
LEMMA Constants ==
  /\ Len(Objects) \in Nat /\ DOMAIN Objects = 1..Len(Objects)
  /\ \A i \in 1..Len(Objects) :
       /\ Objects[i] \in AllObjects
       /\ Size[Objects[i]] \in Nat /\ Packed[Objects[i]] \in Nat
  /\ Last = Len(Objects) + 1
<1>1. Objects \in Seq(AllObjects)
  BY UploadAssumption DEF UploadAssumption
<1>2. Len(Objects) \in Nat /\ DOMAIN Objects = 1..Len(Objects)
  BY <1>1
<1>3. ASSUME NEW i \in 1..Len(Objects)
      PROVE  /\ Objects[i] \in AllObjects
             /\ Size[Objects[i]] \in Nat /\ Packed[Objects[i]] \in Nat
  <2>1. Objects[i] \in AllObjects
    BY <1>2 DEF AllObjects
  <2>2. QED BY <2>1, UploadAssumption DEF UploadAssumption
<1>4. QED BY <1>2, <1>3 DEF Last

\* What is on the wire, or may still be, is an object that is on disk.
PutsOnDisk ==
  pc \in {"attempt", "flight", "pause"} /\ leg \in 1..Len(Objects) => Objects[leg] \in onDisk

\* Nothing compressed is sent to a backend that does not decompress.
GzipInv ==
  /\ allowGzip => decodes
  /\ encoding = "gzip" => decodes
  /\ \A r \in late : r.encoding = "gzip" => decodes
  /\ NothingGarbled

\* The objects put so far are those of the legs behind: the completion names all
\* that was on disk, and whatever it names is at the backend.
Behind == {o \in onDisk : \E i \in 1..Len(Objects) : i < leg /\ Objects[i] = o}

ClaimInv ==
  /\ PutsOnDisk
  /\ claimed = Behind
  /\ \A r \in late : r.leg = Last => r.claims = onDisk
  /\ completed \in {NotYet, onDisk}
  /\ pc = "ok" => completed = onDisk

\* A request starts within the budget.
ClockInv == OverByTheDeadline /\ (pc = "flight" /\ Limited => elapsed < budget)

\* A pause is followed by another attempt.
PauseInv == pc = "pause" => attempt < Retries

IInv == TypeOK /\ PauseInv /\ GzipInv /\ ClaimInv /\ ClockInv

LEMMA InitIInv == Init => IInv
<1> SUFFICES ASSUME Init PROVE IInv
  OBVIOUS
<1> USE DEF Init
<1>a. Last \in Nat /\ 0 \in 0..Last
  BY Constants
<1>1. TypeOK
  <2>1. budget \in Budgets /\ elapsed \in Nat
    OBVIOUS
  <2>2. uploads \in 1..MaxUploads /\ attempt \in 0..Retries
    BY UploadAssumption DEF UploadAssumption
  <2>3. /\ urls \in SUBSET AllObjects /\ claimed \in SUBSET AllObjects
        /\ stored \in [AllObjects -> {"none", "whole", "garbled"}]
        /\ late \in SUBSET Requests
    OBVIOUS
  <2>4. QED BY <1>a, <2>1, <2>2, <2>3 DEF TypeOK
<1>2. GzipInv
  BY DEF GzipInv, NothingGarbled
<1>3. ClaimInv
  BY Constants DEF ClaimInv, Behind, PutsOnDisk
<1>4. ClockInv
  BY UploadAssumption DEF ClockInv, OverByTheDeadline, Limited, UploadAssumption
<1>5. QED BY <1>1, <1>2, <1>3, <1>4 DEF IInv, PauseInv

-------------------------------------------------------------------------------
(* Types *)

\* A request never waits for a negative or fractional time.
LEMMA TimeoutType ==
  ASSUME TypeOK, pc = "flight" /\ Limited => elapsed < budget
  PROVE  /\ Timeout \in Int /\ (pc = "flight" => Timeout \in Nat)
         /\ Limited => budget \in Nat /\ Timeout <= budget - elapsed
<1> USE UploadAssumption DEF UploadAssumption, TypeOK
<1>1. BodySize \in Nat
  BY Constants DEF BodySize
<1>2. PerRequest \in Nat
  BY <1>1 DEF PerRequest
<1>3. Limited => budget \in Nat
  BY DEF Limited
<1>4. QED BY <1>2, <1>3 DEF Timeout, Remaining, Limited

LEMMA PassType ==
  ASSUME TypeOK, NEW d \in Nat, Pass(d)
  PROVE  elapsed' \in Nat
  BY DEF Pass, TypeOK

LEMMA AnswerType ==
  ASSUME TypeOK, ClockInv, pc = "flight", \E d \in 0..(Timeout + MaxOverrun) : AnswerTakes(d)
  PROVE  /\ elapsed' \in Nat /\ overran' \in BOOLEAN
         /\ Limited /\ ~overran' => ~overran /\ elapsed' <= budget
<1>1. PICK d \in 0..(Timeout + MaxOverrun) : AnswerTakes(d)
  OBVIOUS
<1>2. Timeout \in Nat /\ d \in Nat /\ (Limited => budget \in Nat /\ Timeout <= budget - elapsed)
  BY TimeoutType, UploadAssumption DEF UploadAssumption, ClockInv
<1>3. elapsed' \in Nat /\ overran' \in BOOLEAN
  BY <1>1, <1>2, PassType DEF AnswerTakes, TypeOK
<1>4. ASSUME Limited, ~overran' PROVE ~overran /\ elapsed' <= budget
  <2>1. ~(overran \/ d > Timeout) /\ elapsed' = elapsed + d
    BY <1>1, <1>4, Zenon DEF AnswerTakes, Pass
  <2>2. QED BY <2>1, <1>2, <1>4 DEF TypeOK
<1>5. QED BY <1>3, <1>4

LEMMA HandleType ==
  ASSUME TypeOK, NEW r \in Requests, Handle(r)
  PROVE  /\ stored' \in [AllObjects -> {"none", "whole", "garbled"}]
         /\ completed' = NotYet \/ completed' \in SUBSET AllObjects
<1>1. stored' \in [AllObjects -> {"none", "whole", "garbled"}]
  <2>1. CASE r.leg \in 1..Len(Objects)
    <3> DEFINE what == IF r.encoding = "gzip" /\ ~decodes THEN "garbled" ELSE "whole"
    <3>1. stored' = [stored EXCEPT ![Objects[r.leg]] = what]
      BY <2>1 DEF Handle
    <3>2. QED BY <3>1 DEF TypeOK
  <2>2. CASE r.leg \notin 1..Len(Objects)
    BY <2>2 DEF Handle, TypeOK
  <2>3. QED BY <2>1, <2>2
<1>2. QED BY <1>1 DEF Handle, TypeOK, Requests

LEMMA RequestType == TypeOK => Request \in Requests
  BY DEF TypeOK, Request, Requests

LEMMA TypeStep == TypeOK /\ PauseInv /\ ClockInv /\ [Next]_vars => TypeOK'
<1> SUFFICES ASSUME TypeOK, PauseInv, ClockInv, [Next]_vars PROVE TypeOK'
  OBVIOUS
<1> USE DEF packageVars, sendVars, learnedVars, clockVars, backendVars
<1>c. Last \in Nat /\ Last = Len(Objects) + 1 /\ Len(Objects) \in Nat
  BY Constants
<1>1. CASE Skip
  BY <1>1, <1>c DEF Skip, TypeOK
<1>2. CASE NoUrl
  BY <1>2 DEF NoUrl, TypeOK
<1>3. CASE Encode
  <2>1. elapsed' \in Nat
    <3>1. CASE MayPack
      <4>1. PICK d \in 0..MaxPack : Pass(d)
        BY <1>3, <3>1 DEF Encode
      <4>2. QED BY <4>1, PassType, UploadAssumption DEF UploadAssumption
    <3>2. CASE ~MayPack
      BY <1>3, <3>2 DEF Encode, TypeOK
    <3>3. QED BY <3>1, <3>2
  <2>2. attempt' \in 0..Retries /\ encoding' \in {"raw", "gzip"}
    <3>1. attempt' = 0 /\ 0 \in 0..Retries
      BY <1>3, UploadAssumption DEF Encode, UploadAssumption
    <3>2. encoding' \in {"raw", "gzip"}
      BY <1>3 DEF Encode
    <3>3. QED BY <3>1, <3>2
  <2>3. QED BY <1>3, <2>1, <2>2 DEF Encode, TypeOK
<1>4. CASE Prepare
  BY <1>4, UploadAssumption DEF Prepare, TypeOK, UploadAssumption
<1>5. CASE OutOfBudget
  BY <1>5 DEF OutOfBudget, TypeOK
<1>6. CASE Send
  BY <1>6 DEF Send, TypeOK
<1>7. CASE Succeed
  <2>1. elapsed' \in Nat /\ overran' \in BOOLEAN
    BY <1>7, AnswerType DEF Succeed
  <2>2. /\ stored' \in [AllObjects -> {"none", "whole", "garbled"}]
        /\ completed' = NotYet \/ completed' \in SUBSET AllObjects
    BY <1>7, HandleType, RequestType DEF Succeed
  <2>3. /\ pc' \in {"leg", "ok"} /\ leg' \in 0..Last
        /\ urls' \in SUBSET AllObjects /\ allowGzip' \in BOOLEAN
    <3>1. urls' \in SUBSET AllObjects /\ allowGzip' \in BOOLEAN
      BY <1>7 DEF Succeed, NextLeg, TypeOK
    <3>2. pc' \in {"leg", "ok"} /\ ((leg' = leg /\ leg = Last) \/ (leg # Last /\ leg' = leg + 1))
      BY <1>7 DEF Succeed, NextLeg
    <3>3. leg' \in 0..Last
      BY <3>2, <1>c DEF TypeOK
    <3>4. QED BY <3>1, <3>2, <3>3
  <2>4. claimed' \in SUBSET AllObjects
    <3>1. leg \in 1..Len(Objects) => Object \in AllObjects
      BY Constants DEF Object
    <3>2. leg = 0 \/ leg = Last \/ leg \in 1..Len(Objects)
      BY <1>c DEF TypeOK
    <3>3. QED BY <1>7, <3>1, <3>2 DEF Succeed, NextLeg, TypeOK
  <2>5. QED BY <1>7, <2>1, <2>2, <2>3, <2>4 DEF Succeed, TypeOK
<1>8. CASE Refuse
  <2>1. elapsed' \in Nat /\ overran' \in BOOLEAN
    BY <1>8, AnswerType DEF Refuse
  <2>2. /\ stored' \in [AllObjects -> {"none", "whole", "garbled"}]
        /\ completed' = NotYet \/ completed' \in SUBSET AllObjects
    BY <1>8, HandleType, RequestType DEF Refuse, TypeOK
  <2>3. QED BY <1>8, <2>1, <2>2 DEF Refuse, TypeOK
<1>9. CASE Fault
  <2>1. elapsed' \in Nat /\ overran' \in BOOLEAN
    BY <1>9, AnswerType DEF Fault
  <2>2. /\ stored' \in [AllObjects -> {"none", "whole", "garbled"}]
        /\ completed' = NotYet \/ completed' \in SUBSET AllObjects
    BY <1>9, HandleType, RequestType DEF Fault, TypeOK
  <2>3. late' \in SUBSET Requests
    BY <1>9, RequestType DEF Fault, TypeOK
  <2>4. pc' \in {"pause", "failed"} /\ leg' = leg
    BY <1>9 DEF Fault, GiveUp
  <2>5. QED BY <1>9, <2>1, <2>2, <2>3, <2>4 DEF Fault, TypeOK
<1>10. CASE Pause
  <2>1. elapsed' \in Nat
    <3>1. PICK d \in 0..MaxPause : Pass(d)
      BY <1>10 DEF Pause
    <3>2. QED BY <3>1, PassType, UploadAssumption DEF UploadAssumption
  <2>2. attempt' \in 0..Retries
    BY <1>10, UploadAssumption DEF Pause, NextAttempt, TypeOK, PauseInv, UploadAssumption
  <2>3. QED BY <1>10, <2>1, <2>2 DEF Pause, TypeOK
<1>11. CASE Arrive
  <2>1. PICK r \in late : Handle(r) /\ late' = late \ {r}
    BY <1>11 DEF Arrive
  <2>2. r \in Requests
    BY <2>1 DEF TypeOK
  <2>3. /\ stored' \in [AllObjects -> {"none", "whole", "garbled"}]
        /\ completed' = NotYet \/ completed' \in SUBSET AllObjects
    BY <2>1, <2>2, HandleType
  <2>4. QED BY <1>11, <2>1, <2>3 DEF Arrive, TypeOK
<1>12. CASE Again
  <2>1. uploads' \in 1..MaxUploads
    BY <1>12, UploadAssumption DEF Again, TypeOK, UploadAssumption
  <2>2. attempt' \in 0..Retries /\ leg' \in 0..Last /\ budget' \in Budgets /\ elapsed' \in Nat
    BY <1>12, <1>c, UploadAssumption DEF Again, Start, UploadAssumption
  <2>3. QED BY <1>12, <2>1, <2>2 DEF Again, Start, TypeOK
<1>13. CASE UNCHANGED vars
  BY <1>13 DEF vars, TypeOK
<1>14. QED BY <1>1, <1>2, <1>3, <1>4, <1>5, <1>6, <1>7, <1>8, <1>9, <1>10, <1>11, <1>12,
              <1>13 DEF Next, Client

-------------------------------------------------------------------------------
(* The clock, and what is compressed *)

LEMMA PauseStep == TypeOK /\ PauseInv /\ [Next]_vars => PauseInv'
<1> SUFFICES ASSUME TypeOK, PauseInv, [Next]_vars, pc' = "pause" PROVE attempt' < Retries'
  BY DEF PauseInv
<1>1. CASE Fault
  BY <1>1 DEF Fault, GiveUp
<1>2. CASE Arrive \/ UNCHANGED vars
  BY <1>2 DEF Arrive, vars, sendVars, PauseInv
<1>3. ~(Skip \/ NoUrl \/ Encode \/ Prepare \/ OutOfBudget \/ Send \/ Succeed \/ Refuse \/ Pause
         \/ Again)
  BY DEF Skip, NoUrl, Encode, Prepare, OutOfBudget, Send, Succeed, NextLeg, Refuse, Pause,
         Again, Start
<1>4. QED BY <1>1, <1>2, <1>3 DEF Next, Client

LEMMA ClockStep == TypeOK /\ ClockInv /\ [Next]_vars => ClockInv'
<1> SUFFICES ASSUME TypeOK, ClockInv, [Next]_vars PROVE ClockInv'
  OBVIOUS
<1> USE DEF clockVars
<1>b. Limited => budget \in Nat
  BY UploadAssumption DEF Limited, TypeOK, UploadAssumption
<1>1. CASE Succeed \/ Refuse \/ Fault
  <2>1. pc = "flight" /\ pc' # "flight" /\ budget' = budget
    BY <1>1 DEF Succeed, Refuse, Fault, GiveUp, NextLeg
  <2>2. \E d \in 0..(Timeout + MaxOverrun) : AnswerTakes(d)
    BY <1>1 DEF Succeed, Refuse, Fault
  <2>3. Limited /\ ~overran' => elapsed' <= budget
    BY <2>1, <2>2, AnswerType
  <2>4. QED BY <2>1, <2>3 DEF ClockInv, OverByTheDeadline, Limited
<1>2. CASE Encode
  <2>1. pc' # "flight" /\ budget' = budget /\ overran' = overran
    BY <1>2 DEF Encode
  <2>2. ASSUME Limited, MayPack PROVE elapsed' <= budget
    <3>1. PICK d \in 0..MaxPack : elapsed' = elapsed + d
      BY <1>2, <2>2 DEF Encode, Pass
    <3>2. budget - elapsed >= MinBudget
      BY <2>2 DEF MayPack, Remaining
    <3>3. QED BY <3>1, <3>2, <2>2, <1>b, UploadAssumption DEF TypeOK, UploadAssumption
  <2>3. ~MayPack => elapsed' = elapsed
    BY <1>2 DEF Encode
  <2>4. QED BY <2>1, <2>2, <2>3 DEF ClockInv, OverByTheDeadline, Limited
<1>3. CASE Pause
  <2>1. pc' # "flight" /\ budget' = budget /\ overran' = overran
    BY <1>3 DEF Pause
  <2>2. ASSUME Limited, ~overran PROVE elapsed' <= budget
    <3>1. PICK d \in 0..MaxPause : (d = 0 \/ d <= budget - elapsed) /\ elapsed' = elapsed + d
      BY <1>3, <2>2 DEF Pause, Pass, Remaining
    <3>2. elapsed <= budget /\ d \in Nat
      BY <2>2, UploadAssumption DEF ClockInv, OverByTheDeadline, UploadAssumption
    <3>3. QED BY <3>1, <3>2, <2>2, <1>b DEF TypeOK
  <2>3. QED BY <2>1, <2>2 DEF ClockInv, OverByTheDeadline, Limited
<1>4. CASE Send
  <2>1. Limited => elapsed < budget
    BY <1>4, <1>b DEF Send, Spent, TypeOK
  <2>2. QED BY <1>4, <2>1 DEF Send, ClockInv, OverByTheDeadline, Limited
<1>5. CASE Again
  <2>1. pc' # "flight" /\ budget' \in Budgets /\ elapsed' = 0
    BY <1>5 DEF Again, Start
  <2>2. QED BY <2>1, UploadAssumption DEF ClockInv, OverByTheDeadline, Limited, UploadAssumption
<1>6. CASE Skip \/ NoUrl \/ Prepare \/ OutOfBudget
  BY <1>6 DEF Skip, NoUrl, Prepare, OutOfBudget, ClockInv, OverByTheDeadline, Limited
<1>7. CASE Arrive \/ UNCHANGED vars
  BY <1>7 DEF Arrive, vars, ClockInv, OverByTheDeadline, Limited
<1>8. QED BY <1>1, <1>2, <1>3, <1>4, <1>5, <1>6, <1>7 DEF Next, Client

\* What a backend that handles r stores, if r honours what it said of compression.
LEMMA HandleStores ==
  ASSUME TypeOK, NEW r \in Requests, Handle(r), r.encoding = "gzip" => decodes
  PROVE  \A o \in AllObjects :
           \/ stored'[o] = stored[o]
           \/ stored'[o] = "whole"
<1>1. CASE r.leg \in 1..Len(Objects)
  <2>1. stored' = [stored EXCEPT ![Objects[r.leg]] = "whole"]
    BY <1>1 DEF Handle
  <2>2. QED BY <2>1 DEF TypeOK
<1>2. CASE r.leg \notin 1..Len(Objects)
  BY <1>2 DEF Handle
<1>3. QED BY <1>1, <1>2

LEMMA GzipStep == TypeOK /\ GzipInv /\ [Next]_vars => GzipInv'
<1> SUFFICES ASSUME TypeOK, GzipInv, [Next]_vars PROVE GzipInv'
  OBVIOUS
<1> USE DEF packageVars, sendVars, learnedVars, clockVars, backendVars
<1>r. Request \in Requests /\ (Request.encoding = "gzip" => decodes)
  BY RequestType DEF GzipInv, Request
<1>1. decodes' = decodes
  BY DEF Next, Client, Skip, NoUrl, Encode, Prepare, OutOfBudget, Send, Succeed, Refuse,
         Fault, Pause, Arrive, Again, vars
<1>2. allowGzip' => decodes
  <2>1. CASE Succeed
    BY <2>1 DEF Succeed, NextLeg, GzipInv
  <2>2. CASE ~Succeed
    BY <2>2 DEF Next, Client, Skip, NoUrl, Encode, Prepare, OutOfBudget, Send, Refuse, Fault,
                Pause, Arrive, Again, Start, vars, GzipInv
  <2>3. QED BY <2>1, <2>2
<1>3. encoding' = "gzip" => decodes
  <2>1. CASE Encode
    BY <2>1 DEF Encode, MayPack, GzipInv
  <2>2. CASE ~Encode
    BY <2>2 DEF Next, Client, Skip, NoUrl, Prepare, OutOfBudget, Send, Succeed, Refuse, Fault,
                Pause, Arrive, Again, Start, vars, GzipInv
  <2>3. QED BY <2>1, <2>2
<1>4. \A r \in late' : r.encoding = "gzip" => decodes
  <2>1. late' \subseteq late \cup {Request}
    <3>1. CASE Fault
      BY <3>1 DEF Fault
    <3>2. CASE Arrive
      BY <3>2 DEF Arrive
    <3>3. CASE ~Fault /\ ~Arrive
      BY <3>3 DEF Next, Client, Skip, NoUrl, Encode, Prepare, OutOfBudget, Send, Succeed,
                  Refuse, Pause, Again, vars
    <3>4. QED BY <3>1, <3>2, <3>3
  <2>2. QED BY <2>1, <1>r DEF GzipInv
<1>5. NothingGarbled'
  <2>1. \A o \in AllObjects : stored'[o] = stored[o] \/ stored'[o] = "whole"
    <3>1. CASE Handle(Request)
      BY <3>1, <1>r, HandleStores
    <3>2. CASE Arrive
      <4>1. PICK r \in late : Handle(r)
        BY <3>2 DEF Arrive
      <4>2. r \in Requests /\ (r.encoding = "gzip" => decodes)
        BY DEF TypeOK, GzipInv
      <4>3. QED BY <4>1, <4>2, HandleStores
    <3>3. CASE stored' = stored
      BY <3>3
    <3>4. Handle(Request) \/ Arrive \/ stored' = stored
      BY DEF Next, Client, Skip, NoUrl, Encode, Prepare, OutOfBudget, Send, Succeed, Refuse,
             Fault, Pause, Again, vars
    <3>5. QED BY <3>1, <3>2, <3>3, <3>4
  <2>2. QED BY <2>1 DEF GzipInv, NothingGarbled
<1>6. QED BY <1>1, <1>2, <1>3, <1>4, <1>5 DEF GzipInv

-------------------------------------------------------------------------------
(* What the completion names *)

\* Once all legs are behind, everything on disk has been put.
LEMMA BehindAtLast == TypeOK /\ leg = Last => Behind = onDisk
<1> SUFFICES ASSUME TypeOK, leg = Last, NEW o \in onDisk
             PROVE  \E i \in 1..Len(Objects) : i < leg /\ Objects[i] = o
  BY DEF Behind
<1>1. PICK i \in 1..Len(Objects) : Objects[i] = o
  BY Constants DEF TypeOK, AllObjects
<1>2. QED BY <1>1, Constants

\* The completion is the only request that completes a session, and by then it names
\* everything; a put leaves what was stored whole.
LEMMA HandleCompletes ==
  ASSUME TypeOK, GzipInv, completed \in {NotYet, onDisk},
         NEW r \in Requests, Handle(r), r.encoding = "gzip" => decodes,
         r.leg = Last => r.claims = onDisk
  PROVE  /\ completed' \in {completed, onDisk}
         /\ r.leg # Last => completed' = completed
         /\ \A o \in AllObjects : stored[o] = "whole" => stored'[o] = "whole"
<1>1. completed' \in {completed, onDisk} /\ (r.leg # Last => completed' = completed)
  BY DEF Handle
<1>2. \A o \in AllObjects : stored[o] = "whole" => stored'[o] = "whole"
  BY HandleStores
<1>3. QED BY <1>1, <1>2

LEMMA ClaimStep == TypeOK /\ GzipInv /\ ClaimInv /\ [Next]_vars => ClaimInv'
<1> SUFFICES ASSUME TypeOK, GzipInv, ClaimInv, [Next]_vars PROVE ClaimInv'
  OBVIOUS
<1> USE DEF packageVars, sendVars, learnedVars, clockVars, backendVars
<1>c. Last = Len(Objects) + 1 /\ Len(Objects) \in Nat /\ leg \in 0..Last
  BY Constants DEF TypeOK
<1>d. onDisk' = onDisk
  BY DEF Next, Client, Skip, NoUrl, Encode, Prepare, OutOfBudget, Send, Succeed, Refuse,
         Fault, Pause, Arrive, Again, vars
<1>r. /\ Request \in Requests /\ (Request.encoding = "gzip" => decodes)
      /\ Request.leg = leg /\ (Request.leg = Last => Request.claims = onDisk)
  BY RequestType, BehindAtLast DEF GzipInv, ClaimInv, Request
<1>h. ASSUME Handle(Request)
      PROVE  /\ completed' \in {completed, onDisk} /\ (leg # Last => completed' = completed)
             /\ \A o \in AllObjects : stored[o] = "whole" => stored'[o] = "whole"
  BY <1>h, <1>r, HandleCompletes DEF ClaimInv
<1>o. claimed \subseteq AllObjects
  BY DEF TypeOK
<1>1. CASE Skip
  <2>1. Behind' = Behind
    BY <1>1, <1>c DEF Skip, Object, Behind
  <2>2. QED BY <1>1, <2>1, <1>d DEF Skip, ClaimInv, PutsOnDisk
<1>2. CASE NoUrl \/ Prepare \/ OutOfBudget \/ Send
  <2>1. Behind' = Behind
    BY <1>2 DEF NoUrl, Prepare, OutOfBudget, Send, Behind
  <2>2. PutsOnDisk'
    BY <1>2, <1>c DEF NoUrl, Prepare, OutOfBudget, Send, ClaimInv, PutsOnDisk
  <2>3. QED BY <1>2, <2>1, <2>2 DEF NoUrl, Prepare, OutOfBudget, Send, ClaimInv
<1>3. CASE Encode
  <2>1. Behind' = Behind /\ PutsOnDisk'
    BY <1>3 DEF Encode, Object, Behind, PutsOnDisk
  <2>2. QED BY <1>3, <2>1 DEF Encode, ClaimInv
<1>4. CASE Succeed
  <2>1. /\ completed' \in {completed, onDisk} /\ (leg # Last => completed' = completed)
        /\ \A o \in AllObjects : stored[o] = "whole" => stored'[o] = "whole"
    BY <1>4, <1>h DEF Succeed
  <2>2. CASE leg = Last
    <3>1. completed' = onDisk
      BY <1>4, <2>2, <1>r DEF Succeed, Handle
    <3>2. claimed' = claimed /\ leg' = leg /\ late' = late /\ pc' = "ok"
      BY <1>4, <2>2, <1>c DEF Succeed, NextLeg
    <3>3. Behind' = Behind
      BY <3>2, <1>d DEF Behind
    <3>4. QED BY <3>1, <3>2, <3>3, <2>1, <1>d, <1>o DEF ClaimInv, PutsOnDisk
  <2>3. CASE leg = 0
    <3>1. claimed' = claimed /\ leg' = 1 /\ late' = late /\ pc' = "leg"
      BY <1>4, <2>3, <1>c DEF Succeed, NextLeg
    <3>2. Behind' = Behind
      BY <3>1, <1>d, <2>3, <1>c DEF Behind
    <3>3. QED BY <3>1, <3>2, <2>1, <2>3, <1>c, <1>d, <1>o DEF ClaimInv, PutsOnDisk
  <2>4. CASE leg \in 1..Len(Objects)
    <3>1. /\ claimed' = claimed \cup {Object} /\ leg' = leg + 1 /\ late' = late
          /\ pc' = "leg" /\ Object = Objects[leg] /\ Object \in onDisk
      <4>1. leg # 0 /\ leg # Last
        BY <2>4, <1>c
      <4>2. Object = Objects[leg] /\ Object \in onDisk
        BY <1>4, <2>4 DEF Succeed, Object, ClaimInv, PutsOnDisk
      <4>3. QED BY <1>4, <4>1, <4>2 DEF Succeed, NextLeg
    <3>2. Behind' = Behind \cup {Object}
      BY <3>1, <1>d, <2>4, <1>c DEF Behind
    <3>3. Object \in AllObjects /\ stored'[Object] = "whole"
      <4>1. stored' = [stored EXCEPT ![Object] = "whole"]
        BY <1>4, <2>4, <1>r, <3>1 DEF Succeed, Handle
      <4>2. QED BY <4>1, <3>1, <2>4, Constants DEF TypeOK
    <3>4. QED BY <3>1, <3>2, <3>3, <2>1, <2>4, <1>c, <1>d, <1>o DEF ClaimInv, PutsOnDisk
  <2>5. QED BY <2>2, <2>3, <2>4, <1>c
<1>5. CASE Refuse
  <2>1. /\ completed' \in {completed, onDisk}
        /\ \A o \in AllObjects : stored[o] = "whole" => stored'[o] = "whole"
    BY <1>5, <1>h DEF Refuse
  <2>2. claimed' = claimed /\ leg' = leg /\ late' = late /\ pc' = "failed"
    BY <1>5 DEF Refuse
  <2>3. Behind' = Behind
    BY <2>2, <1>d DEF Behind
  <2>4. QED BY <2>1, <2>2, <2>3, <1>d, <1>o DEF ClaimInv, PutsOnDisk
<1>6. CASE Fault
  <2>1. /\ completed' \in {completed, onDisk}
        /\ \A o \in AllObjects : stored[o] = "whole" => stored'[o] = "whole"
    BY <1>6, <1>h DEF Fault
  <2>2. /\ claimed' = claimed /\ leg' = leg /\ pc = "flight" /\ pc' \in {"pause", "failed"}
        /\ late' \subseteq late \cup {Request}
    BY <1>6 DEF Fault, GiveUp
  <2>3. Behind' = Behind
    BY <2>2, <1>d DEF Behind
  <2>4. \A r \in late' : r.leg = Last => r.claims = onDisk
    BY <2>2, <1>r DEF ClaimInv
  <2>5. QED BY <2>1, <2>2, <2>3, <2>4, <1>d, <1>o DEF ClaimInv, PutsOnDisk
<1>7. CASE Pause
  <2>1. Behind' = Behind
    BY <1>7 DEF Pause, Behind
  <2>2. QED BY <1>7, <2>1 DEF Pause, ClaimInv, PutsOnDisk
<1>8. CASE Arrive
  <2>1. PICK r \in late : Handle(r) /\ late' = late \ {r}
    BY <1>8 DEF Arrive
  <2>2. /\ r \in Requests /\ (r.encoding = "gzip" => decodes)
        /\ (r.leg = Last => r.claims = onDisk)
    BY DEF TypeOK, GzipInv, ClaimInv
  <2>3. /\ completed' \in {completed, onDisk}
        /\ \A o \in AllObjects : stored[o] = "whole" => stored'[o] = "whole"
    BY <2>1, <2>2, HandleCompletes DEF ClaimInv
  <2>4. Behind' = Behind
    BY <1>8 DEF Arrive, Behind
  <2>5. QED BY <1>8, <2>1, <2>3, <2>4, <1>o DEF Arrive, ClaimInv, PutsOnDisk
<1>9. CASE Again
  <2>1. Behind' = {}
    BY <1>9, <1>c DEF Again, Start, Behind
  <2>2. QED BY <1>9, <2>1 DEF Again, Start, ClaimInv, PutsOnDisk
<1>10. CASE UNCHANGED vars
  <2>1. Behind' = Behind
    BY <1>10 DEF vars, Behind
  <2>2. QED BY <1>10, <2>1 DEF vars, ClaimInv, PutsOnDisk
<1>11. QED BY <1>1, <1>2, <1>3, <1>4, <1>5, <1>6, <1>7, <1>8, <1>9, <1>10 DEF Next, Client

-------------------------------------------------------------------------------
(* The theorems *)

LEMMA InductiveIInv == Spec => []IInv
<1>1. IInv /\ [Next]_vars => IInv'
  BY TypeStep, PauseStep, GzipStep, ClaimStep, ClockStep DEF IInv
<1>2. QED BY InitIInv, <1>1, PTL DEF Spec

\* Every variable keeps its type, whatever arrives late.
THEOREM UploadTypes == Spec => []TypeOK
  BY InductiveIInv, PTL DEF IInv

\* An upload with a deadline is over when it strikes (observer.py, _send and
\* _request_timeout), unless one answer outlived its own timeout.
THEOREM DeadlineHeld == Spec => []OverByTheDeadline
<1>1. IInv => OverByTheDeadline
  BY DEF IInv, ClockInv
<1>2. QED BY <1>1, InductiveIInv, PTL

\* A backend that does not decompress never holds a compressed object, behind any
\* number of retries, late requests and repeated uploads (observer.py, _encode_object).
THEOREM NeverGarbled == Spec => []NothingGarbled
<1>1. IInv => NothingGarbled
  BY DEF IInv, GzipInv
<1>2. QED BY <1>1, InductiveIInv, PTL

\* Each step of an upload is one of the promise, or none: an answer means that the
\* backend completed the session with everything on disk (upload_package_sync).
LEMMA PromiseStep == IInv /\ IInv' /\ [Next]_vars => [Promise!Next]_(Promise!promiseVars)
<1> SUFFICES ASSUME IInv, IInv', [Next]_vars
             PROVE  Promise!Next \/ UNCHANGED Promise!promiseVars
  OBVIOUS
<1> USE DEF packageVars, sendVars, learnedVars, clockVars, backendVars, IInv
<1>d. onDisk' = onDisk
  BY DEF Next, Client, Skip, NoUrl, Encode, Prepare, OutOfBudget, Send, Succeed, Refuse,
         Fault, Pause, Arrive, Again, vars
<1>k. completed' \in {completed, onDisk}
  <2>1. Request.leg = Last => Request.claims = onDisk
    BY BehindAtLast DEF ClaimInv, Request
  <2>2. CASE Handle(Request)
    BY <2>1, <2>2 DEF Handle
  <2>3. CASE Arrive
    BY <2>3 DEF Arrive, Handle, ClaimInv
  <2>4. Handle(Request) \/ Arrive \/ completed' = completed
    BY DEF Next, Client, Skip, NoUrl, Encode, Prepare, OutOfBudget, Send, Succeed, Refuse,
           Fault, Pause, Again, vars
  <2>5. QED BY <2>2, <2>3, <2>4
<1>1. CASE pc' = pc \/ {pc, pc'} \cap {"ok", "failed"} = {}
  <2>1. Verdict' = Verdict
    BY <1>1 DEF Verdict
  <2>2. CASE completed' = onDisk
    BY <2>1, <2>2, <1>d DEF Promise!Next, Promise!Take
  <2>3. CASE completed' = completed
    BY <2>1, <2>3, <1>d DEF Promise!promiseVars
  <2>4. QED BY <2>2, <2>3, <1>k
<1>2. CASE pc' = "failed" /\ pc # "failed"
  <2>1. Verdict' = "failed" /\ Verdict = "pending"
    BY <1>2 DEF Verdict, Next, Client, Skip, NoUrl, Encode, Prepare, OutOfBudget, Send, Succeed,
                NextLeg, Refuse, Fault, GiveUp, Pause, Arrive, Again, Start, vars
  <2>2. QED BY <2>1, <1>d, <1>k DEF Promise!Next, Promise!GiveUp
<1>3. CASE pc' = "ok" /\ pc # "ok"
  <2>1. Succeed
    BY <1>3 DEF Next, Client, Skip, NoUrl, Encode, Prepare, OutOfBudget, Send,
                Refuse, Fault, GiveUp, Pause, Arrive, Again, Start, vars
  <2>2. Verdict' = "delivered" /\ Verdict = "pending"
    BY <1>3, <2>1 DEF Succeed, Verdict
  <2>3. completed' = onDisk
    BY <1>3, <1>d DEF ClaimInv
  <2>4. QED BY <2>2, <2>3, <1>d DEF Promise!Next, Promise!TakeAndDeliver
<1>4. CASE pc = "failed" /\ pc' # "failed"
  <2>1. Again
    BY <1>4 DEF Next, Client, Skip, NoUrl, Encode, Prepare, OutOfBudget, Send, Succeed,
                NextLeg, Refuse, Fault, GiveUp, Pause, Arrive, vars
  <2>2. Verdict = "failed" /\ Verdict' = "pending" /\ completed' = completed
    BY <2>1 DEF Again, Start, Verdict
  <2>3. QED BY <2>2, <1>d DEF Promise!Next, Promise!TryAgain
<1>5. CASE pc = "ok" /\ pc' # "ok"
  BY <1>5 DEF Next, Client, Skip, NoUrl, Encode, Prepare, OutOfBudget, Send, Succeed,
              NextLeg, Refuse, Fault, GiveUp, Pause, Arrive, Again, Start, vars
<1>6. QED BY <1>1, <1>2, <1>3, <1>4, <1>5

\* The upload implements what it promises its callers.
THEOREM UploadKeepsPromise == Spec => ImplementsUploadPromise
<1>1. Init => Promise!Init
  BY DEF Init, Promise!Init, Verdict
<1>2. QED BY <1>1, PromiseStep, InductiveIInv, PTL DEF Spec, ImplementsUploadPromise, Promise!Spec
===============================================================================

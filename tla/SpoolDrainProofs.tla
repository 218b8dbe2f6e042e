---------------------------- MODULE SpoolDrainProofs ----------------------------
(***************************************************************************)
(* Proofs about the spool, for any number of packages, any workers and     *)
(* drainers with any endpoints and flags, and any number of mishaps.       *)
(***************************************************************************)
EXTENDS SpoolDrain, TLAPS

\* What the steps below use of the constants.
LEMMA Constants ==
  /\ Packages \subseteq 0..N /\ 0 \in 0..N
  /\ Workers \subseteq Processes /\ Drainers \subseteq Processes
  /\ \A x \in Processes : x \notin Workers <=> x \in Drainers
  /\ \A x \in Processes : EndpointOf[x] \in Endpoints
  /\ \A w \in Workers : Records[w] \in Packages
  /\ Founding \subseteq Endpoints
  /\ 0 \in 0..MaxMishaps /\ 1 \in 1..(Len(Objects) + 1)
  /\ Len(Objects) \in Nat
  /\ \A i \in 1..Len(Objects) : Objects[i] \in AllObjects
  BY DrainAssumption DEF DrainAssumption, Packages, Processes, Endpoints, AllObjects

\* A process that uploads, acknowledges or deletes works on a package.
Busy == {"put", "ack", "receipt", "remember", "unlinkOld", "unlinkShipped"}

BusyInv == \A x \in Processes : pc[x] \in Busy => cur[x] \in Packages

\* The three sets of a scan empty in their order: the directories to look at, the
\* delivered packages, the pending ones.
ScanInv ==
  \A d \in Drainers :
    /\ left[d] # {} => pc[d] = "scan"
    /\ delivered[d] # {} => pc[d] \in {"scan", "purge", "unlinkOld"}
    /\ todo[d] # {} => pc[d] \notin {"idle", "exited"}

IInv == TypeOK /\ BusyInv /\ ScanInv

\* A spool found at the start meets the invariant.
LEMMA InitIInv == Init => IInv
<1> SUFFICES ASSUME Init PROVE IInv
  OBVIOUS
<1> USE Constants DEF Init
<1>1. SpoolType
  <2>1. Legacy \in ReceiptContent
    BY DEF Legacy, ReceiptContent
  <2>2. receipt \in [Packages -> ReceiptContent \cup {NoReceipt, Torn}]
    BY <2>1
  <2>3. files \in [Packages -> SUBSET (AllObjects \cup {Manifest})]
    OBVIOUS
  <2>4. QED BY <2>2, <2>3 DEF SpoolType
<1>2. UploadType
  BY DEF UploadType
<1>3. ScanType /\ RestType /\ ScanInv
  BY DEF ScanType, RestType, ScanInv
<1>4. HistoryType
  BY DEF HistoryType
<1>5. pc \in [Processes -> Places]
  BY DEF Places
<1>6. BusyInv
  BY DEF BusyInv, Busy
<1>7. QED BY <1>1, <1>2, <1>3, <1>4, <1>5, <1>6 DEF IInv, TypeOK

\* Taking a package up, or putting it down, keeps the types and touches nobody else.
LEMMA WorkType ==
  ASSUME UploadType, NEW x \in Processes, NEW p \in 0..N, Work(x, p)
  PROVE  UploadType' /\ cur'[x] = p /\ \A y \in Processes : y # x => cur'[y] = cur[y]
  BY Constants DEF UploadType, Work

\* So does moving to another place.
LEMMA GotoType ==
  ASSUME pc \in [Processes -> Places], NEW x \in Processes, NEW l \in Places, Goto(x, l)
  PROVE  /\ pc' \in [Processes -> Places] /\ pc'[x] = l
         /\ \A y \in Processes : y # x => pc'[y] = pc[y]
  BY DEF Goto

\* And putting an object.
LEMMA SentType ==
  ASSUME UploadType, NEW x \in Processes, NEW o \in AllObjects
  PROVE  [sent EXCEPT ![x] = @ \cup {o}] \in [Processes -> SUBSET AllObjects]
  BY DEF UploadType

\* Mishaps stay within their bound.
LEMMA MishapType ==
  ASSUME mishaps \in 0..MaxMishaps, Mishap \/ UNCHANGED mishaps
  PROVE  mishaps' \in 0..MaxMishaps
  BY Constants, DrainAssumption DEF Mishap, DrainAssumption

\* What an action may disturb apart from the files and the history.
Control == UploadType /\ pc \in [Processes -> Places] /\ mishaps \in 0..MaxMishaps

\* The invariant, in the parts that the steps below prove.
LEMMA Parts ==
  IInv <=> SpoolType /\ Control /\ BusyInv /\ ScanType /\ ScanInv /\ HistoryType
  BY DEF IInv, TypeOK, Control, ScanInv, RestType

\* One case per action; what it leaves alone keeps its type.
LEMMA TypeStep == IInv /\ [Next]_vars => IInv'
<1> SUFFICES ASSUME IInv, [Next]_vars PROVE IInv'
  OBVIOUS
<1>p. SpoolType /\ Control /\ BusyInv /\ ScanType /\ ScanInv /\ HistoryType
  BY Parts
<1>q. ASSUME SpoolType', Control', BusyInv', ScanType', ScanInv', HistoryType'
      PROVE  IInv'
  BY <1>q DEF IInv, TypeOK, Control, ScanInv, RestType
<1> USE <1>p, Constants, WorkType, GotoType, MishapType
    DEF Control, BusyInv, Busy, Places, spoolVars, scanVars, uploadVars, historyVars
<1>1. ASSUME NEW w \in Workers, Publish(w) PROVE IInv'
  <2>0. Records[w] \in Packages OBVIOUS
  <2>1. SpoolType' BY <1>1, <2>0 DEF Publish, SpoolType
  <2>a. HistoryType' BY <1>1, <2>0 DEF Publish, HistoryType
  <2>2. Records[w] \in 0..N BY DEF Packages
  <2>3. Control' BY <1>1, <2>2 DEF Publish
  <2>4. BusyInv' BY <1>1, <2>2 DEF Publish
  <2>5. ScanType' /\ ScanInv' BY <1>1 DEF Publish, ScanType, ScanInv
  <2>6. QED BY <1>q, <2>1, <2>a, <2>3, <2>4, <2>5
<1>2. ASSUME NEW d \in Drainers, Passes(d) PROVE IInv'
  <2>0. d \in Processes OBVIOUS
  <2>1. CASE Begin(d)
    <3>1. Control' /\ BusyInv' BY <2>0, <2>1 DEF Begin, UploadType
    <3>2. ScanType' BY <2>1 DEF Begin, ScanType
    <3>3. ScanInv' BY <2>0, <2>1 DEF Begin, ScanInv, ScanType
    <3>4. QED BY <1>q, <2>1, <3>1, <3>2, <3>3 DEF Begin, SpoolType, HistoryType
  <2>2. ASSUME NEW p \in Packages, Look(d, p) PROVE IInv'
    <3>1. Control' /\ BusyInv' BY <2>2 DEF Look, UploadType
    <3>2. ScanType' BY <2>2 DEF Look, ScanType
    <3>3. ScanInv' BY <2>2 DEF Look, ScanInv, ScanType
    <3>4. QED BY <1>q, <2>2, <3>1, <3>2, <3>3 DEF Look, SpoolType, HistoryType
  <2>3. CASE Guard(d)
    <3>1. Control' /\ BusyInv' BY <2>0, <2>3 DEF Guard, Rest, UploadType
    <3>2. ScanType' BY <2>0, <2>3, ZenonT(60) DEF Guard, Changed, ScanType
    <3>3. ScanInv' BY <2>0, <2>3 DEF Guard, Rest, ScanInv, ScanType
    <3>4. QED BY <1>q, <2>3, <3>1, <3>2, <3>3 DEF Guard, SpoolType, HistoryType
  <2>4. ASSUME NEW p \in Packages, Purge(d, p) PROVE IInv'
    <3>1. Control' BY <2>0, <2>4 DEF Purge, UploadType
    <3>2. BusyInv'
      <4>1. CASE UNCHANGED <<pc, uploadVars>> BY <4>1
      <4>2. CASE Goto(d, "unlinkOld") /\ Work(d, p) BY <2>0, <4>2
      <4>3. QED BY <2>4, <4>1, <4>2 DEF Purge
    <3>3. ScanType' BY <2>4 DEF Purge, ScanType
    <3>4. ScanInv' BY <2>0, <2>4 DEF Purge, ScanInv, ScanType
    <3>5. QED BY <1>q, <2>4, <3>1, <3>2, <3>3, <3>4 DEF Purge, SpoolType, HistoryType
  <2>5. CASE Purged(d)
    <3>1. Control' /\ BusyInv' BY <2>0, <2>5 DEF Purged, UploadType
    <3>2. ScanType' BY <2>5 DEF Purged, ScanType
    <3>3. ScanInv' BY <2>0, <2>5 DEF Purged, ScanInv, ScanType
    <3>4. QED BY <1>q, <2>5, <3>1, <3>2, <3>3 DEF Purged, SpoolType, HistoryType
  <2>6. CASE Pick(d)
    <3>0. todo[d] \subseteq Packages BY DEF ScanType
    <3>1. Control' BY <2>0, <2>6, <3>0 DEF Pick, Rest
    <3>2. BusyInv' /\ ScanInv'
      <4>1. CASE todo[d] = {}
        <5>1. /\ pc'[d] \in {"idle", "exited"}
              /\ \A y \in Processes : y # d => pc'[y] = pc[y]
          BY <2>0, <2>6, <4>1 DEF Pick, Rest
        <5>2. \A y \in Processes : y # d => cur'[y] = cur[y]
          BY <2>0, <2>6, <4>1 DEF Pick
        <5>3. BusyInv' BY <5>1, <5>2
        <5>4. left[d] = {} /\ delivered[d] = {} BY <2>6 DEF Pick, ScanInv
        <5>5. QED BY <2>6, <4>1, <5>1, <5>3, <5>4 DEF Pick, ScanInv
      <4>2. CASE todo[d] # {}
        <5>1. PICK p \in todo[d] : Work(d, p) /\ Goto(d, "put")
                                  /\ todo' = [todo EXCEPT ![d] = @ \ {p}]
          BY <2>6, <4>2 DEF Pick
        <5>a. UploadType BY DEF Control
        <5>b. cur'[d] = p /\ \A y \in Processes : y # d => cur'[y] = cur[y]
          BY <2>0, <3>0, <5>1, <5>a
        <5>c. \A y \in Processes : y # d => pc'[y] = pc[y] BY <2>0, <5>1
        <5>2. BusyInv' BY <3>0, <5>b, <5>c
        <5>3. QED BY <2>0, <2>6, <5>1, <5>2 DEF Pick, ScanInv, ScanType
      <4>3. QED BY <4>1, <4>2
    <3>3. ScanType' BY <2>6 DEF Pick, ScanType
    <3>4. QED BY <1>q, <2>6, <3>1, <3>2, <3>3 DEF Pick, SpoolType, HistoryType
  <2>7. CASE Unlink(d)
    <3>1. cur[d] \in Packages BY <2>0, <2>7 DEF Unlink, Unlinking
    <3>2. SpoolType' BY <2>7, <3>1 DEF Unlink, SpoolType
    <3>3. QED
      BY <1>q, <2>7, <3>2 DEF Unlink, UploadType, ScanType, ScanInv, HistoryType
  <2>8. CASE Unlinked(d)
    <3>1. Control' /\ BusyInv'
      BY <2>0, <2>8 DEF Unlinked, Unlinking, AfterUnlink, UploadType
    <3>2. ScanInv' BY <2>0, <2>8 DEF Unlinked, Unlinking, AfterUnlink, ScanInv
    <3>3. QED
      BY <1>q, <2>8, <3>1, <3>2 DEF Unlinked, SpoolType, ScanType, HistoryType
  <2>9. QED BY <1>2, <2>1, <2>2, <2>3, <2>4, <2>5, <2>6, <2>7, <2>8 DEF Passes
<1>3. ASSUME NEW x \in Processes, Uploads(x) \/ UploadFails(x) PROVE IInv'
  <2>0. pc[x] \in Busy => /\ cur[x] \in Packages /\ cur[x] \in 0..N
                          /\ <<cur[x], EndpointOf[x]>> \in Packages \X Endpoints
    OBVIOUS
  <2>1. CASE Put(x)
    <3>1. Objects[at[x]] \in AllObjects BY <2>1 DEF Put, UploadType
    <3>0. at[x] + 1 \in 1..(Len(Objects) + 1) BY <2>1 DEF Put, UploadType
    <3>2. Control'
      <4>1. at' \in [Processes -> 1..(Len(Objects) + 1)] BY <2>1, <3>0 DEF Put, UploadType
      <4>0. sent' = sent \/ sent' = [sent EXCEPT ![x] = @ \cup {Objects[at[x]]}]
        BY <2>1 DEF Put
      <4>2. sent' \in [Processes -> SUBSET AllObjects]
        BY <4>0, <3>1, SentType, SMTT(60) DEF UploadType
      <4>3. QED BY <2>1, <4>1, <4>2 DEF Put, UploadType
    <3>5. BusyInv' BY <2>1 DEF Put
    <3>3. HistoryType' BY <2>0, <2>1 DEF Put, HistoryType
    <3>4. QED BY <1>q, <2>1, <3>2, <3>3, <3>5 DEF Put, SpoolType, ScanType, ScanInv
  <2>2. CASE Complete(x)
    <3>1. Control' BY <2>0, <2>2 DEF Complete, AfterFailure
    <3>2. BusyInv' BY <2>0, <2>2 DEF Complete, AfterFailure
    <3>3. HistoryType' BY <2>0, <2>2 DEF Complete, HistoryType
    <3>4. ScanInv' BY <2>2 DEF Complete, AfterFailure, ScanInv
    <3>5. QED BY <1>q, <2>2, <3>1, <3>2, <3>3, <3>4 DEF Complete, SpoolType, ScanType
  <2>3. CASE Acknowledge(x)
    <3>1. Control' /\ BusyInv' BY <2>0, <2>3 DEF Acknowledge, UploadType
    <3>2. SpoolType' BY <2>0, <2>3 DEF Acknowledge, SpoolType
    <3>3. ScanInv' BY <2>3 DEF Acknowledge, ScanInv
    <3>4. QED BY <1>q, <2>3, <3>1, <3>2, <3>3 DEF Acknowledge, ScanType, HistoryType
  <2>4. CASE WriteReceipt(x)
    <3>1. Control' /\ BusyInv' BY <2>0, <2>4 DEF WriteReceipt, UploadType
    <3>2. [endpoint |-> EndpointOf[x], migration |-> migrating[x]] \in ReceiptContent
      BY DEF ReceiptContent, ScanType
    <3>3. SpoolType' BY <2>0, <2>4, <3>2 DEF WriteReceipt, SpoolType
    <3>4. ScanInv' BY <2>4 DEF WriteReceipt, ScanInv
    <3>5. QED BY <1>q, <2>4, <3>1, <3>3, <3>4 DEF WriteReceipt, ScanType, HistoryType
  <2>5. CASE Remember(x)
    <3>1. Control' /\ BusyInv' BY <2>5 DEF Remember
    <3>2. SpoolType' BY <2>5 DEF Remember, SpoolType
    <3>3. ScanInv' BY <2>5 DEF Remember, ScanInv
    <3>4. QED BY <1>q, <2>5, <3>1, <3>2, <3>3 DEF Remember, ScanType, HistoryType
  <2>6. CASE UploadFails(x)
    <3>1. Control' BY <2>0, <2>6 DEF UploadFails, AfterFailure
    <3>2. BusyInv' BY <2>0, <2>6 DEF UploadFails, AfterFailure
    <3>3. ScanInv' BY <2>6 DEF UploadFails, AfterFailure, ScanInv
    <3>4. QED
      BY <1>q, <2>6, <3>1, <3>2, <3>3 DEF UploadFails, SpoolType, ScanType, HistoryType
  <2>7. QED BY <1>3, <2>1, <2>2, <2>3, <2>4, <2>5, <2>6 DEF Uploads
<1>4. ASSUME NEW x \in Processes, Crash(x) PROVE IInv'
  <2>1. Control' BY <1>4 DEF Crash, Rest
  <2>2. BusyInv' BY <1>4 DEF Crash, Rest
  <2>3. ScanType' BY <1>4, ZenonT(60) DEF Crash, ScanType
  <2>4. ScanInv' BY <1>4 DEF Crash, Rest, ScanInv, ScanType
  <2>5. QED BY <1>4, <1>q, <2>1, <2>2, <2>3, <2>4 DEF Crash, SpoolType, HistoryType
<1>5. CASE UNCHANGED vars
  BY <1>5, <1>q DEF vars, SpoolType, UploadType, ScanType, ScanInv, HistoryType
<1>6. QED BY <1>1, <1>2, <1>3, <1>4, <1>5 DEF Next

\* The invariant holds in every behaviour.
LEMMA IInvariant == Spec => []IInv
  BY InitIInv, TypeStep, PTL DEF Spec

\* Type correctness of every behaviour.
THEOREM DrainTypeCorrect == Spec => []TypeOK
<1>1. IInv => TypeOK
  BY DEF IInv
<1>2. QED BY <1>1, IInvariant, PTL

-------------------------------------------------------------------------------
(* Hosts *)

\* A drainer past the guard with something to ship.
Committed(d) ==
  \/ pc[d] \in {"put", "ack", "receipt", "remember", "unlinkShipped"}
  \/ pc[d] \in {"purge", "pick", "unlinkOld"} /\ todo[d] # {}

\* What the guard read in the ledger stays true of it.
HostInv ==
  Founding # {} =>
    /\ Founding \subseteq ledger /\ ledger \subseteq KnownHosts
    /\ \A d \in Drainers : Committed(d) => EndpointOf[d] \in KnownHosts
    /\ \A s \in shipped : s[2] \in KnownHosts

\* Only the guard lets a drainer commit itself, and it has read the ledger.
LEMMA HostStep == IInv /\ HostInv /\ [Next]_vars => HostInv'
<1> SUFFICES ASSUME IInv, HostInv, [Next]_vars, Founding # {} PROVE HostInv'
  BY DEF HostInv
<1> DEFINE Keeps(d) == Committed(d)' => Committed(d) \/ EndpointOf[d] \in KnownHosts
<1>t. pc \in [Processes -> Places] /\ todo \in [Drainers -> SUBSET Packages]
  BY DEF IInv, TypeOK, ScanType
<1>q. ASSUME \A d \in Drainers : Keeps(d), UNCHANGED <<ledger, shipped>>
      PROVE  HostInv'
  BY <1>q DEF HostInv, KnownHosts
<1> USE <1>t, Constants
    DEF Committed, spoolVars, scanVars, uploadVars, historyVars, Goto
<1>1. ASSUME NEW w \in Workers, Publish(w) PROVE HostInv'
  <2>1. \A d \in Drainers : d # w BY DrainAssumption DEF DrainAssumption
  <2>2. QED BY <1>1, <1>q, <2>1 DEF Publish
<1>2. ASSUME NEW d \in Drainers, Passes(d) PROVE HostInv'
  <2>1. CASE Begin(d) BY <1>q, <2>1 DEF Begin
  <2>2. ASSUME NEW p \in Packages, Look(d, p) PROVE HostInv'
    BY <1>q, <2>2 DEF Look
  <2>3. CASE Guard(d)
    <3>1. ~Refused(d) => todo[d] = {} \/ EndpointOf[d] \in KnownHosts
      BY DEF Refused, Changed, HostInv, KnownHosts
    <3>2. QED BY <1>q, <2>3, <3>1 DEF Guard, Rest
  <2>4. ASSUME NEW p \in Packages, Purge(d, p) PROVE HostInv'
    BY <1>q, <2>4 DEF Purge
  <2>5. CASE Purged(d) BY <1>q, <2>5 DEF Purged
  <2>6. CASE Pick(d) BY <1>q, <2>6 DEF Pick, Rest
  <2>7. CASE Unlink(d) BY <1>q, <2>7 DEF Unlink
  <2>8. CASE Unlinked(d) BY <1>q, <2>8 DEF Unlinked, Unlinking, AfterUnlink
  <2>9. QED BY <1>2, <2>1, <2>2, <2>3, <2>4, <2>5, <2>6, <2>7, <2>8 DEF Passes
<1>3. ASSUME NEW x \in Processes, Uploads(x) \/ UploadFails(x) PROVE HostInv'
  <2>0. pc[x] \in {"put", "remember"} => EndpointOf[x] \in KnownHosts
    BY DEF HostInv, KnownHosts
  <2>1. CASE Put(x) BY <2>0, <2>1 DEF Put, HostInv, KnownHosts
  <2>2. CASE Complete(x) BY <1>q, <2>2 DEF Complete, AfterFailure
  <2>3. CASE Acknowledge(x) BY <1>q, <2>3 DEF Acknowledge
  <2>4. CASE WriteReceipt(x) BY <1>q, <2>4 DEF WriteReceipt
  <2>5. CASE Remember(x) BY <2>0, <2>5 DEF Remember, HostInv, KnownHosts
  <2>6. CASE UploadFails(x) BY <1>q, <2>6 DEF UploadFails, AfterFailure
  <2>7. QED BY <1>3, <2>1, <2>2, <2>3, <2>4, <2>5, <2>6 DEF Uploads
<1>4. ASSUME NEW x \in Processes, Crash(x) PROVE HostInv'
  BY <1>4, <1>q DEF Crash, Rest
<1>5. CASE UNCHANGED vars
  BY <1>5, <1>q DEF vars
<1>6. QED BY <1>1, <1>2, <1>3, <1>4, <1>5 DEF Next

LEMMA HostInvariant == Spec => []HostInv
<1>1. Init => HostInv
  BY Constants DEF Init, HostInv, Committed, KnownHosts
<1>2. QED BY <1>1, HostStep, IInvariant, PTL DEF Spec

\* Nobody ships a call to a host outside the ledger, the workers and --yes.
THEOREM DrainOnlyKnownHosts == Spec => []OnlyKnownHosts
<1>1. HostInv => OnlyKnownHosts
  BY DEF HostInv, OnlyKnownHosts
<1>2. QED BY <1>1, HostInvariant, PTL

-------------------------------------------------------------------------------
(* Receipts *)

Completed == whole \cup partial

\* Whoever is about to write a receipt for a store has been acknowledged by it.
AckInv ==
  \A x \in Processes :
    pc[x] \in {"ack", "receipt"} /\ EndpointOf[x] \in Stores =>
      <<cur[x], EndpointOf[x]>> \in Completed

EvidenceInv ==
  AckInv /\ \A p \in Packages :
    Readable(p) /\ receipt[p].endpoint \in Stores => <<p, receipt[p].endpoint>> \in Completed

\* Only an acknowledgement leads to a receipt.
LEMMA EvidenceStep == IInv /\ EvidenceInv /\ [Next]_vars => EvidenceInv'
<1> SUFFICES ASSUME IInv, EvidenceInv, [Next]_vars PROVE EvidenceInv'
  OBVIOUS
<1>t. /\ pc \in [Processes -> Places] /\ cur \in [Processes -> 0..N]
      /\ receipt \in [Packages -> ReceiptContent \cup {NoReceipt, Torn}]
  BY DEF IInv, TypeOK, UploadType, SpoolType
<1>q. ASSUME UNCHANGED receipt, Completed \subseteq Completed', AckInv'
      PROVE  EvidenceInv'
  BY <1>q DEF EvidenceInv, Readable
<1>r. ASSUME UNCHANGED <<receipt, whole, partial>>,
             \A x \in Processes : pc'[x] \in {"ack", "receipt"} =>
                                    pc[x] = pc'[x] /\ cur[x] = cur'[x]
      PROVE  EvidenceInv'
  BY <1>r DEF EvidenceInv, AckInv, Completed, Readable
<1> USE <1>t, Constants
    DEF spoolVars, scanVars, uploadVars, historyVars, Goto, Work
<1>1. ASSUME NEW w \in Workers, Publish(w) PROVE EvidenceInv'
  BY <1>1, <1>r DEF Publish
<1>2. ASSUME NEW d \in Drainers, Passes(d) PROVE EvidenceInv'
  <2>1. CASE Begin(d) BY <1>r, <2>1 DEF Begin
  <2>2. ASSUME NEW p \in Packages, Look(d, p) PROVE EvidenceInv'
    BY <1>r, <2>2 DEF Look
  <2>3. CASE Guard(d) BY <1>r, <2>3 DEF Guard, Rest
  <2>4. ASSUME NEW p \in Packages, Purge(d, p) PROVE EvidenceInv'
    BY <1>r, <2>4 DEF Purge
  <2>5. CASE Purged(d) BY <1>r, <2>5 DEF Purged
  <2>6. CASE Pick(d) BY <1>r, <2>6 DEF Pick, Rest
  <2>7. CASE Unlink(d)
    <3>1. AckInv' BY <2>7 DEF Unlink, AckInv, EvidenceInv, Completed
    <3>2. QED BY <2>7, <3>1 DEF Unlink, EvidenceInv, Readable, Completed
  <2>8. CASE Unlinked(d) BY <1>r, <2>8 DEF Unlinked, AfterUnlink
  <2>9. QED BY <1>2, <2>1, <2>2, <2>3, <2>4, <2>5, <2>6, <2>7, <2>8 DEF Passes
<1>3. ASSUME NEW x \in Processes, Uploads(x) \/ UploadFails(x) PROVE EvidenceInv'
  <2>1. CASE Put(x) BY <1>r, <2>1 DEF Put
  <2>2. CASE Complete(x)
    <3>1. Completed \subseteq Completed'
          /\ (EndpointOf[x] \in Stores => <<cur[x], EndpointOf[x]>> \in Completed')
      <4>1. CASE sent[x] = AllObjects /\ EndpointOf[x] \in Stores
        BY <2>2, <4>1 DEF Complete, Completed
      <4>2. CASE sent[x] # AllObjects
        BY <2>2, <4>2 DEF Complete, Completed
      <4>3. CASE sent[x] = AllObjects /\ EndpointOf[x] \notin Stores
        BY <2>2, <4>3 DEF Complete, Completed
      <4>4. QED BY <4>1, <4>2, <4>3
    <3>2. AckInv' BY <2>2, <3>1 DEF Complete, AfterFailure, AckInv, EvidenceInv
    <3>3. QED BY <1>q, <2>2, <3>1, <3>2 DEF Complete
  <2>3. CASE Acknowledge(x)
    <3>1. AckInv' BY <2>3 DEF Acknowledge, AckInv, EvidenceInv, Completed
    <3>2. QED BY <2>3, <3>1 DEF Acknowledge, EvidenceInv, Readable, Completed
  <2>4. CASE WriteReceipt(x)
    <3>1. AckInv' BY <2>4 DEF WriteReceipt, AckInv, EvidenceInv, Completed
    <3>2. EndpointOf[x] \in Stores => <<cur[x], EndpointOf[x]>> \in Completed
      BY <2>4 DEF WriteReceipt, EvidenceInv, AckInv
    <3>3. QED BY <2>4, <3>1, <3>2 DEF WriteReceipt, EvidenceInv, Readable, Completed
  <2>5. CASE Remember(x) BY <1>r, <2>5 DEF Remember
  <2>6. CASE UploadFails(x) BY <1>r, <2>6 DEF UploadFails, AfterFailure
  <2>7. QED BY <1>3, <2>1, <2>2, <2>3, <2>4, <2>5, <2>6 DEF Uploads
<1>4. ASSUME NEW x \in Processes, Crash(x) PROVE EvidenceInv'
  BY <1>4, <1>r DEF Crash, Rest
<1>5. CASE UNCHANGED vars
  BY <1>5, <1>r DEF vars
<1>6. QED BY <1>1, <1>2, <1>3, <1>4, <1>5 DEF Next

\* A receipt that names a store is evidence of a completed upload.
THEOREM DrainReceiptsAreEvidence == Spec => []ReceiptsAreEvidence
<1>1. Init => EvidenceInv
  BY Constants, DrainAssumption
     DEF Init, EvidenceInv, AckInv, Readable, Legacy, DrainAssumption
<1>2. Spec => []EvidenceInv
  BY <1>1, EvidenceStep, IInvariant, PTL DEF Spec
<1>3. EvidenceInv => ReceiptsAreEvidence
  BY DEF EvidenceInv, ReceiptsAreEvidence, Completed
<1>4. QED BY <1>2, <1>3, PTL

-------------------------------------------------------------------------------
(* Loss *)

\* A drainer that makes one pass to a destination the spool has never used.
Migrates(d) ==
  /\ d \notin Watch /\ Founding # {} /\ EndpointOf[d] \notin Founding
  /\ \A x \in Processes : EndpointOf[x] = EndpointOf[d] => x = d

\* Whoever may delete is pointed at an endpoint that keeps what it acknowledges, or
\* does no more than migrate.
Trusted == \A d \in Drainers : d \in Keep \/ EndpointOf[d] \in Stores \/ Migrates(d)

\* A migration is known for one as long as it lasts, and by its receipts after that.
Marked(d) ==
  /\ pc[d] \in {"idle", "scan"} => EndpointOf[d] \notin ledger
  /\ pc[d] \notin {"idle", "scan", "exited"} => migrating[d]
  /\ \A p \in Packages : Readable(p) /\ receipt[p].endpoint = EndpointOf[d] =>
       receipt[p].migration

MigrationInv == \A d \in Drainers : Migrates(d) => Marked(d)

\* Nobody else enters the destination in the ledger or in a receipt, and the guard of
\* the one pass finds it new.
LEMMA MigrationStep == IInv /\ HostInv /\ MigrationInv /\ [Next]_vars => MigrationInv'
<1> SUFFICES ASSUME IInv, HostInv, MigrationInv, [Next]_vars, NEW m \in Drainers, Migrates(m)
             PROVE  Marked(m)'
  BY DEF MigrationInv, Migrates
<1>t. /\ pc \in [Processes -> Places] /\ cur \in [Processes -> 0..N]
      /\ receipt \in [Packages -> ReceiptContent \cup {NoReceipt, Torn}]
      /\ migrating \in [Processes -> BOOLEAN]
  BY DEF IInv, TypeOK, UploadType, SpoolType, ScanType
<1>m. /\ m \in Processes /\ m \notin Workers /\ m \notin Watch
      /\ \A x \in Processes : EndpointOf[x] = EndpointOf[m] => x = m
  BY Constants DEF Migrates
<1>i. /\ pc[m] \in {"idle", "scan"} => EndpointOf[m] \notin ledger
      /\ pc[m] \notin {"idle", "scan", "exited"} => migrating[m]
      /\ \A p \in Packages : Readable(p) /\ receipt[p].endpoint = EndpointOf[m] =>
           receipt[p].migration
  BY DEF MigrationInv, Marked
\* A step of another process, or one within the pass.
<1>r. ASSUME UNCHANGED <<receipt, ledger>>,
             \/ pc'[m] = pc[m] /\ migrating'[m] = migrating[m]
             \/ pc[m] \notin {"idle", "scan", "exited"} /\ migrating'[m] = migrating[m]
                /\ pc'[m] \notin {"idle", "scan"}
             \/ pc'[m] = "exited"
      PROVE  Marked(m)'
  BY <1>i, <1>r DEF Readable, Marked
<1> USE <1>t, <1>m DEF spoolVars, scanVars, uploadVars, historyVars, Goto
<1>1. ASSUME NEW w \in Workers, Publish(w) PROVE Marked(m)'
  BY <1>1, <1>r DEF Publish
<1>2. ASSUME NEW d \in Drainers, Passes(d) PROVE Marked(m)'
  <2>0. d \in Processes
    BY Constants
  <2>1. CASE Begin(d) BY <1>i, <2>0, <2>1 DEF Begin, Readable, Marked
  <2>2. ASSUME NEW p \in Packages, Look(d, p) PROVE Marked(m)'
    BY <1>r, <2>2 DEF Look
  <2>3. CASE Guard(d)
    <3>1. CASE d # m BY <1>r, <2>0, <2>3, <3>1 DEF Guard, Rest
    <3>2. CASE d = m
      <4>1. Changed(m) BY <1>i, <2>3, <3>2 DEF Guard, Changed, HostInv, Migrates
      <4>2. CASE Refused(d) BY <1>r, <2>3, <3>2, <4>2 DEF Guard, Rest
      <4>3. CASE ~Refused(d)
        <5>1. UNCHANGED receipt /\ pc'[m] = "purge" /\ migrating'[m]
          BY <2>3, <3>2, <4>1, <4>3 DEF Guard
        <5>2. QED BY <1>i, <5>1 DEF Readable, Marked
      <4>4. QED BY <4>2, <4>3
    <3>3. QED BY <3>1, <3>2
  <2>4. ASSUME NEW p \in Packages, Purge(d, p) PROVE Marked(m)'
    BY <1>r, <2>4 DEF Purge
  <2>5. CASE Purged(d) BY <1>r, <2>5 DEF Purged
  <2>6. CASE Pick(d) BY <1>r, <2>6 DEF Pick, Rest
  <2>7. CASE Unlink(d)
    <3>1. /\ UNCHANGED <<ledger, pc, migrating>>
          /\ \A p \in Packages : receipt'[p] = receipt[p] \/ receipt'[p] = NoReceipt
      BY <2>7 DEF Unlink
    <3>2. QED BY <1>i, <3>1 DEF Readable, Marked
  <2>8. CASE Unlinked(d) BY <1>r, <2>8 DEF Unlinked, Unlinking, AfterUnlink
  <2>9. QED BY <1>2, <2>1, <2>2, <2>3, <2>4, <2>5, <2>6, <2>7, <2>8 DEF Passes
<1>3. ASSUME NEW x \in Processes, Uploads(x) \/ UploadFails(x) PROVE Marked(m)'
  <2>1. CASE Put(x) BY <1>r, <2>1 DEF Put
  <2>2. CASE Complete(x) BY <1>r, <2>2 DEF Complete, AfterFailure
  <2>3. CASE Acknowledge(x)
    <3>1. /\ UNCHANGED <<ledger, migrating>>
          /\ \A p \in Packages : receipt'[p] = receipt[p] \/ receipt'[p] = Torn
      BY <2>3 DEF Acknowledge
    <3>2. \/ pc'[m] = pc[m]
          \/ pc[m] = "ack" /\ pc'[m] \notin {"idle", "scan"}
      BY <2>3 DEF Acknowledge
    <3>3. QED BY <1>i, <3>1, <3>2 DEF Readable, Marked
  <2>4. CASE WriteReceipt(x)
    <3>1. /\ UNCHANGED <<ledger, migrating>> /\ pc[x] = "receipt"
          /\ \A p \in Packages :
               \/ receipt'[p] = receipt[p]
               \/ receipt'[p].endpoint = EndpointOf[x] /\ receipt'[p].migration = migrating[x]
      BY <2>4 DEF WriteReceipt
    <3>2. \/ pc'[m] = pc[m]
          \/ pc[m] = "receipt" /\ pc'[m] \notin {"idle", "scan"}
      BY <2>4 DEF WriteReceipt
    <3>3. x = m => migrating[x]
      BY <1>i, <3>1
    <3>4. \A p \in Packages : Readable(p)' /\ receipt'[p].endpoint = EndpointOf[m] =>
            receipt'[p].migration
      BY <1>i, <3>1, <3>3 DEF Readable
    <3>5. QED BY <1>i, <3>1, <3>2, <3>4 DEF Marked
  <2>5. CASE Remember(x)
    <3>1. CASE x = m
      <4>1. UNCHANGED <<receipt, migrating>> /\ pc[m] = "remember" /\ pc'[m] = "pick"
        BY <2>5, <3>1 DEF Remember
      <4>2. QED BY <1>i, <4>1 DEF Readable, Marked
    <3>2. CASE x # m
      <4>1. UNCHANGED <<receipt, migrating>> /\ pc'[m] = pc[m]
        BY <2>5, <3>2 DEF Remember
      <4>2. ledger' = ledger \cup {EndpointOf[x]} /\ EndpointOf[x] # EndpointOf[m]
        BY <2>5, <3>2 DEF Remember
      <4>3. QED BY <1>i, <4>1, <4>2 DEF Readable, Marked
    <3>3. QED BY <3>1, <3>2
  <2>6. CASE UploadFails(x) BY <1>r, <2>6 DEF UploadFails, AfterFailure
  <2>7. QED BY <1>3, <2>1, <2>2, <2>3, <2>4, <2>5, <2>6 DEF Uploads
<1>4. ASSUME NEW x \in Processes, Crash(x) PROVE Marked(m)'
  <2>1. CASE x = m BY <1>4, <1>r, <2>1 DEF Crash, Rest
  <2>2. CASE x # m
    <3>1. UNCHANGED <<receipt, ledger>> /\ pc'[m] = pc[m] /\ migrating'[m] = migrating[m]
      BY <1>4, <2>2 DEF Crash, Rest
    <3>2. QED BY <1>r, <3>1
  <2>3. QED BY <2>1, <2>2
<1>5. CASE UNCHANGED vars
  BY <1>5, <1>r DEF vars
<1>6. QED BY <1>1, <1>2, <1>3, <1>4, <1>5 DEF Next

\* Nothing is deleted by a migration.
LEMMA OnlyTrustedDelete ==
  ASSUME Trusted, IInv, MigrationInv, NEW d \in Drainers
  PROVE  /\ \A p \in Packages : pc[d] = "purge" /\ d \notin Keep /\ Proves(p, d) =>
              EndpointOf[d] \in Stores
         /\ pc[d] = "ack" /\ ~KeepsCopy(d) => EndpointOf[d] \in Stores
<1>1. CASE d \in Keep \/ EndpointOf[d] \in Stores
  BY <1>1 DEF KeepsCopy
<1>2. CASE Migrates(d)
  <2>1. pc[d] = "ack" => KeepsCopy(d)
    BY <1>2 DEF MigrationInv, Marked, KeepsCopy
  <2>2. \A p \in Packages : ~Proves(p, d)
    BY <1>2 DEF MigrationInv, Marked, Proves, Covers
  <2>3. QED BY <2>1, <2>2
<1>3. QED BY <1>1, <1>2 DEF Trusted

Held(p) == \E e \in Stores : <<p, e>> \in whole

\* An upload has put every object so far, unless some store had the package before.
PutInv ==
  \A x \in Processes :
    pc[x] = "put" => \/ Held(cur[x])
                     \/ \A i \in 1..(at[x] - 1) : Objects[i] \in sent[x]

\* A store that acknowledged holds the package.
AckedInv ==
  \A x \in Processes :
    pc[x] \in {"ack", "receipt"} /\ EndpointOf[x] \in Stores => Held(cur[x])

\* Only what a store holds is being deleted.
DeleteInv == \A d \in Drainers : Unlinking(d) => Held(cur[d])

ReceiptInv ==
  \A p \in Packages : Readable(p) /\ receipt[p].endpoint \in Stores => Held(p)

CopyInv == \A p \in Packages : AllObjects \subseteq files[p] \/ Held(p)

LossInv == PutInv /\ AckedInv /\ DeleteInv /\ ReceiptInv /\ CopyInv

\* All the objects have been put once the counter is past them.
LEMMA AllPut ==
  ASSUME NEW s \in SUBSET AllObjects, \A i \in 1..Len(Objects) : Objects[i] \in s
  PROVE  s = AllObjects
  BY DrainAssumption DEF DrainAssumption, AllObjects

\* What is deleted is held by a store, and an upload that misses an object finds the
\* package held already.
LEMMA LossStep ==
  ASSUME Trusted PROVE IInv /\ MigrationInv /\ LossInv /\ [Next]_vars => LossInv'
<1> SUFFICES ASSUME IInv, MigrationInv, LossInv, [Next]_vars PROVE LossInv'
  OBVIOUS
<1>t. /\ pc \in [Processes -> Places] /\ cur \in [Processes -> 0..N]
      /\ at \in [Processes -> 1..(Len(Objects) + 1)]
      /\ sent \in [Processes -> SUBSET AllObjects]
      /\ files \in [Packages -> SUBSET (AllObjects \cup {Manifest})]
      /\ receipt \in [Packages -> ReceiptContent \cup {NoReceipt, Torn}]
  BY DEF IInv, TypeOK, UploadType, SpoolType
<1>e. \A i \in 1..(1 - 1) : FALSE
  OBVIOUS
<1>b. \A x \in Processes : pc[x] \in Busy => cur[x] \in Packages
  BY DEF IInv, BusyInv
<1>r. ASSUME UNCHANGED <<files, receipt>>, \A p : Held(p) => Held(p)',
             PutInv', AckedInv', DeleteInv'
      PROVE  LossInv'
  BY <1>r DEF LossInv, ReceiptInv, CopyInv, Readable
\* A process that moves elsewhere than to these places disturbs nothing.
<1>s. ASSUME UNCHANGED <<files, receipt, whole>>,
             \A x \in Processes :
               pc'[x] \in {"put", "ack", "receipt", "unlinkOld", "unlinkShipped"} =>
                 pc[x] = pc'[x] /\ cur[x] = cur'[x] /\ at[x] = at'[x] /\ sent[x] = sent'[x]
      PROVE  LossInv'
  BY <1>s, <1>r, Constants DEF LossInv, PutInv, AckedInv, DeleteInv, Unlinking, Held
<1> USE <1>t, Constants
    DEF spoolVars, scanVars, uploadVars, historyVars, Goto, Work
<1>1. ASSUME NEW w \in Workers, Publish(w) PROVE LossInv'
  <2>0. at'[w] = 1 /\ \A x \in Processes \ {w} :
          pc'[x] = pc[x] /\ cur'[x] = cur[x] /\ at'[x] = at[x] /\ sent'[x] = sent[x]
    BY <1>1 DEF Publish
  <2>1. PutInv' BY <1>1, <1>e, <2>0 DEF Publish, PutInv, LossInv, Held
  <2>2. AckedInv' /\ DeleteInv'
    BY <1>1 DEF Publish, AckedInv, DeleteInv, LossInv, Held, Unlinking
  <2>3. ReceiptInv' /\ CopyInv'
    BY <1>1 DEF Publish, ReceiptInv, CopyInv, LossInv, Held, Readable
  <2>4. QED BY <2>1, <2>2, <2>3 DEF LossInv
<1>2. ASSUME NEW d \in Drainers, Passes(d) PROVE LossInv'
  <2>1. CASE Begin(d) BY <1>s, <2>1 DEF Begin
  <2>2. ASSUME NEW p \in Packages, Look(d, p) PROVE LossInv'
    BY <1>s, <2>2 DEF Look
  <2>3. CASE Guard(d) BY <1>s, <2>3 DEF Guard, Rest
  <2>4. ASSUME NEW p \in Packages, Purge(d, p) PROVE LossInv'
    <3>1. CASE UNCHANGED <<pc, uploadVars>> BY <1>s, <2>4, <3>1 DEF Purge
    <3>2. CASE Proves(p, d) /\ Goto(d, "unlinkOld") /\ Work(d, p)
      <4>1. EndpointOf[d] \in Stores BY <2>4, <3>2, OnlyTrustedDelete DEF Purge
      <4>2. Held(p)
        BY <3>2, <4>1, DrainAssumption
           DEF Proves, Covers, LossInv, ReceiptInv, DrainAssumption
      <4>3. PutInv' /\ AckedInv' /\ DeleteInv'
        BY <2>4, <3>2, <4>2
           DEF Purge, LossInv, PutInv, AckedInv, DeleteInv, Unlinking, Held
      <4>4. QED BY <1>r, <2>4, <4>3 DEF Purge, Held
    <3>3. QED BY <2>4, <3>1, <3>2 DEF Purge
  <2>5. CASE Purged(d) BY <1>s, <2>5 DEF Purged
  <2>6. CASE Pick(d)
    <3>0. at'[d] = 1 /\ UNCHANGED whole /\ \A x \in Processes \ {d} :
            pc'[x] = pc[x] /\ cur'[x] = cur[x] /\ at'[x] = at[x] /\ sent'[x] = sent[x]
      BY <2>6 DEF Pick, Rest
    <3>1. PutInv' BY <1>e, <3>0 DEF LossInv, PutInv, Held
    <3>2. AckedInv' /\ DeleteInv'
      BY <2>6, ZenonT(60) DEF Pick, Rest, LossInv, AckedInv, DeleteInv, Unlinking, Held
    <3>3. QED BY <1>r, <2>6, <3>1, <3>2 DEF Pick, Held
  <2>7. CASE Unlink(d)
    <3>1. Held(cur[d]) BY <2>7 DEF Unlink, LossInv, DeleteInv
    <3>2. PutInv' /\ AckedInv' /\ DeleteInv'
      BY <2>7 DEF Unlink, LossInv, PutInv, AckedInv, DeleteInv, Unlinking, Held
    <3>3. CopyInv' BY <2>7, <3>1 DEF Unlink, LossInv, CopyInv, Held
    <3>4. ReceiptInv' BY <2>7, <3>1 DEF Unlink, LossInv, ReceiptInv, Readable, Held
    <3>5. QED BY <3>2, <3>3, <3>4 DEF LossInv
  <2>8. CASE Unlinked(d) BY <1>s, <2>8 DEF Unlinked, AfterUnlink
  <2>9. QED BY <1>2, <2>1, <2>2, <2>3, <2>4, <2>5, <2>6, <2>7, <2>8 DEF Passes
<1>3. ASSUME NEW x \in Processes, Uploads(x) \/ UploadFails(x) PROVE LossInv'
  <2>1. CASE Put(x)
    <3>0. cur[x] \in Packages BY <1>b, <2>1 DEF Put, Busy
    <3>1. \/ Held(cur[x])
          \/ (\A i \in 1..(at'[x] - 1) : Objects[i] \in sent'[x])
      <4>1. CASE Objects[at[x]] \in files[cur[x]]
        BY <2>1, <4>1 DEF Put, LossInv, PutInv
      <4>2. CASE Objects[at[x]] \notin files[cur[x]]
        BY <2>1, <3>0, <4>2 DEF Put, LossInv, CopyInv
      <4>3. QED BY <4>1, <4>2
    <3>2. PutInv' BY <2>1, <3>1 DEF Put, LossInv, PutInv, Held
    <3>3. AckedInv' /\ DeleteInv'
      BY <2>1 DEF Put, LossInv, AckedInv, DeleteInv, Unlinking, Held
    <3>4. QED BY <1>r, <2>1, <3>2, <3>3 DEF Put, Held
  <2>2. CASE Complete(x)
    <3>1. whole \subseteq whole'
      BY <2>2 DEF Complete
    <3>2. \A p : Held(p) => Held(p)' BY <3>1 DEF Held
    <3>3. Held(cur[x]) \/ sent[x] = AllObjects
      <4>1. at[x] - 1 = Len(Objects) BY <2>2 DEF Complete
      <4>2. Held(cur[x]) \/ \A i \in 1..Len(Objects) : Objects[i] \in sent[x]
        BY <2>2, <4>1 DEF Complete, LossInv, PutInv
      <4>3. sent[x] \in SUBSET AllObjects OBVIOUS
      <4>4. QED BY <4>2, <4>3, AllPut
    <3>4. EndpointOf[x] \in Stores => Held(cur[x])'
      <4>1. CASE Held(cur[x]) BY <2>2, <3>1, <4>1 DEF Complete, Held
      <4>2. CASE sent[x] = AllObjects BY <2>2, <4>2 DEF Complete, Held
      <4>3. QED BY <3>3, <4>1, <4>2
    <3>5. UNCHANGED cur BY <2>2 DEF Complete
    <3>6. PutInv' BY <2>2, <3>2, <3>5 DEF Complete, AfterFailure, LossInv, PutInv, Held
    <3>7. AckedInv'
      BY <2>2, <3>2, <3>4, <3>5 DEF Complete, AfterFailure, LossInv, AckedInv, Held
    <3>8. DeleteInv'
      BY <2>2, <3>2, <3>5 DEF Complete, AfterFailure, LossInv, DeleteInv, Unlinking, Held
    <3>9. QED BY <1>r, <2>2, <3>2, <3>6, <3>7, <3>8 DEF Complete
  <2>3. CASE Acknowledge(x)
    <3>1. ~KeepsCopy(x) => Held(cur[x])
      <4>1. ~KeepsCopy(x) => x \in Drainers BY DEF KeepsCopy
      <4>2. ~KeepsCopy(x) => EndpointOf[x] \in Stores
        BY <2>3, <4>1, OnlyTrustedDelete DEF Acknowledge
      <4>3. QED BY <2>3, <4>2 DEF Acknowledge, LossInv, AckedInv
    <3>2. PutInv' /\ AckedInv'
      BY <2>3 DEF Acknowledge, LossInv, PutInv, AckedInv, Held
    <3>3. DeleteInv' BY <2>3, <3>1 DEF Acknowledge, LossInv, DeleteInv, Unlinking, Held
    <3>4. ReceiptInv' BY <2>3 DEF Acknowledge, LossInv, ReceiptInv, Readable, Held
    <3>5. CopyInv' BY <2>3 DEF Acknowledge, LossInv, CopyInv, Held
    <3>6. QED BY <3>2, <3>3, <3>4, <3>5 DEF LossInv
  <2>4. CASE WriteReceipt(x)
    <3>1. PutInv' /\ AckedInv' /\ DeleteInv'
      BY <2>4 DEF WriteReceipt, LossInv, PutInv, AckedInv, DeleteInv, Unlinking, Held
    <3>2. EndpointOf[x] \in Stores => Held(cur[x])
      BY <2>4 DEF WriteReceipt, LossInv, AckedInv
    <3>3. ReceiptInv' BY <2>4, <3>2 DEF WriteReceipt, LossInv, ReceiptInv, Readable, Held
    <3>4. CopyInv' BY <2>4 DEF WriteReceipt, LossInv, CopyInv, Held
    <3>5. QED BY <3>1, <3>3, <3>4 DEF LossInv
  <2>5. CASE Remember(x) BY <1>s, <2>5 DEF Remember
  <2>6. CASE UploadFails(x) BY <1>s, <2>6 DEF UploadFails, AfterFailure
  <2>7. QED BY <1>3, <2>1, <2>2, <2>3, <2>4, <2>5, <2>6 DEF Uploads
<1>4. ASSUME NEW x \in Processes, Crash(x) PROVE LossInv'
  BY <1>4, <1>s DEF Crash, Rest
<1>5. CASE UNCHANGED vars
  BY <1>5, <1>s DEF vars
<1>6. QED BY <1>1, <1>2, <1>3, <1>4, <1>5 DEF Next

\* No call is lost by drainers that are pointed at stores or make one pass to a new
\* destination, whoever else runs, dies or deletes at the same time.
THEOREM DrainNoCallLost == ASSUME Trusted PROVE Spec => []NoCallLost
<1>1. Init => LossInv
  BY Constants, DrainAssumption
     DEF Init, LossInv, PutInv, AckedInv, DeleteInv, ReceiptInv, CopyInv, Readable,
         Legacy, Unlinking, DrainAssumption
<1>2. IInv /\ MigrationInv /\ LossInv /\ [Next]_vars => LossInv'
  BY LossStep
<1>3. Init => MigrationInv
  BY Constants, DrainAssumption
     DEF Init, MigrationInv, Marked, Migrates, Readable, Legacy, DrainAssumption
<1>4. Spec => []MigrationInv
  BY <1>3, MigrationStep, HostInvariant, IInvariant, PTL DEF Spec
<1>5. Spec => []LossInv
  BY <1>1, <1>2, <1>4, IInvariant, PTL DEF Spec
<1>6. IInv /\ LossInv => NoCallLost
  BY DEF LossInv, CopyInv, NoCallLost, Held, IInv, TypeOK, HistoryType
<1>7. QED BY <1>5, <1>6, IInvariant, PTL
===============================================================================

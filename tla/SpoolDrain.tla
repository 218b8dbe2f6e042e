------------------------------ MODULE SpoolDrain ------------------------------
(***************************************************************************)
(* drain.py, _spool.py and the shipping half of LiveKitRecorder.finish():  *)
(* finalized packages lie on a spool until some process has shipped them   *)
(* and, perhaps, removed them.                                             *)
(*                                                                         *)
(* Nothing but the file system is shared: the worker that recorded a call  *)
(* uploads it in-process while drainers, one-shot or watching, read and    *)
(* delete the same directories; each process is pointed at one endpoint.   *)
(* None of them takes a lock, so every file operation is a step, and a     *)
(* process may be killed between any two.                                  *)
(*                                                                         *)
(* A package is a number, the order of started_at.  The backend is         *)
(* external: an endpoint in Stores keeps what a completed upload named,    *)
(* any other (a mistyped host) answers 2xx and keeps nothing.              *)
(***************************************************************************)
EXTENDS Naturals, Sequences

CONSTANTS N,            \* packages 1..N
          Workers, Drainers,
          Records,      \* worker -> the package it records
          EndpointOf,   \* process -> its configured endpoint
          Yes,          \* drainers started with --yes
          Keep,         \* drainers started with --keep
          Watch,        \* drainers started with --watch
          Stores,       \* endpoints that keep what they acknowledge
          Founding,     \* the destinations in the ledger at the start
          Unshippable,  \* packages whose upload always fails
          Objects,      \* PACKAGE_OBJECTS, the sequence of files uploaded
          Manifest,     \* manifest.json
          MaxMishaps,   \* bound of the model: failed uploads, lost answers, files
                        \* that resist, processes killed
          NoReceipt, Torn, NoEndpoint

Packages == 1..N
AllObjects == {Objects[i] : i \in DOMAIN Objects}
Processes == Workers \cup Drainers
Endpoints == {EndpointOf[x] : x \in Processes} \cup Founding

ASSUME DrainAssumption ==
  /\ N \in Nat /\ MaxMishaps \in Nat
  /\ Workers \cap Drainers = {}
  /\ Records \in [Workers -> Packages]
  /\ Yes \cup Keep \cup Watch \subseteq Drainers
  /\ NoEndpoint \notin Endpoints \cup Stores
  /\ Objects \in Seq(AllObjects) /\ Manifest \notin AllObjects

ReceiptContent == [endpoint : Endpoints \cup {NoEndpoint}, migration : BOOLEAN]

\* A receipt of an older version, which names no endpoint.
Legacy == [endpoint |-> NoEndpoint, migration |-> FALSE]

VARIABLES
  files,      \* per package, its objects and manifest on the spool
  receipt,    \* per package, uploaded.json
  ledger,     \* .vaani-destinations
  pc, cur,    \* per process, where it is, and the package it works on
  at, sent,   \* per process, the next object of cur, and those it has put
  left,       \* per drainer, the directories its scan has not come to
  todo,       \* per drainer, the packages its scan found pending
  delivered,  \* per drainer, those it found delivered
  migrating,  \* per process, the pass is the first to a new destination
  mishaps,
  finalized,  \* history: packages whose manifest was published
  whole,      \* history: <<package, endpoint>> completed with every object
  partial,    \* history: those completed with fewer
  shipped     \* history: <<package, endpoint>> a drainer has put an object of

spoolVars == <<files, receipt, ledger>>
scanVars == <<left, todo, delivered, migrating>>
uploadVars == <<cur, at, sent>>
historyVars == <<finalized, whole, partial, shipped>>
vars == <<spoolVars, pc, uploadVars, scanVars, mishaps, historyVars>>

Recorded == {Records[w] : w \in Workers}

\* Packages nobody records any more lie finalized on the spool, as an older
\* version or a killed worker left them.
Init ==
  /\ files = [p \in Packages |->
                AllObjects \cup IF p \in Recorded THEN {} ELSE {Manifest}]
  /\ receipt \in [Packages -> {NoReceipt, Legacy}]
  /\ \A p \in Recorded : receipt[p] = NoReceipt
  /\ ledger = Founding
  /\ pc = [x \in Processes |-> IF x \in Workers THEN "recording" ELSE "idle"]
  /\ cur = [x \in Processes |-> 0]
  /\ at = [x \in Processes |-> 1] /\ sent = [x \in Processes |-> {}]
  /\ left = [d \in Drainers |-> {}] /\ todo = [d \in Drainers |-> {}]
  /\ delivered = [d \in Drainers |-> {}]
  /\ migrating = [x \in Processes |-> FALSE]
  /\ mishaps = 0
  /\ finalized = Packages \ Recorded
  /\ whole = {} /\ partial = {} /\ shipped = {}

Goto(x, place) == pc' = [pc EXCEPT ![x] = place]

Work(x, p) ==
  /\ cur' = [cur EXCEPT ![x] = p]
  /\ at' = [at EXCEPT ![x] = 1]
  /\ sent' = [sent EXCEPT ![x] = {}]

Mishap == mishaps < MaxMishaps /\ mishaps' = mishaps + 1

Oldest(p, ps) == \A q \in ps : p <= q

Exists(p) == files[p] # {} \/ receipt[p] # NoReceipt

-------------------------------------------------------------------------------
(* Receipts *)

Readable(p) == receipt[p] \notin {NoReceipt, Torn}

\* Enough to skip the package: a receipt for this endpoint, or for none.
Covers(p, d) == Readable(p) /\ receipt[p].endpoint \in {EndpointOf[d], NoEndpoint}

\* Enough to delete it: this very endpoint, and not on an operator's word.
Proves(p, d) ==
  Covers(p, d) /\ receipt[p].endpoint # NoEndpoint /\ ~receipt[p].migration

-------------------------------------------------------------------------------
(* The worker: end() has returned or not, then upload and receipt *)

\* The manifest makes the directory a package; an observer without an upload, or
\* a worker that is never heard of again, leaves it at that.
Publish(w) ==
  /\ pc[w] = "recording"
  /\ files' = [files EXCEPT ![Records[w]] = @ \cup {Manifest}]
  /\ finalized' = finalized \cup {Records[w]}
  /\ Work(w, Records[w])
  /\ Goto(w, "put")
  /\ UNCHANGED <<receipt, ledger, scanVars, mishaps, whole, partial, shipped>>

-------------------------------------------------------------------------------
(* One pass of a drainer, up to the uploads *)

Begin(d) ==
  /\ pc[d] = "idle"
  /\ left' = [left EXCEPT ![d] = Packages]
  /\ Goto(d, "scan")
  /\ UNCHANGED <<spoolVars, uploadVars, todo, delivered, migrating, mishaps,
                 historyVars>>

\* _scan() comes to one directory.
Look(d, p) ==
  /\ pc[d] = "scan" /\ p \in left[d]
  /\ left' = [left EXCEPT ![d] = @ \ {p}]
  /\ LET found == Manifest \in files[p]
     IN  /\ delivered' = IF found /\ Covers(p, d)
                         THEN [delivered EXCEPT ![d] = @ \cup {p}] ELSE delivered
         /\ todo' = IF found /\ ~Covers(p, d)
                    THEN [todo EXCEPT ![d] = @ \cup {p}] ELSE todo
  /\ UNCHANGED <<spoolVars, pc, uploadVars, migrating, mishaps, historyVars>>

\* Bug: no destination is ever a change.
ChangedNever(d) == FALSE

\* _endpoint_change(): the ledger knows destinations, and this is none of them.
Changed(d) == ledger # {} /\ EndpointOf[d] \notin ledger

Rest(d) == Goto(d, IF d \in Watch THEN "idle" ELSE "exited")

\* EndpointChanged ends this pass; a watching drainer tries again later.
Refused(d) == Changed(d) /\ todo[d] # {} /\ d \notin Yes

Guard(d) ==
  /\ pc[d] = "scan" /\ left[d] = {}
  /\ IF Refused(d)
     THEN /\ Rest(d)
          /\ todo' = [todo EXCEPT ![d] = {}] /\ delivered' = [delivered EXCEPT ![d] = {}]
          /\ UNCHANGED migrating
     ELSE /\ Goto(d, "purge")
          /\ migrating' = [migrating EXCEPT ![d] = Changed(d)]
          /\ UNCHANGED <<todo, delivered>>
  /\ UNCHANGED <<spoolVars, uploadVars, left, mishaps, historyVars>>

\* _purge_delivered() comes to one package: the receipt is read again, and may be
\* old enough or not.
Purge(d, p) ==
  /\ pc[d] = "purge" /\ d \notin Keep /\ p \in delivered[d]
  /\ delivered' = [delivered EXCEPT ![d] = @ \ {p}]
  /\ \/ UNCHANGED <<pc, uploadVars>>
     \/ Proves(p, d) /\ Goto(d, "unlinkOld") /\ Work(d, p)
  /\ UNCHANGED <<spoolVars, left, todo, migrating, mishaps, historyVars>>

Purged(d) ==
  /\ pc[d] = "purge" /\ (d \in Keep \/ delivered[d] = {})
  /\ delivered' = [delivered EXCEPT ![d] = {}]
  /\ Goto(d, "pick")
  /\ UNCHANGED <<spoolVars, uploadVars, left, todo, migrating, mishaps,
                 historyVars>>

\* The oldest of what is left to ship, or the end of the pass.
Pick(d) ==
  /\ pc[d] = "pick"
  /\ IF todo[d] = {} THEN Rest(d) /\ Work(d, 0) /\ UNCHANGED todo
     ELSE \E p \in todo[d] :
            /\ Oldest(p, todo[d])
            /\ Work(d, p)
            /\ todo' = [todo EXCEPT ![d] = @ \ {p}]
            /\ Goto(d, "put")
  /\ UNCHANGED <<spoolVars, left, delivered, migrating, mishaps, historyVars>>

-------------------------------------------------------------------------------
(* upload_package_sync() *)

\* One object is read and put; a file that is not there is passed over.
Put(x) ==
  /\ pc[x] = "put" /\ at[x] <= Len(Objects) /\ cur[x] \notin Unshippable
  /\ at' = [at EXCEPT ![x] = @ + 1]
  /\ IF Objects[at[x]] \in files[cur[x]]
     THEN /\ sent' = [sent EXCEPT ![x] = @ \cup {Objects[at[x]]}]
          /\ shipped' = IF x \in Workers THEN shipped
                        ELSE shipped \cup {<<cur[x], EndpointOf[x]>>}
     ELSE UNCHANGED <<sent, shipped>>
  /\ UNCHANGED <<spoolVars, pc, cur, scanVars, mishaps, finalized, whole, partial>>

\* Bug: a failed upload ends the pass.
AfterFailureRest(x) == IF x \in Watch THEN "idle" ELSE "exited"

\* Bug: a failed upload is taken for a delivered one.
AfterFailureAck(x) == "ack"

\* The worker leaves the package to the drain; a drainer goes on to the next one.
AfterFailure(x) == IF x \in Workers THEN "done" ELSE "pick"

\* The backend takes the list of objects; its answer may be lost.
Complete(x) ==
  /\ pc[x] = "put" /\ at[x] = Len(Objects) + 1
  /\ LET upload == {<<cur[x], EndpointOf[x]>>}
         all == sent[x] = AllObjects
     IN  /\ whole' = IF all /\ EndpointOf[x] \in Stores THEN whole \cup upload ELSE whole
         /\ partial' = IF all THEN partial ELSE partial \cup upload
  /\ \/ Goto(x, "ack") /\ UNCHANGED mishaps
     \/ Mishap /\ Goto(x, AfterFailure(x))
  /\ Work(x, cur[x])
  /\ UNCHANGED <<spoolVars, scanVars, finalized, shipped>>

\* No connection, an error status, or the budget is spent.
UploadFails(x) ==
  /\ pc[x] = "put"
  /\ IF cur[x] \in Unshippable THEN UNCHANGED mishaps
     ELSE Mishap
  /\ Goto(x, AfterFailure(x))
  /\ Work(x, cur[x])
  /\ UNCHANGED <<spoolVars, scanVars, historyVars>>

-------------------------------------------------------------------------------
(* _acknowledge(), _mark_delivered() and remember_destination() *)

\* Bug: the pass that opens a new destination removes what it has shipped there.
KeepsCopyIfAsked(x) == x \in Workers \cup Keep

KeepsCopy(x) == x \in Workers \cup Keep \/ migrating[x]

\* open("w") leaves an empty receipt behind; it fails if the directory is gone.
Acknowledge(x) ==
  /\ pc[x] = "ack"
  /\ IF ~KeepsCopy(x) THEN Goto(x, "unlinkShipped") /\ UNCHANGED receipt
     ELSE IF ~Exists(cur[x]) THEN Goto(x, "remember") /\ UNCHANGED receipt
     ELSE Goto(x, "receipt") /\ receipt' = [receipt EXCEPT ![cur[x]] = Torn]
  /\ UNCHANGED <<files, ledger, uploadVars, scanVars, mishaps, historyVars>>

\* What is written to an unlinked file is gone.
WriteReceipt(x) ==
  /\ pc[x] = "receipt"
  /\ receipt' = IF receipt[cur[x]] = NoReceipt THEN receipt
                ELSE [receipt EXCEPT ![cur[x]] = [endpoint |-> EndpointOf[x],
                                                  migration |-> migrating[x]]]
  /\ Goto(x, "remember")
  /\ UNCHANGED <<files, ledger, uploadVars, scanVars, mishaps, historyVars>>

Unlinking(d) == pc[d] \in {"unlinkOld", "unlinkShipped"}

\* rmtree() removes the files in any order, ...
Unlink(d) ==
  /\ Unlinking(d)
  /\ \/ \E f \in files[cur[d]] :
          files' = [files EXCEPT ![cur[d]] = @ \ {f}] /\ UNCHANGED receipt
     \/ /\ receipt[cur[d]] # NoReceipt
        /\ receipt' = [receipt EXCEPT ![cur[d]] = NoReceipt] /\ UNCHANGED files
  /\ UNCHANGED <<ledger, pc, uploadVars, scanVars, mishaps, historyVars>>

AfterUnlink(d) == IF pc[d] = "unlinkOld" THEN "purge" ELSE "remember"

\* ... until the directory is gone or a file resists: both callers go on.
Unlinked(d) ==
  /\ Unlinking(d)
  /\ IF ~Exists(cur[d]) THEN UNCHANGED mishaps
     ELSE Mishap
  /\ Goto(d, AfterUnlink(d))
  /\ UNCHANGED <<spoolVars, uploadVars, scanVars, historyVars>>

Remember(x) ==
  /\ pc[x] = "remember"
  /\ ledger' = ledger \cup {EndpointOf[x]}
  /\ Goto(x, IF x \in Workers THEN "done" ELSE "pick")
  /\ Work(x, 0)
  /\ UNCHANGED <<files, receipt, scanVars, mishaps, historyVars>>

-------------------------------------------------------------------------------
\* SIGKILL; a supervisor restarts a watching drainer.
Crash(x) ==
  /\ pc[x] \notin {"idle", "exited", "done"} /\ Mishap
  /\ IF x \in Workers THEN Goto(x, "done") ELSE Rest(x)
  /\ Work(x, 0)
  /\ IF x \in Workers THEN UNCHANGED scanVars
     ELSE /\ left' = [left EXCEPT ![x] = {}] /\ todo' = [todo EXCEPT ![x] = {}]
          /\ delivered' = [delivered EXCEPT ![x] = {}]
          /\ migrating' = [migrating EXCEPT ![x] = FALSE]
  /\ UNCHANGED <<spoolVars, historyVars>>

Uploads(x) ==
  \/ Put(x) \/ Complete(x) \/ Acknowledge(x) \/ WriteReceipt(x) \/ Remember(x)
  \/ cur[x] \in Unshippable /\ UploadFails(x)

Passes(d) ==
  \/ Begin(d) \/ Guard(d) \/ Purged(d) \/ Pick(d) \/ Unlink(d) \/ Unlinked(d)
  \/ \E p \in Packages : Look(d, p) \/ Purge(d, p)

Next ==
  \/ \E w \in Workers : Publish(w)
  \/ \E d \in Drainers : Passes(d)
  \/ \E x \in Processes : Uploads(x) \/ UploadFails(x) \/ Crash(x)

(***************************************************************************)
(* Fairness.  A watching drainer never stops: it sleeps between passes and *)
(* its requests end, with or without success.  Nothing is asked of workers *)
(* (they are killed on a deadline) nor of one-shot drainers.               *)
(***************************************************************************)
Spec ==
  /\ Init /\ [][Next]_vars
  /\ \A d \in Watch : WF_vars(Passes(d) \/ Uploads(d))

-------------------------------------------------------------------------------
(* Properties *)

SpoolType ==
  /\ files \in [Packages -> SUBSET (AllObjects \cup {Manifest})]
  /\ receipt \in [Packages -> ReceiptContent \cup {NoReceipt, Torn}]
  /\ ledger \in SUBSET Endpoints

Places == {"recording", "idle", "scan", "purge", "pick", "put", "ack", "receipt",
           "remember", "unlinkOld", "unlinkShipped", "exited", "done"}

UploadType ==
  /\ cur \in [Processes -> 0..N]
  /\ at \in [Processes -> 1..(Len(Objects) + 1)]
  /\ sent \in [Processes -> SUBSET AllObjects]

ScanType ==
  /\ left \in [Drainers -> SUBSET Packages]
  /\ todo \in [Drainers -> SUBSET Packages]
  /\ delivered \in [Drainers -> SUBSET Packages]
  /\ migrating \in [Processes -> BOOLEAN]

\* A drainer at rest has let go of its scan.
RestType ==
  \A d \in Drainers :
    pc[d] \in {"idle", "exited"} => left[d] \cup todo[d] \cup delivered[d] = {}

HistoryType ==
  /\ finalized \in SUBSET Packages
  /\ whole \in SUBSET (Packages \X Endpoints)
  /\ partial \in SUBSET (Packages \X Endpoints)
  /\ shipped \in SUBSET (Packages \X Endpoints)

TypeOK ==
  /\ SpoolType /\ UploadType /\ ScanType /\ RestType /\ HistoryType
  /\ pc \in [Processes -> Places]
  /\ mishaps \in 0..MaxMishaps

\* No call is ever lost: a finalized package is whole on the spool, or some
\* endpoint that keeps what it is sent has completed all of it, whoever deletes,
\* crashes or stops half-way through a directory.
NoCallLost ==
  \A p \in finalized :
    \/ AllObjects \subseteq files[p]
    \/ \E e \in Stores : <<p, e>> \in whole

\* A receipt that names an endpoint is evidence: that endpoint has acknowledged the
\* package.  Both the skip and the TTL purge trust it.
ReceiptsAreEvidence ==
  \A p \in Packages :
    Readable(p) /\ receipt[p].endpoint \in Stores =>
      <<p, receipt[p].endpoint>> \in whole \cup partial

\* Drainers ship raw call audio only to hosts the spool is known to use: those of
\* its ledger, of the workers that record to it, and those confirmed with --yes.
KnownHosts == Founding \cup {EndpointOf[x] : x \in Workers \cup Yes}

OnlyKnownHosts == Founding # {} => \A s \in shipped : s[2] \in KnownHosts

\* The same without the workers: neither starting nor running an agent against a
\* mistyped endpoint authorises the drain to ship the spool there.
OnlyConfirmedHosts ==
  Founding # {} => \A s \in shipped : s[2] \in Founding \cup {EndpointOf[d] : d \in Yes}

\* What a backend completes is what was recorded, or was completed in full before:
\* shipping a package again is idempotent.
CompletionsWhole == partial = {}

\* Every finalized call is delivered in the end, past packages that cannot be shipped,
\* failed uploads and crashes, as long as one drainer keeps watching.
EveryCallDelivered ==
  \A p \in Packages \ Unshippable :
    p \in finalized /\ receipt[p] # Legacy ~> \E e \in Stores : <<p, e>> \in whole
===============================================================================

------------------------- MODULE InstrumentationProofs -------------------------
(***************************************************************************)
(* Whoever comes and goes, a client is patched while an observer holds the *)
(* patch, a socket carries the wrapper of the one observation that has not *)
(* been detached, and a call has one span.                                 *)
(*                                                                         *)
(* A handle detached twice takes a later observation's wrapper with it     *)
(* (MCDetachTwice.cfg), so the theorems about sockets suppose that the     *)
(* application detaches each of its handles at most once; nothing is       *)
(* supposed of the sessions, whose end() races everything else.            *)
(***************************************************************************)
EXTENDS Instrumentation, FiniteSetTheorems, TLAPS

-------------------------------------------------------------------------------
(* Patches: the reference counts are exact. *)

CountInv == \A k \in Kinds : refcount[k] = Cardinality(Holders(k))

LayerInv == \A k \in Kinds : layers[k] = IF refcount[k] = 0 THEN 0 ELSE 1

PatchInv == PatchTypeOK /\ CountInv /\ LayerInv

LEMMA HoldersFinite ==
  ASSUME NEW k \in Kinds
  PROVE  IsFiniteSet(Holders(k)) /\ Cardinality(Holders(k)) \in Nat
<1>1. IsFiniteSet(Holders(k))
  BY PatchesAssumption, FS_Subset DEF PatchesAssumption, Holders
<1>2. QED BY <1>1, FS_CardinalityType

LEMMA InitPatchInv == PatchInit => PatchInv
<1> SUFFICES ASSUME PatchInit PROVE PatchInv
  OBVIOUS
<1>1. PatchTypeOK
  BY DEF PatchInit, PatchTypeOK
<1>2. \A k \in Kinds : Holders(k) = {}
  BY DEF PatchInit, Holders, Held
<1>3. CountInv
  BY <1>2, FS_EmptySet DEF PatchInit, CountInv
<1>4. LayerInv
  BY DEF PatchInit, LayerInv
<1>5. QED BY <1>1, <1>3, <1>4 DEF PatchInv

\* A new holder counts one more, and is alone with the patch if the count was 0.
LEMMA InstallStep ==
  ASSUME PatchInv, NEW o \in Observers, NEW k \in Kinds, Install(o, k)
  PROVE  PatchInv'
<1>1. PatchTypeOK'
  BY DEF PatchInv, PatchTypeOK, Install, Acquire
<1>2. Holders(k)' = Holders(k) \cup {o} /\ o \notin Holders(k)
  BY DEF Install, Holders, Held, PatchInv, PatchTypeOK
<1>3. \A j \in Kinds \ {k} : Holders(j)' = Holders(j)
  BY DEF Install, Holders, Held, PatchInv, PatchTypeOK
<1>4. Cardinality(Holders(k)') = Cardinality(Holders(k)) + 1
  BY <1>2, HoldersFinite, FS_AddElement
<1>5. CountInv'
  BY <1>3, <1>4 DEF CountInv, PatchInv, PatchTypeOK, Install, Acquire
<1>6. LayerInv'
  BY DEF LayerInv, PatchInv, PatchTypeOK, Install, Acquire
<1>7. QED BY <1>1, <1>5, <1>6 DEF PatchInv

\* One holder less: the count is 0 exactly when it was the last.
LEMMA UninstallStep ==
  ASSUME PatchInv, NEW o \in Observers, NEW k \in Kinds, Uninstall(o, k)
  PROVE  PatchInv'
<1>1. PatchTypeOK'
  BY DEF PatchInv, PatchTypeOK, Uninstall, Release
<1>2. Holders(k)' = Holders(k) \ {o} /\ o \in Holders(k)
  BY DEF Uninstall, Holders, Held, PatchInv, PatchTypeOK
<1>3. \A j \in Kinds \ {k} : Holders(j)' = Holders(j)
  BY DEF Uninstall, Holders, Held, PatchInv, PatchTypeOK
<1>4. Cardinality(Holders(k)') = Cardinality(Holders(k)) - 1
  BY <1>2, HoldersFinite, FS_RemoveElement
<1>5. refcount[k] >= 1 /\ refcount'[k] = refcount[k] - 1
  <2>1. Cardinality(Holders(k)) # 0
    BY <1>2, HoldersFinite, FS_EmptySet
  <2>2. refcount[k] >= 1
    BY <2>1, HoldersFinite DEF PatchInv, CountInv, PatchTypeOK
  <2>3. QED BY <2>2 DEF Uninstall, Release, PatchInv, PatchTypeOK
<1>6. CountInv'
  BY <1>3, <1>4, <1>5 DEF CountInv, PatchInv, PatchTypeOK, Uninstall, Release
<1>7. LayerInv'
  BY <1>5 DEF LayerInv, PatchInv, PatchTypeOK, Uninstall, Release
<1>8. QED BY <1>1, <1>6, <1>7 DEF PatchInv

LEMMA PatchStep == PatchInv /\ [PatchNext]_patchVars => PatchInv'
<1> SUFFICES ASSUME PatchInv, [PatchNext]_patchVars PROVE PatchInv'
  OBVIOUS
<1>1. CASE PatchNext
  BY <1>1, InstallStep, UninstallStep DEF PatchNext
<1>2. CASE UNCHANGED patchVars
  BY <1>2 DEF patchVars, PatchInv, PatchTypeOK, CountInv, LayerInv, Holders, Held
<1>3. QED BY <1>1, <1>2

LEMMA PatchInvImplies == PatchInv => PatchedWhileHeld
<1> SUFFICES ASSUME PatchInv, NEW k \in Kinds
             PROVE  layers[k] = IF Holders(k) = {} THEN 0 ELSE 1
  BY DEF PatchedWhileHeld
<1>1. refcount[k] = 0 <=> Holders(k) = {}
  BY HoldersFinite, FS_EmptySet DEF PatchInv, CountInv
<1>2. QED BY <1>1 DEF PatchInv, LayerInv

\* However many observers come and go, a client is wrapped once while any of them
\* holds the patch, and not at all otherwise.
THEOREM PatchesFollowHolders == PatchSpec => []PatchedWhileHeld
<1>1. PatchSpec => []PatchInv
  BY InitPatchInv, PatchStep, PTL DEF PatchSpec
<1>2. QED BY <1>1, PatchInvImplies, PTL

-------------------------------------------------------------------------------
(* Sockets and calls *)

SocketRecord ==
  [state : {"none", "connecting", "open", "closed"}, session : Sessions \cup {Nothing},
   wrapped : BOOLEAN, promised : BOOLEAN, register : Nat]

HandleRecord ==
  [socket : Sockets, session : Sessions, keeper : {"application", "session"},
   below : Seq(Nat), patched : BOOLEAN, inert : BOOLEAN, closed : BOOLEAN,
   written : Nat, detached : Nat]

Shapes ==
  /\ phase \in [Sessions -> {"live", "ending", "ended"}]
  /\ owned \in [Sessions -> SUBSET Nat] /\ todo \in [Sessions -> SUBSET Nat]
  /\ socket \in [Sockets -> SocketRecord]
  /\ chain \in [Sockets -> Seq(Nat)] /\ marked \in [Sockets -> BOOLEAN]
  /\ handles \in Seq(HandleRecord)

\* Every observation of the socket but g has been detached.
Others(s, g) ==
  \A h \in DOMAIN handles : handles[h].socket = s /\ h # g => handles[h].detached > 0

\* Of a socket that cannot even be remembered, any number may be going.
Bare(s) == chain[s] = <<>> /\ ~marked[s] /\ (s \in Unlisted \/ Others(s, Nothing))

Installed(s, g) == IF s \in Slotted THEN <<>> ELSE <<g>>

WrappedBy(s, g) ==
  /\ s \notin Unlisted
  /\ g \in DOMAIN handles /\ chain[s] = Installed(s, g) /\ marked[s]
  /\ handles[g].socket = s /\ handles[g].detached = 0
  /\ Others(s, g)

\* What a handle would put back, and whether it has anything to take away.
PatchOK(e) ==
  e.below = <<>> /\ (e.patched <=> e.detached = 0 /\ e.socket \notin Slotted)

\* A socket is bare, or marked with its one observation at large, whose wrapper it
\* has if it takes any.
WrapInv ==
  /\ \A s \in Sockets : Bare(s) \/ \E g \in Nat : WrappedBy(s, g)
  /\ \A h \in DOMAIN handles : PatchOK(handles[h])

KeptBy(h, x) ==
  /\ h \in DOMAIN handles /\ handles[h].keeper = "session"
  /\ handles[h].detached = 0 /\ handles[h].session = x

InNoHands(h) == \A s \in Sockets : socket[s].register # h

\* A handle a session is to detach is in one place: the connect that made it, the
\* session's list, or the list of its end().
OwnerInv ==
  /\ \A x \in Sessions : \A h \in owned[x] : KeptBy(h, x) /\ phase[x] = "live" /\ InNoHands(h)
  /\ \A x \in Sessions : \A h \in todo[x] : KeptBy(h, x) /\ phase[x] = "ending" /\ InNoHands(h)
  /\ \A s \in Sockets :
       /\ socket[s].register # Nothing =>
            /\ KeptBy(socket[s].register, socket[s].session)
            /\ handles[socket[s].register].socket = s
       /\ socket[s].state # "none" \/ socket[s].register # Nothing
            => socket[s].session \in Sessions

Observed(s) == \E h \in DOMAIN handles : handles[h].socket = s

PromiseInv ==
  \A s \in Sockets :
    /\ socket[s].state \in {"none", "connecting"} => ~Observed(s)
    /\ socket[s].state = "connecting" /\ socket[s].promised => socket[s].wrapped
    /\ socket[s].state = "open" /\ socket[s].promised => Observed(s)

SocketInv == Shapes /\ WrapInv /\ OwnerInv /\ PromiseInv

-------------------------------------------------------------------------------
(* The sockets *)

LEMMA InitSocketInv == SocketInit => SocketInv
<1> SUFFICES ASSUME SocketInit PROVE SocketInv
  OBVIOUS
<1>1. handles = <<>> /\ DOMAIN handles = {}
  BY DEF SocketInit
<1>2. Shapes
  <2>1. NewSocket \in SocketRecord
    BY DEF NewSocket, SocketRecord, Nothing
  <2>2. <<>> \in Seq(Nat) /\ <<>> \in Seq(HandleRecord)
    OBVIOUS
  <2>3. QED BY <2>1, <2>2 DEF SocketInit, Shapes
<1>3. WrapInv
  <2>1. ASSUME NEW s \in Sockets PROVE Bare(s)
    BY <1>1, Zenon DEF SocketInit, Bare, Others
  <2>2. QED BY <1>1, <2>1 DEF WrapInv
<1>4. OwnerInv
  BY DEF SocketInit, OwnerInv, NewSocket
<1>5. PromiseInv
  BY <1>1 DEF SocketInit, PromiseInv, NewSocket, Observed
<1>6. QED BY <1>2, <1>3, <1>4, <1>5 DEF SocketInv

\* What the last thing of a sequence, and the others, are.
LEMMA Appended ==
  ASSUME NEW S, NEW q \in Seq(S), NEW e \in S
  PROVE  /\ Append(q, e) \in Seq(S) /\ Len(Append(q, e)) = Len(q) + 1
         /\ DOMAIN Append(q, e) = DOMAIN q \cup {Len(q) + 1} /\ Len(q) + 1 \notin DOMAIN q
         /\ Append(q, e)[Len(q) + 1] = e
         /\ \A i \in DOMAIN q : Append(q, e)[i] = q[i] /\ i \in Nat \ {0}
OBVIOUS

\* A bare socket is wrapped, and the observation is the last of the handles.
LEMMA Attaches ==
  ASSUME SocketInv, NEW s \in Sockets, NEW x \in Sessions,
         NEW keeper \in {"application", "session"}, Attach(s, x, keeper),
         ~marked[s]
  PROVE  LET g == Len(handles) + 1
         IN /\ handles' \in Seq(HandleRecord) /\ g \in Nat \ {0}
            /\ DOMAIN handles' = DOMAIN handles \cup {g} /\ g \notin DOMAIN handles
            /\ \A h \in DOMAIN handles : handles'[h] = handles[h]
            /\ handles'[g].socket = s /\ handles'[g].session = x
            /\ handles'[g].keeper = keeper /\ handles'[g].detached = 0
            /\ chain' \in [Sockets -> Seq(Nat)] /\ marked' \in [Sockets -> BOOLEAN]
            /\ WrapInv'
<1>0. PICK g : g = Len(handles) + 1
  OBVIOUS
<1> DEFINE e == [socket |-> s, session |-> x, keeper |-> keeper,
                 below |-> chain[s], patched |-> s \notin Slotted,
                 inert |-> phase[x] = "ended",
                 closed |-> FALSE, written |-> 0, detached |-> 0]
<1>1. chain[s] = <<>> /\ (s \in Unlisted \/ Others(s, Nothing))
  BY DEF SocketInv, WrapInv, Bare, WrappedBy
<1>2. e \in HandleRecord
  BY DEF SocketInv, Shapes, HandleRecord
<1>3. handles' = Append(handles, e) /\ handles \in Seq(HandleRecord)
  BY DEF Attach, SocketInv, Shapes
<1>4. PICK w : w = e
  OBVIOUS
<1>5. /\ w \in HandleRecord /\ w.socket = s /\ w.session = x /\ w.keeper = keeper
      /\ w.detached = 0 /\ PatchOK(w)
  BY <1>1, <1>2, <1>4 DEF PatchOK
<1>6. /\ handles' \in Seq(HandleRecord) /\ g \in Nat \ {0}
      /\ DOMAIN handles' = DOMAIN handles \cup {g} /\ g \notin DOMAIN handles
      /\ \A h \in DOMAIN handles : handles'[h] = handles[h] /\ h \in Nat \ {0}
      /\ handles'[g] = w
  <2>1. handles' = Append(handles, w)
    BY <1>3, <1>4
  <2>2. handles \in Seq(HandleRecord) /\ w \in HandleRecord
    BY <1>3, <1>5
  <2>3. Len(handles) \in Nat
    BY <2>2
  <2>4. QED BY ONLY <2>1, <2>2, <2>3, <1>0, Appended
<1>7. /\ chain' = [chain EXCEPT ![s] = Installed(s, g)]
      /\ marked' = [marked EXCEPT ![s] = s \notin Unlisted]
  <2>1. \A n \in Nat : <<n>> \o <<>> = <<n>>
    OBVIOUS
  <2>2. <<g>> \o chain[s] = <<g>>
    BY ONLY <2>1, <1>1, <1>6
  <2>3. (IF s \in Slotted THEN chain[s] ELSE <<g>> \o chain[s]) = Installed(s, g)
    BY <2>2, <1>1 DEF Installed
  <2>4. QED BY <2>3, <1>0 DEF Attach, InstallOn, SocketInv, Shapes
<1>8. chain' \in [Sockets -> Seq(Nat)] /\ marked' \in [Sockets -> BOOLEAN]
  <2>1. Installed(s, g) \in Seq(Nat)
    BY <1>6 DEF Installed
  <2>2. QED BY <2>1, <1>7 DEF SocketInv, Shapes
<1> HIDE DEF e
<1>9. WrapInv'
  <2>1. ASSUME NEW r \in Sockets PROVE Bare(r)' \/ \E i \in Nat : WrappedBy(r, i)'
    <3>1. CASE r = s /\ s \notin Unlisted
      <4>1. chain'[s] = Installed(s, g) /\ marked'[s]
        BY <1>7, <3>1 DEF SocketInv, Shapes
      <4>2. Others(s, g)'
        BY <1>1, <3>1, <1>6 DEF Others, Nothing
      <4>3. WrappedBy(s, g)'
        BY <3>1, <4>1, <4>2, <1>5, <1>6 DEF WrappedBy, Installed
      <4>4. QED BY <4>3, <3>1, <1>6
    <3>2. CASE r = s /\ s \in Unlisted
      <4>1. chain'[s] = <<>> /\ ~marked'[s]
        BY <1>7, <3>2, SocketAssumption DEF SocketInv, Shapes, Installed, SocketAssumption
      <4>2. QED BY <4>1, <3>2 DEF Bare
    <3>3. CASE r # s /\ Bare(r)
      <4>1. Bare(r)'
        BY <3>3, <1>5, <1>6, <1>7 DEF Bare, Others, SocketInv, Shapes
      <4>2. QED BY <4>1
    <3>4. CASE r # s /\ \E i \in Nat : WrappedBy(r, i)
      <4>1. PICK i \in Nat : WrappedBy(r, i)
        BY <3>4
      <4>2. WrappedBy(r, i)'
        BY <4>1, <3>4, <1>5, <1>6, <1>7 DEF WrappedBy, Others, Installed, SocketInv, Shapes
      <4>3. QED BY <4>2
    <3>5. QED BY <3>1, <3>2, <3>3, <3>4 DEF SocketInv, WrapInv
  <2>2. ASSUME NEW h \in DOMAIN handles' PROVE PatchOK(handles'[h])
    BY <1>5, <1>6 DEF SocketInv, WrapInv
  <2>3. QED BY <2>1, <2>2 DEF WrapInv, PatchOK
<1>10. QED BY <1>0, <1>5, <1>6, <1>8, <1>9

\* A first detach of a handle leaves its socket bare.
LEMMA Detaches ==
  ASSUME SocketInv, NEW h \in DOMAIN handles, NEW t, Detach(h, t), handles[h].detached = 0
  PROVE  /\ handles' \in Seq(HandleRecord) /\ DOMAIN handles' = DOMAIN handles
         /\ \A i \in DOMAIN handles : i # h => handles'[i] = handles[i]
         /\ \A i \in DOMAIN handles : handles'[i].socket = handles[i].socket
         /\ chain' \in [Sockets -> Seq(Nat)] /\ marked' \in [Sockets -> BOOLEAN]
         /\ WrapInv'
<1>1. handles \in Seq(HandleRecord) /\ handles[h] \in HandleRecord
  BY DEF SocketInv, Shapes
<1>2. PICK s \in Sockets : s = handles[h].socket
  BY <1>1 DEF HandleRecord
<1>3. (s \in Unlisted /\ Bare(s)) \/ WrappedBy(s, h)
  <2>1. h # Nothing /\ ~(handles[h].detached > 0)
    BY <1>1 DEF Nothing
  <2>2. CASE Bare(s)
    BY <2>1, <2>2, <1>2 DEF Bare, Others
  <2>3. CASE \E g \in Nat : WrappedBy(s, g)
    <3>1. PICK g \in Nat : WrappedBy(s, g)
      BY <2>3
    <3>2. g = h
      BY <2>1, <3>1, <1>2 DEF WrappedBy, Others
    <3>3. QED BY <3>1, <3>2
  <2>4. QED BY <2>2, <2>3 DEF SocketInv, WrapInv
<1>4. PICK e : e = [handles[h] EXCEPT !.patched = FALSE, !.detached = @ + 1]
  OBVIOUS
<1>5. /\ e \in HandleRecord /\ e.socket = s /\ e.below = handles[h].below
      /\ e.detached = 1 /\ e.patched = FALSE
  <2>1. ASSUME NEW r \in HandleRecord, r.detached = 0,
               NEW q, q = [r EXCEPT !.patched = FALSE, !.detached = @ + 1]
        PROVE  /\ q \in HandleRecord /\ q.socket = r.socket /\ q.below = r.below
               /\ q.detached = 1 /\ q.patched = FALSE
    <3>1. /\ q.socket = r.socket /\ q.below = r.below /\ q.session = r.session
          /\ q.keeper = r.keeper /\ q.inert = r.inert /\ q.closed = r.closed
          /\ q.written = r.written /\ q.patched = FALSE
      BY <2>1 DEF HandleRecord
    <3>2. q.detached = 1
      BY <2>1 DEF HandleRecord
    <3>3. PICK p : p = [r EXCEPT !.patched = FALSE]
      OBVIOUS
    <3>4. q \in HandleRecord
      <4>1. p \in HandleRecord /\ p.detached = 0
        BY <3>3, <2>1 DEF HandleRecord
      <4>2. q = [p EXCEPT !.detached = 1]
        BY <3>3, <2>1 DEF HandleRecord
      <4>3. QED BY <4>1, <4>2 DEF HandleRecord
    <3>5. QED BY <3>1, <3>2, <3>4
  <2>2. QED BY <2>1, <1>1, <1>2, <1>4
<1>6. /\ handles' \in Seq(HandleRecord) /\ DOMAIN handles' = DOMAIN handles
      /\ \A i \in DOMAIN handles : i # h => handles'[i] = handles[i]
      /\ handles'[h] = e
  <2>1. handles' = [handles EXCEPT ![h] = e]
    BY <1>1, <1>4 DEF Detach
  <2>2. QED BY <2>1, <1>1, <1>5
<1>7. chain' = [chain EXCEPT ![s] = <<>>] /\ marked' = [marked EXCEPT ![s] = FALSE]
  <2>1. handles[h].below = <<>> /\ (handles[h].patched <=> s \notin Slotted)
    BY <1>2 DEF SocketInv, WrapInv, PatchOK
  <2>2. CASE s \in Slotted
    <3>1. chain[s] = <<>>
      BY <2>2, <1>3 DEF Bare, WrappedBy, Installed
    <3>2. chain' = chain /\ chain = [chain EXCEPT ![s] = <<>>]
      BY <2>1, <2>2, <3>1, <1>2 DEF Detach, Unwrapped, SocketInv, Shapes
    <3>3. QED BY <3>2, <1>2 DEF Detach
  <2>3. CASE s \notin Slotted
    <3>1. chain[s] = <<h>> /\ <<h>> # <<>>
      BY <2>3, <1>3, SocketAssumption DEF WrappedBy, Installed, SocketAssumption
    <3>2. QED BY <2>1, <2>3, <3>1, <1>2 DEF Detach, Unwrapped
  <2>4. QED BY <2>2, <2>3
<1>8. chain' \in [Sockets -> Seq(Nat)] /\ marked' \in [Sockets -> BOOLEAN]
  <2>1. <<>> \in Seq(Nat)
    OBVIOUS
  <2>2. QED BY <2>1, <1>7 DEF SocketInv, Shapes
<1>9. \A i \in DOMAIN handles : handles'[i].socket = handles[i].socket
  BY <1>2, <1>5, <1>6
<1>10. WrapInv'
  <2>1. ASSUME NEW r \in Sockets PROVE Bare(r)' \/ \E i \in Nat : WrappedBy(r, i)'
    <3>1. CASE r = s
      <4>1. chain'[s] = <<>> /\ ~marked'[s]
        BY <1>7 DEF SocketInv, Shapes
      <4>2. s \in Unlisted \/ Others(s, Nothing)'
        BY <1>3, <1>5, <1>6 DEF WrappedBy, Others
      <4>3. QED BY <4>1, <4>2, <3>1 DEF Bare
    <3>2. CASE r # s /\ Bare(r)
      <4>1. chain'[r] = <<>> /\ ~marked'[r]
        BY <3>2, <1>7 DEF SocketInv, Shapes, Bare
      <4>2. r \in Unlisted \/ Others(r, Nothing)'
        BY <3>2, <1>5, <1>6 DEF Bare, Others
      <4>3. QED BY <4>1, <4>2 DEF Bare
    <3>3. CASE r # s /\ \E i \in Nat : WrappedBy(r, i)
      <4>1. PICK i \in Nat : WrappedBy(r, i)
        BY <3>3
      <4>2. i # h /\ i \in DOMAIN handles
        BY <4>1, <3>3, <1>2 DEF WrappedBy
      <4>3. chain'[r] = Installed(r, i) /\ marked'[r]
        BY <4>1, <3>3, <1>7 DEF SocketInv, Shapes, WrappedBy
      <4>4. Others(r, i)'
        BY <4>1, <3>3, <1>5, <1>6 DEF WrappedBy, Others
      <4>5. WrappedBy(r, i)'
        BY <4>1, <4>2, <4>3, <4>4, <1>6 DEF WrappedBy, Installed
      <4>6. QED BY <4>5
    <3>4. QED BY <3>1, <3>2, <3>3 DEF SocketInv, WrapInv
  <2>2. ASSUME NEW i \in DOMAIN handles' PROVE PatchOK(handles'[i])
    <3>1. PatchOK(handles[h]) /\ (i # h => PatchOK(handles[i]))
      BY <1>6 DEF SocketInv, WrapInv
    <3>2. PatchOK(e)
      BY <3>1, <1>5 DEF PatchOK
    <3>3. QED BY <3>1, <3>2, <1>6
  <2>3. QED BY <2>1, <2>2 DEF WrapInv, PatchOK
<1>11. QED BY <1>6, <1>8, <1>9, <1>10

LEMMA WrapSame ==
  ASSUME WrapInv, UNCHANGED <<chain, marked, handles>>
  PROVE  WrapInv'
<1>1. handles' = handles /\ chain' = chain /\ marked' = marked
  OBVIOUS
<1>2. \A s, g : Others(s, g)' <=> Others(s, g)
  BY <1>1 DEF Others
<1>3. \A s : Bare(s)' <=> Bare(s)
  BY <1>1, <1>2 DEF Bare
<1>4. \A s, g : WrappedBy(s, g)' <=> WrappedBy(s, g)
  BY <1>1, <1>2 DEF WrappedBy, Installed
<1>5. \A h \in DOMAIN handles' : PatchOK(handles'[h])
  BY <1>1 DEF WrapInv
<1>6. QED BY <1>3, <1>4, <1>5 DEF WrapInv, PatchOK

\* A connection goes on, without a handle in hand it had not.
Proceeds(r) ==
  /\ socket'[r].register = socket[r].register
  /\ socket'[r].session # socket[r].session
       => socket'[r].session \in Sessions /\ socket[r].register = Nothing
  /\ socket'[r].state # "none" /\ socket[r].state = "none"
       => socket'[r].session \in Sessions

LEMMA OwnerSame ==
  ASSUME OwnerInv, UNCHANGED <<phase, owned, todo, handles>>,
         \A r \in Sockets : Proceeds(r)
  PROVE  OwnerInv'
<1>1. \A h, y : KeptBy(h, y)' <=> KeptBy(h, y)
  BY DEF KeptBy
<1>2. \A h : InNoHands(h)' <=> InNoHands(h)
  BY DEF InNoHands, Proceeds
<1>3. ASSUME NEW r \in Sockets
      PROVE  (/\ socket[r].register # Nothing =>
                   /\ KeptBy(socket[r].register, socket[r].session)
                   /\ handles[socket[r].register].socket = r
              /\ socket[r].state # "none" \/ socket[r].register # Nothing
                   => socket[r].session \in Sessions)'
  BY DEF OwnerInv, KeptBy, Proceeds
<1>4. ASSUME NEW y \in Sessions, NEW h \in owned'[y]
      PROVE  KeptBy(h, y)' /\ phase'[y] = "live" /\ InNoHands(h)'
  BY <1>1, <1>2 DEF OwnerInv
<1>5. ASSUME NEW y \in Sessions, NEW h \in todo'[y]
      PROVE  KeptBy(h, y)' /\ phase'[y] = "ending" /\ InNoHands(h)'
  BY <1>1, <1>2 DEF OwnerInv
<1>6. QED BY <1>3, <1>4, <1>5 DEF OwnerInv

LEMMA ObserveStep ==
  ASSUME SocketInv, NEW s \in Sockets, NEW x \in Sessions, Observe(s, x)
  PROVE  SocketInv'
<1>1. Attach(s, x, "application") /\ ~marked[s] /\ socket[s].state = "open"
  BY DEF Observe, AlreadyObserved, Open
<1>2. PICK g : g = Len(handles) + 1
  OBVIOUS
<1>3. /\ handles' \in Seq(HandleRecord)
      /\ DOMAIN handles' = DOMAIN handles \cup {g} /\ g \notin DOMAIN handles
      /\ \A h \in DOMAIN handles : handles'[h] = handles[h]
      /\ handles'[g].socket = s
      /\ chain' \in [Sockets -> Seq(Nat)] /\ marked' \in [Sockets -> BOOLEAN]
      /\ WrapInv'
  BY <1>1, <1>2, Attaches
<1>4. UNCHANGED <<phase, owned, todo, socket>>
  BY DEF Observe
<1>5. Shapes'
  BY <1>3, <1>4 DEF SocketInv, Shapes
<1>6. OwnerInv'
  BY <1>3, <1>4 DEF SocketInv, OwnerInv, KeptBy, InNoHands
<1>7. PromiseInv'
  <2>1. ASSUME NEW r \in Sockets
        PROVE  Observed(r)' <=> Observed(r) \/ r = s
    BY <1>3 DEF Observed
  <2>2. QED BY <2>1, <1>1, <1>4 DEF SocketInv, PromiseInv
<1>8. QED BY <1>3, <1>5, <1>6, <1>7 DEF SocketInv

LEMMA ConnectStep ==
  ASSUME SocketInv, PatchedWhileHeld, NEW s \in Sockets, NEW x \in Sessions, Connect(s, x)
  PROVE  SocketInv'
<1>1. Held(ObserverOf[x], "websocket") => layers["websocket"] > 0
  <2> SUFFICES ASSUME Held(ObserverOf[x], "websocket") PROVE layers["websocket"] > 0
    OBVIOUS
  <2>1. ObserverOf[x] \in Holders("websocket")
    BY SocketAssumption DEF SocketAssumption, Holders
  <2>2. QED BY <2>1 DEF PatchedWhileHeld, Kinds
<1>2. PICK e : e = [state |-> "connecting", session |-> x, register |-> Nothing,
                    wrapped |-> layers["websocket"] > 0,
                    promised |-> Held(ObserverOf[x], "websocket")]
  OBVIOUS
<1>3. /\ e.state = "connecting" /\ e.session = x /\ e.register = Nothing
      /\ e.promised => e.wrapped
  BY <1>1, <1>2
<1>4. e \in SocketRecord
  <2>1. PICK a \in BOOLEAN, b \in BOOLEAN :
               a = (layers["websocket"] > 0) /\ b = Held(ObserverOf[x], "websocket")
    <3>1. (layers["websocket"] > 0) \in BOOLEAN /\ Held(ObserverOf[x], "websocket") \in BOOLEAN
      BY DEF Held
    <3>2. QED BY <3>1, Zenon
  <2>2. e = [state |-> "connecting", session |-> x, register |-> Nothing,
             wrapped |-> a, promised |-> b]
    BY <2>1, <1>2
  <2>3. QED BY <2>2 DEF SocketRecord, Nothing
<1>5. socket' = [socket EXCEPT ![s] = e] /\ socket[s].state = "none"
  BY <1>2, Zenon DEF Connect
<1>6. socket[s].register = Nothing
  BY DEF Connect, Idle
<1>7. UNCHANGED <<phase, owned, todo, chain, marked, handles>>
  BY DEF Connect
<1>8. /\ socket' \in [Sockets -> SocketRecord] /\ socket'[s] = e
      /\ \A r \in Sockets : r # s => socket'[r] = socket[r]
  BY <1>4, <1>5 DEF SocketInv, Shapes
<1>9. Shapes'
  BY <1>7, <1>8 DEF SocketInv, Shapes
<1>10. WrapInv'
  BY <1>7, WrapSame DEF SocketInv
<1>11. OwnerInv'
  <2>1. \A r \in Sockets : Proceeds(r)
    BY <1>3, <1>6, <1>8 DEF Proceeds
  <2>2. OwnerInv /\ UNCHANGED <<phase, owned, todo, handles>>
    BY <1>7 DEF SocketInv
  <2>3. QED BY ONLY <2>1, <2>2, OwnerSame
<1>12. PromiseInv'
  BY <1>3, <1>5, <1>7, <1>8 DEF SocketInv, PromiseInv, Observed
<1>13. QED BY <1>9, <1>10, <1>11, <1>12 DEF SocketInv

\* A handle a session has is none of the application's, and has not been detached.
LEMMA KeptInDomain == \A h, x : KeptBy(h, x) => h \in DOMAIN handles
BY DEF KeptBy

LEMMA ConnectedStep ==
  ASSUME SocketInv, NEW s \in Sockets, Connected(s)
  PROVE  SocketInv'
<1>1. socket[s].state = "connecting" /\ socket[s].register = Nothing
  BY DEF Connected, Idle
<1>2. PICK x \in Sessions : x = socket[s].session
  BY <1>1 DEF SocketInv, OwnerInv
<1>3. ~Observed(s) /\ (socket[s].promised => socket[s].wrapped)
  BY <1>1 DEF SocketInv, PromiseInv
<1>4. ~marked[s]
  BY <1>3 DEF SocketInv, WrapInv, Bare, WrappedBy, Observed
<1>5. UNCHANGED <<phase, owned, todo>>
  BY DEF Connected
<1>6. DOMAIN handles \subseteq Nat \ {Nothing}
  BY DEF SocketInv, Shapes, Nothing
<1>7. CASE socket[s].wrapped /\ phase[x] # "ended"
  <2>1. PICK g : g = Len(handles) + 1
    OBVIOUS
  <2>2. Attach(s, x, "session")
    BY <1>2, <1>7 DEF Connected
  <2>3. /\ handles' \in Seq(HandleRecord) /\ g \in Nat \ {0}
        /\ DOMAIN handles' = DOMAIN handles \cup {g} /\ g \notin DOMAIN handles
        /\ \A h \in DOMAIN handles : handles'[h] = handles[h]
        /\ handles'[g].socket = s /\ handles'[g].session = x
        /\ handles'[g].keeper = "session" /\ handles'[g].detached = 0
        /\ chain' \in [Sockets -> Seq(Nat)] /\ marked' \in [Sockets -> BOOLEAN]
        /\ WrapInv'
    BY <2>1, <2>2, <1>4, Attaches
  <2>4. PICK q \in SocketRecord : q = socket[s]
    BY DEF SocketInv, Shapes
  <2> DEFINE e == [q EXCEPT !.state = "open", !.register = g]
  <2>5. /\ e \in SocketRecord /\ e.state = "open" /\ e.register = g /\ e.session = x
    <3>1. e.state = "open" /\ e.register = g /\ e.session = x
      BY <2>4, <1>2 DEF SocketRecord
    <3>2. g \in Nat
      BY <2>3
    <3>3. e \in SocketRecord
      BY <3>2 DEF SocketRecord
    <3>4. QED BY <3>1, <3>3
  <2>6. socket' = [socket EXCEPT ![s] = e]
    BY <2>1, <2>4, <1>2, <1>7 DEF Connected, SocketInv, Shapes
  <2>7. /\ socket' \in [Sockets -> SocketRecord] /\ socket'[s] = e
        /\ \A r \in Sockets : r # s => socket'[r] = socket[r]
    <3> HIDE DEF e
    <3> QED BY <2>5, <2>6 DEF SocketInv, Shapes
  <2> HIDE DEF e
  <2>8. Shapes'
    BY <2>3, <2>7, <1>5 DEF SocketInv, Shapes
  <2>9. \A h \in DOMAIN handles : InNoHands(h) => InNoHands(h)'
    BY <2>3, <2>5, <2>7, ZenonT(60) DEF InNoHands
  <2>10. \A h, y : KeptBy(h, y) => KeptBy(h, y)'
    BY <2>3 DEF KeptBy
  <2>11. ASSUME NEW r \in Sockets
         PROVE  (/\ socket[r].register # Nothing =>
                      /\ KeptBy(socket[r].register, socket[r].session)
                      /\ handles[socket[r].register].socket = r
                 /\ socket[r].state # "none" \/ socket[r].register # Nothing
                      => socket[r].session \in Sessions)'
    <3>1. CASE r = s
      BY <3>1, <2>3, <2>5, <2>7 DEF KeptBy
    <3>2. CASE r # s
      <4>1. socket'[r] = socket[r]
        BY <3>2, <2>7
      <4>2. QED BY <4>1, <2>3 DEF SocketInv, OwnerInv, KeptBy
    <3>3. QED BY <3>1, <3>2
  <2>12. OwnerInv'
    <3>1. ASSUME NEW y \in Sessions, NEW h \in owned'[y]
          PROVE  KeptBy(h, y)' /\ phase'[y] = "live" /\ InNoHands(h)'
      BY <2>9, <2>10, <1>5, KeptInDomain DEF SocketInv, OwnerInv
    <3>2. ASSUME NEW y \in Sessions, NEW h \in todo'[y]
          PROVE  KeptBy(h, y)' /\ phase'[y] = "ending" /\ InNoHands(h)'
      BY <2>9, <2>10, <1>5, KeptInDomain DEF SocketInv, OwnerInv
    <3>3. QED BY <3>1, <3>2, <2>11 DEF OwnerInv
  <2>13. PromiseInv'
    <3>1. \A r \in Sockets : Observed(r)' <=> Observed(r) \/ r = s
      BY <2>3 DEF Observed
    <3>2. QED BY <3>1, <2>5, <2>7 DEF SocketInv, PromiseInv
  <2>14. QED BY <2>3, <2>8, <2>12, <2>13 DEF SocketInv
<1>8. CASE ~(socket[s].wrapped /\ phase[x] # "ended")
  <2>1. PICK e : e = [socket[s] EXCEPT !.state = "open", !.promised = @ /\ phase[x] # "ended"]
    OBVIOUS
  <2>2. UNCHANGED <<chain, marked, handles>> /\ socket' = [socket EXCEPT ![s] = e]
    BY <2>1, <1>2, <1>8 DEF Connected, SocketInv, Shapes
  <2>3. socket[s].promised = FALSE \/ (phase[x] # "ended") = FALSE
    BY <1>3, <1>8 DEF SocketInv, Shapes, SocketRecord
  <2>4. e = [socket[s] EXCEPT !.state = "open", !.promised = FALSE]
    BY <2>1, <2>3
  <2>5. /\ e \in SocketRecord /\ e.state = "open" /\ e.promised = FALSE
        /\ e.register = Nothing /\ e.session = x
    BY <2>4, <1>1, <1>2 DEF SocketInv, Shapes, SocketRecord
  <2>6. /\ socket' \in [Sockets -> SocketRecord] /\ socket'[s] = e
        /\ \A r \in Sockets : r # s => socket'[r] = socket[r]
    BY <2>2, <2>5 DEF SocketInv, Shapes
  <2>7. Shapes'
    BY <2>2, <2>6, <1>5 DEF SocketInv, Shapes
  <2>8. WrapInv'
    BY <2>2, WrapSame DEF SocketInv
  <2>9. OwnerInv'
    <3>1. \A r \in Sockets : Proceeds(r)
      BY <2>5, <2>6, <1>1, <1>2 DEF Proceeds
    <3>2. OwnerInv /\ UNCHANGED <<phase, owned, todo, handles>>
      BY <2>2, <1>5 DEF SocketInv
    <3>3. QED BY ONLY <3>1, <3>2, OwnerSame
  <2>10. PromiseInv'
    BY <2>2, <2>5, <2>6 DEF SocketInv, PromiseInv, Observed
  <2>11. QED BY <2>7, <2>8, <2>9, <2>10 DEF SocketInv
<1>9. QED BY <1>7, <1>8

LEMMA CloseStep ==
  ASSUME SocketInv, NEW s \in Sockets, Close(s)
  PROVE  SocketInv'
<1>1. PICK e : e = [socket[s] EXCEPT !.state = "closed"]
  OBVIOUS
<1>2. /\ socket[s].state = "open" /\ socket' = [socket EXCEPT ![s] = e]
      /\ UNCHANGED <<phase, owned, todo, chain, marked, handles>>
  BY <1>1 DEF Close, Open, SocketInv, Shapes
<1>3. /\ e \in SocketRecord /\ e.state = "closed" /\ e.register = socket[s].register
      /\ e.session = socket[s].session
  BY <1>1 DEF SocketInv, Shapes, SocketRecord
<1>4. /\ socket' \in [Sockets -> SocketRecord] /\ socket'[s] = e
      /\ \A r \in Sockets : r # s => socket'[r] = socket[r]
  BY <1>2, <1>3 DEF SocketInv, Shapes
<1>5. Shapes'
  BY <1>2, <1>4 DEF SocketInv, Shapes
<1>6. WrapInv'
  BY <1>2, WrapSame DEF SocketInv
<1>7. \A r \in Sockets : Proceeds(r)
  BY <1>2, <1>3, <1>4 DEF Proceeds
<1>8. OwnerInv'
  <2>1. OwnerInv /\ UNCHANGED <<phase, owned, todo, handles>>
    BY <1>2 DEF SocketInv
  <2>2. QED BY ONLY <1>7, <2>1, OwnerSame
<1>9. PromiseInv'
  BY <1>2, <1>3, <1>4 DEF SocketInv, PromiseInv, Observed
<1>10. QED BY <1>5, <1>6, <1>8, <1>9 DEF SocketInv

\* A detached handle is nobody's any more.
LEMMA LetGo ==
  ASSUME SocketInv, NEW h \in DOMAIN handles, NEW t, Detach(h, t), handles[h].detached = 0,
         UNCHANGED phase,
         \A x \in Sessions : owned'[x] \subseteq owned[x] \ {h},
         \A x \in Sessions : todo'[x] \subseteq todo[x] \ {h},
         \A s \in Sockets :
           /\ socket'[s].register \in {socket[s].register, Nothing} \ {h}
           /\ socket'[s].session = socket[s].session /\ socket'[s].state = socket[s].state
           /\ socket'[s].promised = socket[s].promised
           /\ socket'[s].wrapped = socket[s].wrapped
  PROVE  WrapInv' /\ OwnerInv' /\ PromiseInv'
<1>1. /\ DOMAIN handles' = DOMAIN handles
      /\ \A i \in DOMAIN handles : i # h => handles'[i] = handles[i]
      /\ \A i \in DOMAIN handles : handles'[i].socket = handles[i].socket
      /\ WrapInv'
  BY Detaches
<1>2. \A i, x : i # h /\ KeptBy(i, x) => KeptBy(i, x)'
  BY <1>1 DEF KeptBy
<1>3. h # Nothing /\ \A i, x : KeptBy(i, x) => i # Nothing
  BY DEF KeptBy, SocketInv, Shapes, Nothing
<1>4. \A i : InNoHands(i) /\ i # Nothing => InNoHands(i)'
  BY DEF InNoHands
<1>5. ASSUME NEW x \in Sessions, NEW i \in owned'[x]
      PROVE  KeptBy(i, x)' /\ phase'[x] = "live" /\ InNoHands(i)'
  <2>1. i # h /\ KeptBy(i, x) /\ phase[x] = "live" /\ InNoHands(i)
    BY DEF SocketInv, OwnerInv
  <2>2. QED BY <2>1, <1>2, <1>3, <1>4
<1>6. ASSUME NEW x \in Sessions, NEW i \in todo'[x]
      PROVE  KeptBy(i, x)' /\ phase'[x] = "ending" /\ InNoHands(i)'
  <2>1. i # h /\ KeptBy(i, x) /\ phase[x] = "ending" /\ InNoHands(i)
    BY DEF SocketInv, OwnerInv
  <2>2. QED BY <2>1, <1>2, <1>3, <1>4
<1>7. ASSUME NEW s \in Sockets
      PROVE  (/\ socket[s].register # Nothing =>
                   /\ KeptBy(socket[s].register, socket[s].session)
                   /\ handles[socket[s].register].socket = s
              /\ socket[s].state # "none" \/ socket[s].register # Nothing
                   => socket[s].session \in Sessions)'
  <2>1. CASE socket'[s].register = Nothing
    BY <2>1 DEF SocketInv, OwnerInv
  <2>2. CASE socket'[s].register # Nothing
    <3>1. PICK i : i = socket'[s].register
      OBVIOUS
    <3>2. PICK x : x = socket'[s].session
      OBVIOUS
    <3>3. i = socket[s].register /\ i # h /\ x = socket[s].session /\ i # Nothing
      BY <3>1, <3>2, <2>2
    <3>4. KeptBy(i, x) /\ handles[i].socket = s /\ x \in Sessions
      BY <3>3 DEF SocketInv, OwnerInv
    <3>5. KeptBy(i, x)' /\ handles'[i].socket = s
      BY <3>3, <3>4, <1>1, <1>2 DEF KeptBy
    <3>6. QED BY <3>1, <3>2, <3>4, <3>5 DEF KeptBy
  <2>3. QED BY <2>1, <2>2
<1>8. OwnerInv'
  BY <1>5, <1>6, <1>7 DEF OwnerInv
<1>9. PromiseInv'
  <2>1. \A s : Observed(s)' <=> Observed(s)
    BY <1>1 DEF Observed
  <2>2. QED BY <2>1 DEF SocketInv, PromiseInv
<1>10. QED BY <1>1, <1>8, <1>9

LEMMA AppDetachesStep ==
  ASSUME SocketInv, MaxDetaches <= 1, NEW h \in DOMAIN handles, AppDetaches(h)
  PROVE  SocketInv'
<1>1. /\ Detach(h, "socket") /\ handles[h].keeper = "application"
      /\ UNCHANGED <<phase, owned, todo, socket>>
  BY DEF AppDetaches
<1>2. handles[h].detached = 0
  <2>1. handles[h].detached \in Nat /\ handles[h].detached < MaxDetaches
    <3>1. handles[h] \in HandleRecord
      BY DEF SocketInv, Shapes
    <3>2. handles[h].detached < MaxDetaches
      BY DEF AppDetaches
    <3>3. QED BY <3>1, <3>2 DEF HandleRecord
  <2>2. QED BY <2>1, SocketAssumption DEF SocketAssumption
<1>3. \A x : ~KeptBy(h, x)
  BY <1>1 DEF KeptBy
<1>4. /\ \A x \in Sessions : owned'[x] \subseteq owned[x] \ {h}
      /\ \A x \in Sessions : todo'[x] \subseteq todo[x] \ {h}
  BY <1>1, <1>3 DEF SocketInv, OwnerInv
<1>5. \A s \in Sockets : socket'[s].register \in {socket[s].register, Nothing} \ {h}
  BY <1>1, <1>3 DEF SocketInv, Shapes, OwnerInv, Nothing
<1>6. WrapInv' /\ OwnerInv' /\ PromiseInv'
  BY <1>1, <1>2, <1>4, <1>5, LetGo
<1>7. Shapes'
  BY <1>1, <1>2, Detaches DEF SocketInv, Shapes
<1>8. QED BY <1>6, <1>7 DEF SocketInv

LEMMA EndDetachesStep ==
  ASSUME SocketInv, NEW x \in Sessions, NEW h \in todo[x], EndDetaches(x, h)
  PROVE  SocketInv'
<1>1. /\ Detach(h, "end") /\ UNCHANGED <<phase, owned, socket>>
      /\ todo' = [todo EXCEPT ![x] = @ \ {h}]
  BY DEF EndDetaches
<1>2. KeptBy(h, x) /\ phase[x] = "ending" /\ InNoHands(h)
  BY DEF SocketInv, OwnerInv
<1>3. h \in DOMAIN handles /\ handles[h].detached = 0
  BY <1>2 DEF KeptBy
<1>4. \A y \in Sessions : h \notin owned[y] /\ (y # x => h \notin todo[y])
  BY <1>2 DEF SocketInv, OwnerInv, KeptBy
<1>5. /\ \A y \in Sessions : owned'[y] \subseteq owned[y] \ {h}
      /\ \A y \in Sessions : todo'[y] \subseteq todo[y] \ {h}
  BY <1>1, <1>4 DEF SocketInv, Shapes
<1>6. \A s \in Sockets : socket'[s].register \in {socket[s].register, Nothing} \ {h}
  BY <1>1, <1>2 DEF InNoHands
<1>7. WrapInv' /\ OwnerInv' /\ PromiseInv'
  BY <1>1, <1>3, <1>5, <1>6, LetGo
<1>8. todo' \in [Sessions -> SUBSET Nat]
  BY <1>1 DEF SocketInv, Shapes
<1>9. Shapes'
  BY <1>1, <1>3, <1>8, Detaches DEF SocketInv, Shapes
<1>10. QED BY <1>7, <1>9 DEF SocketInv

LEMMA RegisterStep ==
  ASSUME SocketInv, NEW s \in Sockets, Register(s)
  PROVE  SocketInv'
<1>1. PICK h : h = socket[s].register
  OBVIOUS
<1>2. PICK x \in Sessions : x = socket[s].session
  BY DEF Register, SocketInv, OwnerInv
<1>3. h # Nothing /\ KeptBy(h, x) /\ handles[h].socket = s
  BY <1>1, <1>2 DEF Register, SocketInv, OwnerInv
<1>4. h \in DOMAIN handles /\ handles[h].detached = 0
  BY <1>3 DEF KeptBy
<1>5. ~InNoHands(h) /\ \A y \in Sessions : h \notin owned[y] /\ h \notin todo[y]
  BY <1>1 DEF InNoHands, SocketInv, OwnerInv
<1>6. \A r \in Sockets : r # s => socket[r].register # h
  BY <1>3 DEF SocketInv, OwnerInv
<1>7. PICK q \in SocketRecord : q = socket[s]
  BY DEF SocketInv, Shapes
<1>8. PICK e : e = [q EXCEPT !.register = Nothing]
  OBVIOUS
<1>9. /\ e \in SocketRecord /\ e.register = Nothing
      /\ e.session = q.session /\ e.state = q.state
      /\ e.promised = q.promised /\ e.wrapped = q.wrapped
  BY <1>8 DEF SocketRecord, Nothing
<1>10. socket' = [socket EXCEPT ![s] = e] /\ UNCHANGED <<phase, todo>>
  BY <1>7, <1>8 DEF Register, SocketInv, Shapes
<1>11. /\ socket' \in [Sockets -> SocketRecord] /\ socket'[s] = e
       /\ \A r \in Sockets : r # s => socket'[r] = socket[r]
  BY <1>9, <1>10 DEF SocketInv, Shapes
<1>12. CASE phase[x] = "live"
  <2>1. /\ owned' = [owned EXCEPT ![x] = @ \cup {h}]
        /\ UNCHANGED <<chain, marked, handles>>
    BY <1>1, <1>2, <1>12 DEF Register
  <2>2. Shapes'
    <3>1. h \in Nat
      BY <1>4 DEF SocketInv, Shapes
    <3>2. owned' \in [Sessions -> SUBSET Nat]
      BY <3>1, <2>1 DEF SocketInv, Shapes
    <3>3. QED BY <3>2, <2>1, <1>10, <1>11 DEF SocketInv, Shapes
  <2>3. WrapInv'
    BY <2>1, WrapSame DEF SocketInv
  <2>4. InNoHands(h)' /\ \A i : i # Nothing /\ InNoHands(i) => InNoHands(i)'
    BY <1>3, <1>6, <1>9, <1>11 DEF InNoHands
  <2>5. \A i, y : KeptBy(i, y)' <=> KeptBy(i, y)
    BY <2>1 DEF KeptBy
  <2>6. \A i, y : KeptBy(i, y) => i # Nothing
    BY DEF KeptBy, SocketInv, Shapes, Nothing
  <2>7. ASSUME NEW y \in Sessions, NEW i \in owned'[y]
        PROVE  KeptBy(i, y)' /\ phase'[y] = "live" /\ InNoHands(i)'
    <3>1. (i = h /\ y = x) \/ i \in owned[y]
      BY <2>1 DEF SocketInv, Shapes
    <3>2. CASE i = h /\ y = x
      BY <3>2, <2>4, <2>5, <1>3, <1>10, <1>12
    <3>3. CASE i \in owned[y]
      <4>1. KeptBy(i, y) /\ phase[y] = "live" /\ InNoHands(i)
        BY <3>3 DEF SocketInv, OwnerInv
      <4>2. QED BY <4>1, <2>4, <2>5, <2>6, <1>10
    <3>4. QED BY <3>1, <3>2, <3>3
  <2>8. ASSUME NEW y \in Sessions, NEW i \in todo'[y]
        PROVE  KeptBy(i, y)' /\ phase'[y] = "ending" /\ InNoHands(i)'
    <3>1. KeptBy(i, y) /\ phase[y] = "ending" /\ InNoHands(i)
      BY <1>10 DEF SocketInv, OwnerInv
    <3>2. QED BY <3>1, <2>4, <2>5, <2>6, <1>10
  <2>9. ASSUME NEW r \in Sockets
        PROVE  (/\ socket[r].register # Nothing =>
                     /\ KeptBy(socket[r].register, socket[r].session)
                     /\ handles[socket[r].register].socket = r
                /\ socket[r].state # "none" \/ socket[r].register # Nothing
                     => socket[r].session \in Sessions)'
    <3>1. CASE r = s
      BY <3>1, <1>2, <1>7, <1>9, <1>11
    <3>2. CASE r # s
      <4>1. socket'[r] = socket[r]
        BY <3>2, <1>11
      <4>2. QED BY <4>1, <2>1 DEF SocketInv, OwnerInv, KeptBy
    <3>3. QED BY <3>1, <3>2
  <2>10. OwnerInv'
    BY <2>7, <2>8, <2>9 DEF OwnerInv
  <2>11. PromiseInv'
    BY <2>1, <1>7, <1>9, <1>11 DEF SocketInv, PromiseInv, Observed
  <2>12. QED BY <2>2, <2>3, <2>10, <2>11 DEF SocketInv
<1>13. CASE phase[x] # "live"
  <2>1. Detach(h, "socket") /\ UNCHANGED owned
    BY <1>1, <1>2, <1>13 DEF Register
  <2>2. /\ \A y \in Sessions : owned'[y] \subseteq owned[y] \ {h}
        /\ \A y \in Sessions : todo'[y] \subseteq todo[y] \ {h}
    BY <2>1, <1>5, <1>10
  <2>3. \A r \in Sockets :
          /\ socket'[r].register \in {socket[r].register, Nothing} \ {h}
          /\ socket'[r].session = socket[r].session /\ socket'[r].state = socket[r].state
          /\ socket'[r].promised = socket[r].promised
          /\ socket'[r].wrapped = socket[r].wrapped
    BY <1>3, <1>6, <1>7, <1>9, <1>11
  <2>4. WrapInv' /\ OwnerInv' /\ PromiseInv'
    BY <2>1, <2>2, <2>3, <1>4, <1>10, LetGo
  <2>5. Shapes'
    BY <2>1, <1>4, <1>10, <1>11, Detaches DEF SocketInv, Shapes
  <2>6. QED BY <2>4, <2>5 DEF SocketInv
<1>14. QED BY <1>12, <1>13

\* _finish() touches the span and the lists, not the wrappers.
LEMMA FinishStep ==
  ASSUME SocketInv, NEW t, NEW h \in DOMAIN handles, Finish(t, h)
  PROVE  SocketInv'
<1>1. PICK q \in HandleRecord : q = handles[h]
  BY DEF SocketInv, Shapes
<1>2. PICK n : n = IF ~q.inert /\ phase[q.session] # "ended" THEN q.written + 1 ELSE q.written
  OBVIOUS
<1>3. n \in Nat
  BY <1>2 DEF HandleRecord
<1>4. PICK e : e = [q EXCEPT !.closed = TRUE, !.written = n]
  OBVIOUS
<1>5. /\ e \in HandleRecord /\ e.socket = q.socket /\ e.session = q.session
      /\ e.keeper = q.keeper /\ e.detached = q.detached /\ e.below = q.below
      /\ e.patched = q.patched
  BY <1>3, <1>4 DEF HandleRecord
<1>6. handles' = [handles EXCEPT ![h] = e]
  BY <1>1, <1>2, <1>4 DEF Finish, SocketInv, Shapes
<1>7. /\ handles' \in Seq(HandleRecord) /\ DOMAIN handles' = DOMAIN handles
      /\ \A i \in DOMAIN handles :
           /\ handles'[i].socket = handles[i].socket
           /\ handles'[i].session = handles[i].session
           /\ handles'[i].keeper = handles[i].keeper
           /\ handles'[i].detached = handles[i].detached
           /\ handles'[i].below = handles[i].below
           /\ handles'[i].patched = handles[i].patched
  BY <1>1, <1>5, <1>6 DEF SocketInv, Shapes
<1>8. /\ owned' = [x \in Sessions |-> owned[x] \ {h}]
      /\ UNCHANGED <<phase, todo, socket, chain, marked>>
  BY DEF Finish
<1>9. Shapes'
  BY <1>7, <1>8 DEF SocketInv, Shapes
<1>10. WrapInv'
  <2>1. \A s, g : Others(s, g)' <=> Others(s, g)
    BY <1>7 DEF Others
  <2>2. \A s, g : WrappedBy(s, g)' <=> WrappedBy(s, g)
    BY <2>1, <1>7, <1>8 DEF WrappedBy, Installed
  <2>3. \A s : Bare(s)' <=> Bare(s)
    BY <2>1, <1>8 DEF Bare
  <2>4. \A i \in DOMAIN handles' : PatchOK(handles'[i])
    BY <1>7 DEF SocketInv, WrapInv, PatchOK
  <2>5. QED BY <2>2, <2>3, <2>4 DEF SocketInv, WrapInv, PatchOK
<1>11. OwnerInv'
  <2>1. \A i, x : KeptBy(i, x)' <=> KeptBy(i, x)
    BY <1>7 DEF KeptBy
  <2>2. \A i : InNoHands(i)' <=> InNoHands(i)
    BY <1>8 DEF InNoHands
  <2>3. ASSUME NEW x \in Sessions, NEW i \in owned'[x]
        PROVE  KeptBy(i, x)' /\ phase'[x] = "live" /\ InNoHands(i)'
    BY <2>1, <2>2, <1>8 DEF SocketInv, OwnerInv
  <2>4. ASSUME NEW x \in Sessions, NEW i \in todo'[x]
        PROVE  KeptBy(i, x)' /\ phase'[x] = "ending" /\ InNoHands(i)'
    BY <2>1, <2>2, <1>8 DEF SocketInv, OwnerInv
  <2>5. ASSUME NEW s \in Sockets
        PROVE  (/\ socket[s].register # Nothing =>
                     /\ KeptBy(socket[s].register, socket[s].session)
                     /\ handles[socket[s].register].socket = s
                /\ socket[s].state # "none" \/ socket[s].register # Nothing
                     => socket[s].session \in Sessions)'
    BY <1>7, <1>8 DEF SocketInv, OwnerInv, KeptBy
  <2>6. QED BY <2>3, <2>4, <2>5 DEF OwnerInv
<1>12. PromiseInv'
  <2>1. \A s : Observed(s)' <=> Observed(s)
    BY <1>7 DEF Observed
  <2>2. QED BY <2>1, <1>8 DEF SocketInv, PromiseInv
<1>13. QED BY <1>9, <1>10, <1>11, <1>12 DEF SocketInv

\* end() takes the session's handles over.
LEMMA MarkEndingStep ==
  ASSUME SocketInv, NEW x \in Sessions, MarkEnding(x)
  PROVE  SocketInv'
<1>1. /\ phase' = [phase EXCEPT ![x] = "ending"] /\ phase[x] = "live"
      /\ todo' = [todo EXCEPT ![x] = owned[x]] /\ owned' = [owned EXCEPT ![x] = {}]
      /\ UNCHANGED <<socket, chain, marked, handles>>
  BY DEF MarkEnding
<1>2. Shapes'
  BY <1>1 DEF SocketInv, Shapes
<1>3. WrapInv'
  BY <1>1, WrapSame DEF SocketInv
<1>4. OwnerInv'
  <2>1. \A i, y : KeptBy(i, y)' <=> KeptBy(i, y)
    BY <1>1 DEF KeptBy
  <2>2. \A i : InNoHands(i)' <=> InNoHands(i)
    BY <1>1 DEF InNoHands
  <2>3. ASSUME NEW y \in Sessions, NEW i \in owned'[y]
        PROVE  KeptBy(i, y)' /\ phase'[y] = "live" /\ InNoHands(i)'
    BY <2>1, <2>2, <1>1 DEF SocketInv, OwnerInv, Shapes
  <2>4. ASSUME NEW y \in Sessions, NEW i \in todo'[y]
        PROVE  KeptBy(i, y)' /\ phase'[y] = "ending" /\ InNoHands(i)'
    BY <2>1, <2>2, <1>1 DEF SocketInv, OwnerInv, Shapes
  <2>5. ASSUME NEW s \in Sockets
        PROVE  (/\ socket[s].register # Nothing =>
                     /\ KeptBy(socket[s].register, socket[s].session)
                     /\ handles[socket[s].register].socket = s
                /\ socket[s].state # "none" \/ socket[s].register # Nothing
                     => socket[s].session \in Sessions)'
    BY <1>1 DEF SocketInv, OwnerInv, KeptBy
  <2>6. QED BY <2>3, <2>4, <2>5 DEF OwnerInv
<1>5. PromiseInv'
  BY <1>1 DEF SocketInv, PromiseInv, Observed
<1>6. QED BY <1>2, <1>3, <1>4, <1>5 DEF SocketInv

LEMMA SetEndedStep ==
  ASSUME SocketInv, NEW x \in Sessions, SetEnded(x)
  PROVE  SocketInv'
<1>1. /\ phase' = [phase EXCEPT ![x] = "ended"] /\ phase[x] = "ending" /\ todo[x] = {}
      /\ UNCHANGED <<owned, todo, socket, chain, marked, handles>>
  BY DEF SetEnded
<1>2. Shapes'
  BY <1>1 DEF SocketInv, Shapes
<1>3. WrapInv'
  BY <1>1, WrapSame DEF SocketInv
<1>4. OwnerInv'
  <2>1. \A i, y : KeptBy(i, y)' <=> KeptBy(i, y)
    BY <1>1 DEF KeptBy
  <2>2. \A i : InNoHands(i)' <=> InNoHands(i)
    BY <1>1 DEF InNoHands
  <2>3. ASSUME NEW y \in Sessions, NEW i \in owned'[y]
        PROVE  KeptBy(i, y)' /\ phase'[y] = "live" /\ InNoHands(i)'
    BY <2>1, <2>2, <1>1 DEF SocketInv, OwnerInv, Shapes
  <2>4. ASSUME NEW y \in Sessions, NEW i \in todo'[y]
        PROVE  KeptBy(i, y)' /\ phase'[y] = "ending" /\ InNoHands(i)'
    BY <2>1, <2>2, <1>1 DEF SocketInv, OwnerInv, Shapes
  <2>5. ASSUME NEW s \in Sockets
        PROVE  (/\ socket[s].register # Nothing =>
                     /\ KeptBy(socket[s].register, socket[s].session)
                     /\ handles[socket[s].register].socket = s
                /\ socket[s].state # "none" \/ socket[s].register # Nothing
                     => socket[s].session \in Sessions)'
    BY <1>1 DEF SocketInv, OwnerInv, KeptBy
  <2>6. QED BY <2>3, <2>4, <2>5 DEF OwnerInv
<1>5. PromiseInv'
  BY <1>1 DEF SocketInv, PromiseInv, Observed
<1>6. QED BY <1>2, <1>3, <1>4, <1>5 DEF SocketInv

LEMMA SocketSame ==
  ASSUME SocketInv, UNCHANGED <<phase, owned, todo, socket, chain, marked, handles>>
  PROVE  SocketInv'
<1>1. Shapes'
  BY DEF SocketInv, Shapes
<1>2. WrapInv'
  BY WrapSame DEF SocketInv
<1>3. OwnerInv'
  <2>1. \A r \in Sockets : Proceeds(r)
    BY DEF Proceeds
  <2>2. QED BY <2>1, OwnerSame DEF SocketInv
<1>4. PromiseInv'
  BY DEF SocketInv, PromiseInv, Observed
<1>5. QED BY <1>1, <1>2, <1>3, <1>4 DEF SocketInv

LEMMA SocketStep ==
  ASSUME SocketInv, PatchedWhileHeld, MaxDetaches <= 1, SocketNext
  PROVE  SocketInv'
<1>1. ASSUME NEW s \in Sockets,
             Connected(s) \/ Register(s) \/ Close(s) \/ \E way \in Ways : FrameFails(s, way)
      PROVE  SocketInv'
  BY <1>1, ConnectedStep, RegisterStep, CloseStep, SocketSame DEF FrameFails
<1>2. ASSUME NEW s \in Sockets, NEW x \in Sessions, Connect(s, x) \/ Observe(s, x)
      PROVE  SocketInv'
  BY <1>2, ConnectStep, ObserveStep
<1>3. ASSUME NEW h \in DOMAIN handles, AppDetaches(h) \/ \E t \in Threads : Finish(t, h)
      PROVE  SocketInv'
  BY <1>3, AppDetachesStep, FinishStep
<1>4. ASSUME NEW x \in Sessions,
             MarkEnding(x) \/ SetEnded(x) \/ \E h \in todo[x] : EndDetaches(x, h)
      PROVE  SocketInv'
  BY <1>4, MarkEndingStep, SetEndedStep, EndDetachesStep
<1>5. QED BY <1>1, <1>2, <1>3, <1>4 DEF SocketNext

-------------------------------------------------------------------------------
(* What the invariant means for frames and for the sockets *)

LEMMA OneWrapperCounts == SocketInv => FramesCountedOnce
<1> SUFFICES ASSUME SocketInv, NEW s \in Sockets, NEW way \in Ways, NEW on,
                    on = {h \in DOMAIN handles : handles[h].socket = s /\ Counts(h)}
             PROVE  /\ Cardinality(on \cap Through(s, way)) <= 1
                    /\ Wrappable(s, way) =>
                         \A h \in on : handles[h].detached = 0 => h \in Through(s, way)
  BY DEF FramesCountedOnce
<1>1. \A h \in DOMAIN handles : h # Nothing
  BY DEF SocketInv, Shapes, Nothing
<1>2. CASE ~Wrappable(s, way)
  <2>1. on \cap Through(s, way) = {}
    BY <1>2 DEF Through
  <2>2. QED BY <1>2, <2>1, FS_EmptySet
<1>3. CASE Wrappable(s, way) /\ Bare(s)
  <2>1. Through(s, way) = {} /\ s \notin Unlisted
    BY <1>3, SocketAssumption DEF Bare, InChain, Through, Wrappable, SocketAssumption
  <2>2. on \cap Through(s, way) = {}
    BY <2>1
  <2>3. \A h \in on : handles[h].detached # 0
    BY <1>1, <1>3, <2>1 DEF Bare, Others
  <2>4. QED BY <2>2, <2>3, FS_EmptySet
<1>4. CASE Wrappable(s, way) /\ \E g \in Nat : WrappedBy(s, g)
  <2>1. PICK g \in Nat : WrappedBy(s, g)
    BY <1>4
  <2>2. Through(s, way) = {g}
    BY <1>4, <2>1 DEF WrappedBy, Installed, InChain, Through, Wrappable
  <2>3. \A h \in on : handles[h].detached = 0 => h = g
    BY <2>1 DEF WrappedBy, Others
  <2>4. Cardinality(on \cap {g}) <= 1
    <3>1. on \cap {g} = {} \/ on \cap {g} = {g}
      OBVIOUS
    <3>2. Cardinality({}) = 0
      BY FS_EmptySet
    <3>3. Cardinality({g}) = 1
      BY FS_Singleton
    <3>4. Cardinality(on \cap {g}) \in {0, 1}
      BY <3>1, <3>2, <3>3, Zenon
    <3>5. QED BY <3>4
  <2>5. QED BY <2>2, <2>3, <2>4
<1>5. QED BY <1>2, <1>3, <1>4 DEF SocketInv, WrapInv

LEMMA NobodysIsBare == SocketInv => SocketReleased
<1> SUFFICES ASSUME SocketInv, NEW s \in Sockets,
                    \A h \in DOMAIN handles : handles[h].socket = s => handles[h].detached > 0
             PROVE  chain[s] = <<>> /\ ~marked[s]
  BY DEF SocketReleased
<1>1. ~\E g \in Nat : WrappedBy(s, g)
  BY DEF WrappedBy
<1>2. QED BY <1>1 DEF SocketInv, WrapInv, Bare

-------------------------------------------------------------------------------
(* The calls *)

CallRecord ==
  [state : {"sent", "reading"} \cup H!Over, session : Sessions, operations : {0, 1},
   status : {"none"} \cup H!Statuses, written : {<<>>} \cup {<<u>> : u \in H!Statuses},
   promised : BOOLEAN, inTime : BOOLEAN]

\* A call that is a promise has its operation until it is over.
Going(k) ==
  /\ k \in CallRecord
  /\ k.state # "sent" => k.status \in H!Statuses
  /\ k.promised => k.operations = 1
  /\ k.state \in H!Over /\ k.promised /\ k.inTime => k.written = <<k.status>>

CallInv == call \in [Calls -> {H!NewCall} \cup {k \in CallRecord : Going(k)}]

LEMMA InitCallInv == H!HttpInit => CallInv
BY DEF H!HttpInit, CallInv

\* One wrapper while anybody holds the patch: one operation, and none without.
LEMMA BeginsOne ==
  ASSUME PatchedWhileHeld, NEW x \in Sessions
  PROVE  /\ H!Begun(x) \in {0, 1}
         /\ H!Held(ObserverOf[x], "http") /\ phase[x] # "ended" => H!Begun(x) = 1
<1>1. layers["http"] = IF Holders("http") = {} THEN 0 ELSE 1
  BY DEF PatchedWhileHeld, Kinds
<1>2. H!Held(ObserverOf[x], "http") => ObserverOf[x] \in Holders("http")
  BY SocketAssumption DEF SocketAssumption, Holders, Held, H!Held
<1>3. QED BY <1>1, <1>2 DEF H!Begun

LEMMA SendStep ==
  ASSUME CallInv, PatchedWhileHeld, NEW c \in Calls, NEW x \in Sessions, H!Send(c, x)
  PROVE  CallInv'
<1>1. PICK ours \in BOOLEAN :
        call' = [call EXCEPT ![c] =
          [state |-> "sent", session |-> x, status |-> "none", written |-> <<>>,
           operations |-> IF ours THEN H!Begun(x) ELSE 0, inTime |-> FALSE,
           promised |-> ours /\ H!Held(ObserverOf[x], "http") /\ phase[x] # "ended"]]
  BY DEF H!Send
<1>2. PICK n : n = IF ours THEN H!Begun(x) ELSE 0
  OBVIOUS
<1>3. PICK p \in BOOLEAN : p = (ours /\ H!Held(ObserverOf[x], "http") /\ phase[x] # "ended")
  OBVIOUS
<1>4. n \in {0, 1} /\ (p => n = 1)
  BY <1>2, <1>3, BeginsOne
<1>5. PICK k : k = [state |-> "sent", session |-> x, status |-> "none", written |-> <<>>,
                    operations |-> n, inTime |-> FALSE, promised |-> p]
  OBVIOUS
<1>6. k \in CallRecord /\ k.state = "sent" /\ k.promised = p /\ k.operations = n
  BY <1>4, <1>5 DEF CallRecord
<1>7. Going(k)
  BY <1>4, <1>6 DEF Going, H!Over
<1>8. call' = [call EXCEPT ![c] = k]
  BY <1>1, <1>2, <1>3, <1>5
<1>9. QED BY <1>6, <1>7, <1>8 DEF CallInv

\* What is written when a call is over.
LEMMA ConcludeStep ==
  ASSUME CallInv, NEW c \in Calls, call[c].state \in {"sent", "reading"},
         NEW state \in H!Over, NEW status \in H!Statuses, H!Conclude(c, state, status)
  PROVE  CallInv'
<1>1. PICK k \in CallRecord : k = call[c] /\ Going(k)
  <2>1. H!NewCall.state = "none"
    BY DEF H!NewCall
  <2>2. QED BY <2>1 DEF CallInv
<1>2. PICK live \in BOOLEAN : live = (phase[call[c].session] # "ended")
  OBVIOUS
<1>3. PICK w : w = [i \in 1..(IF live THEN k.operations ELSE 0) |-> status]
  OBVIOUS
<1>4. /\ live /\ k.operations = 1 => w = <<status>>
      /\ ~(live /\ k.operations = 1) => w = <<>>
  <2>1. k.operations \in {0, 1}
    BY DEF CallRecord
  <2>2. CASE live /\ k.operations = 1
    BY <2>2, <1>3
  <2>3. CASE ~(live /\ k.operations = 1)
    <3>1. 1..0 = {}
      OBVIOUS
    <3>2. w = [i \in {} |-> status]
      BY <2>1, <2>3, <3>1, <1>3
    <3>3. <<>> = [i \in {} |-> status]
      OBVIOUS
    <3>4. QED BY <3>2, <3>3, <2>3
  <2>4. QED BY <2>2, <2>3
<1>5. w \in {<<>>} \cup {<<u>> : u \in H!Statuses}
  BY <1>4
<1>6. PICK e : e = [k EXCEPT !.state = state, !.status = status, !.inTime = live, !.written = w]
  OBVIOUS
<1>7. /\ e.state = state /\ e.status = status /\ e.inTime = live /\ e.written = w
      /\ e.promised = k.promised /\ e.operations = k.operations
  BY <1>6 DEF CallRecord
<1>8. e \in CallRecord
  BY <1>5, <1>6 DEF CallRecord
<1>9. Going(e)
  BY <1>1, <1>4, <1>7, <1>8 DEF Going
<1>10. call' = [call EXCEPT ![c] = e]
  BY <1>1, <1>2, <1>3, <1>6 DEF H!Conclude, CallInv
<1>11. QED BY <1>8, <1>9, <1>10 DEF CallInv

LEMMA AnsweredStep ==
  ASSUME CallInv, NEW c \in Calls, H!Answered(c)
  PROVE  CallInv'
<1>1. PICK status \in H!Statuses :
        \/ H!Conclude(c, "returned", status)
        \/ call' = [call EXCEPT ![c].state = "reading", ![c].status = status]
  BY DEF H!Answered
<1>2. CASE H!Conclude(c, "returned", status)
  BY <1>2, ConcludeStep DEF H!Answered, H!Over
<1>3. CASE call' = [call EXCEPT ![c].state = "reading", ![c].status = status]
  <2>1. PICK k \in CallRecord : k = call[c] /\ Going(k)
    <3>1. H!NewCall.state = "none"
      BY DEF H!NewCall
    <3>2. QED BY <3>1 DEF CallInv, H!Answered
  <2>2. PICK e : e = [k EXCEPT !.state = "reading", !.status = status]
    OBVIOUS
  <2>3. /\ e.state = "reading" /\ e.status = status
        /\ e.promised = k.promised /\ e.operations = k.operations
    BY <2>2 DEF CallRecord
  <2>4. e \in CallRecord
    BY <2>2 DEF CallRecord
  <2>5. Going(e)
    BY <2>1, <2>3, <2>4 DEF Going, H!Over
  <2>6. call' = [call EXCEPT ![c] = e]
    BY <2>1, <2>2, <1>3 DEF CallInv
  <2>7. QED BY <2>4, <2>5, <2>6 DEF CallInv
<1>4. QED BY <1>1, <1>2, <1>3

LEMMA CallStep ==
  ASSUME CallInv, PatchedWhileHeld, H!HttpNext
  PROVE  CallInv'
<1>1. ASSUME NEW c \in Calls, H!Raises(c)
      PROVE  CallInv'
  BY <1>1, ConcludeStep DEF H!Raises, H!Over, H!Statuses
<1>2. ASSUME NEW c \in Calls, H!ReadsBody(c)
      PROVE  CallInv'
  <2>1. call[c].state = "reading" /\ H!Conclude(c, "returned", call[c].status)
    BY <1>2 DEF H!ReadsBody, H!BodyRead
  <2>2. call[c].status \in H!Statuses
    <3>1. H!NewCall.state = "none"
      BY DEF H!NewCall
    <3>2. QED BY <2>1, <3>1 DEF CallInv, Going
  <2>3. QED BY <2>1, <2>2, ConcludeStep DEF H!Over
<1>3. QED BY <1>1, <1>2, AnsweredStep, SendStep DEF H!HttpNext

LEMMA CallsAreRecorded == CallInv => H!CallRecordedOnce
<1> SUFFICES ASSUME CallInv, NEW c \in Calls
             PROVE  /\ Len(call[c].written) <= 1
                    /\ call[c].state \in H!Over /\ call[c].promised /\ call[c].inTime
                         => call[c].written = <<call[c].status>>
  BY DEF H!CallRecordedOnce
<1>1. Len(<<>>) = 0 /\ \A u : Len(<<u>>) = 1
  OBVIOUS
<1>2. CASE call[c] = H!NewCall
  BY <1>1, <1>2 DEF H!NewCall
<1>3. CASE call[c] \in CallRecord /\ Going(call[c])
  <2>1. call[c].written \in {<<>>} \cup {<<u>> : u \in H!Statuses}
    BY <1>3 DEF CallRecord
  <2>2. PICK w : w = call[c].written
    OBVIOUS
  <2>3. Len(w) = 0 \/ Len(w) = 1
    BY <2>1, <2>2, <1>1
  <2>4. Len(call[c].written) <= 1
    <3>1. Len(w) <= 1
      <4> DEFINE n == Len(w)
      <4>1. n \in {0, 1}
        BY <2>3
      <4> HIDE DEF n
      <4>2. n <= 1
        BY <4>1
      <4>3. QED BY <4>2 DEF n
    <3>2. QED BY <3>1, <2>2
  <2>5. QED BY <2>4, <1>3 DEF Going
<1>4. QED BY <1>2, <1>3 DEF CallInv

-------------------------------------------------------------------------------
(* The theorems about sockets *)

WireInv == PatchInv /\ SocketInv

LEMMA CallsLeavePhase == H!HttpNext => UNCHANGED phase
BY DEF H!HttpNext, H!Raises, H!Answered, H!ReadsBody, H!Send

LEMMA WireStep == WireInv /\ MaxDetaches <= 1 /\ [Next]_vars => WireInv'
<1> SUFFICES ASSUME WireInv, MaxDetaches <= 1, [Next]_vars PROVE WireInv'
  OBVIOUS
<1> USE PatchInvImplies, PatchStep, SocketSame DEF WireInv
<1>1. CASE PatchNext /\ UNCHANGED <<socketVars, call>>
  BY <1>1 DEF socketVars
<1>2. CASE SocketNext /\ UNCHANGED <<patchVars, call>>
  BY <1>2, SocketStep
<1>3. CASE H!HttpNext /\ UNCHANGED <<patchVars, owned, todo, socket, chain, marked, handles,
                                     finishing>>
  BY <1>3, CallsLeavePhase
<1>4. CASE UNCHANGED vars
  BY <1>4 DEF vars, socketVars
<1>5. QED BY <1>1, <1>2, <1>3, <1>4 DEF Next

LEMMA InitWireInv == Init => WireInv
BY InitPatchInv, InitSocketInv DEF Init, WireInv

LEMMA WireInvAlways == ASSUME MaxDetaches <= 1 PROVE Spec => []WireInv
<1>1. WireInv /\ [Next]_vars => WireInv'
  BY WireStep
<1>2. QED BY <1>1, InitWireInv, PTL DEF Spec

\* Whichever observers come and go, and however a session's end races the sockets'
\* own thread, a frame runs through the wrapper of at most one observation that
\* counts it, and through that of every observation nobody has detached: whatever
\* sockets refuse attributes and whatever methods are left unwrapped, of whose
\* frames it says only that none is counted twice.
THEOREM EveryFrameIsCountedOnce ==
  ASSUME MaxDetaches <= 1
  PROVE  Spec => []FramesCountedOnce
<1>1. WireInv => FramesCountedOnce
  BY OneWrapperCounts DEF WireInv
<1>2. QED BY <1>1, WireInvAlways, PTL

\* A socket whose observations have all been detached, by the application, by the
\* session's end() or by a connect that came too late for it, is unwrapped and
\* unmarked, so that the next session can observe it.
THEOREM DetachedSocketsAreBare ==
  ASSUME MaxDetaches <= 1
  PROVE  Spec => []SocketReleased
<1>1. WireInv => SocketReleased
  BY NobodysIsBare DEF WireInv
<1>2. QED BY <1>1, WireInvAlways, PTL


-------------------------------------------------------------------------------
(* What observers are promised, however often handles are detached *)

\* Every handle the step may detach or finish is one there is.
HonourInv ==
  /\ Shapes /\ PromiseInv
  /\ \A x \in Sessions : owned[x] \subseteq DOMAIN handles /\ todo[x] \subseteq DOMAIN handles
  /\ \A s \in Sockets :
       /\ socket[s].register \in DOMAIN handles \cup {Nothing}
       /\ socket[s].state # "none" => socket[s].session \in Sessions

\* No observation changes sockets, and none is lost.
SameSockets ==
  /\ handles' \in Seq(HandleRecord) /\ DOMAIN handles' = DOMAIN handles
  /\ \A h \in DOMAIN handles : handles'[h].socket = handles[h].socket

LEMMA AnyDetach ==
  ASSUME Shapes, NEW h \in DOMAIN handles, NEW t, Detach(h, t)
  PROVE  /\ SameSockets
         /\ chain' \in [Sockets -> Seq(Nat)] /\ marked' \in [Sockets -> BOOLEAN]
<1>1. PICK q \in HandleRecord : q = handles[h]
  BY DEF Shapes
<1>2. PICK n \in Nat : n = q.detached + 1
  BY DEF HandleRecord
<1>3. PICK e : e = [q EXCEPT !.patched = FALSE, !.detached = n]
  OBVIOUS
<1>4. e \in HandleRecord /\ e.socket = q.socket
  BY <1>3 DEF HandleRecord
<1>5. handles' = [handles EXCEPT ![h] = e]
  BY <1>1, <1>2, <1>3 DEF Detach
<1>6. SameSockets
  BY <1>1, <1>4, <1>5 DEF SameSockets, Shapes
<1>7. q.socket \in Sockets /\ q.below \in Seq(Nat) /\ <<>> \in Seq(Nat)
  BY DEF HandleRecord
<1>8. chain' \in [Sockets -> Seq(Nat)]
  BY <1>1, <1>7 DEF Detach, Unwrapped, Shapes
<1>9. marked' \in [Sockets -> BOOLEAN]
  BY <1>1, <1>7 DEF Detach, Shapes
<1>10. QED BY <1>6, <1>8, <1>9

LEMMA AnyAttach ==
  ASSUME Shapes, NEW s \in Sockets, NEW x \in Sessions,
         NEW keeper \in {"application", "session"}, Attach(s, x, keeper)
  PROVE  LET g == Len(handles) + 1
         IN /\ handles' \in Seq(HandleRecord) /\ g \in Nat
            /\ DOMAIN handles' = DOMAIN handles \cup {g}
            /\ \A h \in DOMAIN handles : handles'[h] = handles[h]
            /\ handles'[g].socket = s
            /\ chain' \in [Sockets -> Seq(Nat)] /\ marked' \in [Sockets -> BOOLEAN]
<1>1. PICK e : e = [socket |-> s, session |-> x, keeper |-> keeper,
                    below |-> chain[s], patched |-> s \notin Slotted,
                    inert |-> phase[x] = "ended",
                    closed |-> FALSE, written |-> 0, detached |-> 0]
  OBVIOUS
<1>2. e \in HandleRecord /\ e.socket = s
  BY <1>1 DEF Shapes, HandleRecord
<1>3. handles' = Append(handles, e) /\ handles \in Seq(HandleRecord)
  BY <1>1 DEF Attach, Shapes
<1>4. PICK g : g = Len(handles) + 1
  OBVIOUS
<1>5. g \in Nat
  BY <1>3, <1>4
<1>6. /\ handles' \in Seq(HandleRecord)
      /\ DOMAIN handles' = DOMAIN handles \cup {g}
      /\ \A h \in DOMAIN handles : handles'[h] = handles[h]
      /\ handles'[g] = e
  BY ONLY <1>2, <1>3, <1>4, Appended
<1>7. <<g>> \o chain[s] \in Seq(Nat)
  <2>1. \A c \in Seq(Nat) : \A n \in Nat : <<n>> \o c \in Seq(Nat)
    OBVIOUS
  <2>2. chain[s] \in Seq(Nat)
    BY DEF Shapes
  <2>3. QED BY <2>1, <2>2, <1>5
<1>8. chain' \in [Sockets -> Seq(Nat)] /\ marked' \in [Sockets -> BOOLEAN]
  BY <1>4, <1>7 DEF Attach, InstallOn, Shapes
<1>9. QED BY <1>2, <1>4, <1>5, <1>6, <1>8

\* Whatever keeps the sockets and the observations of them keeps the promise.
LEMMA HonourSame ==
  ASSUME HonourInv, SameSockets,
         phase' \in [Sessions -> {"live", "ending", "ended"}],
         owned' \in [Sessions -> SUBSET Nat], todo' \in [Sessions -> SUBSET Nat],
         chain' \in [Sockets -> Seq(Nat)], marked' \in [Sockets -> BOOLEAN],
         \A x \in Sessions : /\ owned'[x] \subseteq DOMAIN handles
                              /\ todo'[x] \subseteq DOMAIN handles,
         socket' \in [Sockets -> SocketRecord],
         \A s \in Sockets :
           /\ socket'[s].register \in DOMAIN handles \cup {Nothing}
           /\ socket'[s].session = socket[s].session
           /\ socket'[s].promised = socket[s].promised
           /\ socket'[s].wrapped = socket[s].wrapped
           /\ socket'[s].state # socket[s].state
                => socket'[s].state = "closed" /\ socket[s].state = "open"
  PROVE  HonourInv'
<1>1. Shapes'
  BY DEF Shapes, SameSockets
<1>2. \A s : Observed(s)' <=> Observed(s)
  BY DEF Observed, SameSockets
<1>3. PromiseInv'
  BY <1>2 DEF HonourInv, PromiseInv
<1>4. QED BY <1>1, <1>3 DEF HonourInv, SameSockets

LEMMA InitHonourInv == SocketInit => HonourInv
<1> SUFFICES ASSUME SocketInit PROVE HonourInv
  OBVIOUS
<1>1. Shapes /\ PromiseInv
  BY InitSocketInv DEF SocketInv
<1>2. QED BY <1>1 DEF SocketInit, HonourInv, NewSocket

\* The next connection of a socket, and what it may promise.
LEMMA HonourConnect ==
  ASSUME HonourInv, PatchedWhileHeld, NEW s \in Sockets, NEW x \in Sessions, Connect(s, x)
  PROVE  HonourInv'
<1>1. Held(ObserverOf[x], "websocket") => layers["websocket"] > 0
  <2> SUFFICES ASSUME Held(ObserverOf[x], "websocket") PROVE layers["websocket"] > 0
    OBVIOUS
  <2>1. ObserverOf[x] \in Holders("websocket")
    BY SocketAssumption DEF SocketAssumption, Holders
  <2>2. QED BY <2>1 DEF PatchedWhileHeld, Kinds
<1>2. PICK a \in BOOLEAN, b \in BOOLEAN :
             a = (layers["websocket"] > 0) /\ b = Held(ObserverOf[x], "websocket")
  <2>1. (layers["websocket"] > 0) \in BOOLEAN /\ Held(ObserverOf[x], "websocket") \in BOOLEAN
    BY DEF Held
  <2>2. QED BY <2>1, Zenon
<1>3. PICK e : e = [state |-> "connecting", session |-> x, register |-> Nothing,
                    wrapped |-> a, promised |-> b]
  OBVIOUS
<1>4. /\ e \in SocketRecord /\ e.state = "connecting" /\ e.session = x
      /\ e.register = Nothing /\ (e.promised => e.wrapped)
  BY <1>1, <1>2, <1>3 DEF SocketRecord, Nothing
<1>5. socket' = [socket EXCEPT ![s] = e] /\ socket[s].state = "none"
  BY <1>2, <1>3 DEF Connect
<1>6. UNCHANGED <<phase, owned, todo, chain, marked, handles>>
  BY DEF Connect
<1>7. /\ socket' \in [Sockets -> SocketRecord] /\ socket'[s] = e
      /\ \A r \in Sockets : r # s => socket'[r] = socket[r]
  BY <1>4, <1>5 DEF HonourInv, Shapes
<1>8. Shapes'
  BY <1>6, <1>7 DEF HonourInv, Shapes
<1>9. PromiseInv'
  BY <1>4, <1>5, <1>6, <1>7 DEF HonourInv, PromiseInv, Observed
<1>10. QED BY <1>4, <1>6, <1>7, <1>8, <1>9 DEF HonourInv

LEMMA HonourObserve ==
  ASSUME HonourInv, NEW s \in Sockets, NEW x \in Sessions, Observe(s, x)
  PROVE  HonourInv'
<1>1. PICK g : g = Len(handles) + 1
  OBVIOUS
<1>2. /\ handles' \in Seq(HandleRecord) /\ g \in Nat
      /\ DOMAIN handles' = DOMAIN handles \cup {g}
      /\ \A h \in DOMAIN handles : handles'[h] = handles[h]
      /\ handles'[g].socket = s
      /\ chain' \in [Sockets -> Seq(Nat)] /\ marked' \in [Sockets -> BOOLEAN]
  BY <1>1, AnyAttach DEF HonourInv, Observe
<1>3. UNCHANGED <<phase, owned, todo, socket>> /\ socket[s].state = "open"
  BY DEF Observe, Open
<1>4. Shapes'
  BY <1>2, <1>3 DEF HonourInv, Shapes
<1>5. \A r \in Sockets : Observed(r)' <=> Observed(r) \/ r = s
  BY <1>2 DEF Observed
<1>6. PromiseInv'
  BY <1>3, <1>5 DEF HonourInv, PromiseInv
<1>7. QED BY <1>2, <1>3, <1>4, <1>6 DEF HonourInv

LEMMA HonourConnected ==
  ASSUME HonourInv, NEW s \in Sockets, Connected(s)
  PROVE  HonourInv'
<1>1. PICK q \in SocketRecord : q = socket[s]
  BY DEF HonourInv, Shapes
<1>2. q.state = "connecting" /\ (q.promised => q.wrapped)
  BY <1>1 DEF Connected, HonourInv, PromiseInv
<1>3. PICK x \in Sessions : x = q.session
  BY <1>1, <1>2 DEF HonourInv
<1>4. UNCHANGED <<phase, owned, todo>>
  BY DEF Connected
<1>5. CASE q.wrapped /\ phase[x] # "ended"
  <2>1. PICK g : g = Len(handles) + 1
    OBVIOUS
  <2>2. Attach(s, x, "session")
    BY <1>1, <1>3, <1>5 DEF Connected
  <2>3. /\ handles' \in Seq(HandleRecord) /\ g \in Nat
        /\ DOMAIN handles' = DOMAIN handles \cup {g}
        /\ \A h \in DOMAIN handles : handles'[h] = handles[h]
        /\ handles'[g].socket = s
        /\ chain' \in [Sockets -> Seq(Nat)] /\ marked' \in [Sockets -> BOOLEAN]
    BY <2>1, <2>2, AnyAttach DEF HonourInv
  <2>4. PICK e : e = [q EXCEPT !.state = "open", !.register = g]
    OBVIOUS
  <2>5. e \in SocketRecord /\ e.state = "open" /\ e.register = g /\ e.session = x
    <3>1. e.state = "open" /\ e.register = g /\ e.session = x
      BY <2>4, <1>3 DEF SocketRecord
    <3>2. g \in Nat
      BY <2>3
    <3>3. e \in SocketRecord
      BY <2>4, <3>2 DEF SocketRecord
    <3>4. QED BY <3>1, <3>3
  <2>6. socket' = [socket EXCEPT ![s] = e]
    BY <2>1, <2>4, <1>1, <1>3, <1>5 DEF Connected, HonourInv, Shapes
  <2>7. /\ socket' \in [Sockets -> SocketRecord] /\ socket'[s] = e
        /\ \A r \in Sockets : r # s => socket'[r] = socket[r]
    BY <2>5, <2>6 DEF HonourInv, Shapes
  <2>8. Shapes'
    BY <2>3, <2>7, <1>4 DEF HonourInv, Shapes
  <2>9. \A r \in Sockets : Observed(r)' <=> Observed(r) \/ r = s
    BY <2>3 DEF Observed
  <2>10. PromiseInv'
    BY <2>5, <2>7, <2>9 DEF HonourInv, PromiseInv
  <2>11. QED BY <2>3, <2>5, <2>7, <2>8, <2>10, <1>4 DEF HonourInv
<1>6. CASE ~(q.wrapped /\ phase[x] # "ended")
  <2>1. (q.promised /\ phase[x] # "ended") = FALSE
    BY <1>2, <1>6
  <2>2. PICK e : e = [q EXCEPT !.state = "open", !.promised = FALSE]
    OBVIOUS
  <2>3. /\ e \in SocketRecord /\ e.state = "open" /\ e.promised = FALSE
        /\ e.register = q.register /\ e.session = x
    BY <2>2, <1>3 DEF SocketRecord
  <2>4. UNCHANGED <<chain, marked, handles>> /\ socket' = [socket EXCEPT ![s] = e]
    <3>1. /\ UNCHANGED <<chain, marked, handles>>
          /\ socket' = [socket EXCEPT ![s] = [q EXCEPT !.state = "open",
                                      !.promised = (q.promised /\ phase[x] # "ended")]]
      BY <1>1, <1>3, <1>6 DEF Connected, HonourInv, Shapes
    <3>2. QED BY <3>1, <2>1, <2>2
  <2>5. /\ socket' \in [Sockets -> SocketRecord] /\ socket'[s] = e
        /\ \A r \in Sockets : r # s => socket'[r] = socket[r]
    BY <2>3, <2>4 DEF HonourInv, Shapes
  <2>6. Shapes'
    BY <2>4, <2>5, <1>4 DEF HonourInv, Shapes
  <2>7. PromiseInv'
    BY <2>3, <2>4, <2>5 DEF HonourInv, PromiseInv, Observed
  <2>8. QED BY <2>3, <2>4, <2>5, <2>6, <2>7, <1>1, <1>4 DEF HonourInv
<1>7. QED BY <1>5, <1>6

\* The steps that make no observation and no connection.
Later ==
  \/ \E s \in Sockets : Register(s) \/ Close(s) \/ \E way \in Ways : FrameFails(s, way)
  \/ \E h \in DOMAIN handles : AppDetaches(h) \/ \E t \in Threads : Finish(t, h)
  \/ \E x \in Sessions :
       MarkEnding(x) \/ SetEnded(x) \/ \E h \in todo[x] : EndDetaches(x, h)

LEMMA LaterKeeps ==
  ASSUME HonourInv, Later
  PROVE  /\ SameSockets
         /\ chain' \in [Sockets -> Seq(Nat)] /\ marked' \in [Sockets -> BOOLEAN]
<1>1. ASSUME UNCHANGED <<chain, marked, handles>>
      PROVE  /\ SameSockets
             /\ chain' \in [Sockets -> Seq(Nat)] /\ marked' \in [Sockets -> BOOLEAN]
  BY <1>1 DEF SameSockets, HonourInv, Shapes
<1>2. ASSUME NEW h \in DOMAIN handles, NEW t, Detach(h, t)
      PROVE  /\ SameSockets
             /\ chain' \in [Sockets -> Seq(Nat)] /\ marked' \in [Sockets -> BOOLEAN]
  BY <1>2, AnyDetach DEF HonourInv
<1>3. ASSUME NEW t, NEW h \in DOMAIN handles, Finish(t, h)
      PROVE  /\ SameSockets
             /\ chain' \in [Sockets -> Seq(Nat)] /\ marked' \in [Sockets -> BOOLEAN]
  <2>1. PICK q \in HandleRecord : q = handles[h]
    BY DEF HonourInv, Shapes
  <2>2. PICK n : n = IF ~q.inert /\ phase[q.session] # "ended" THEN q.written + 1 ELSE q.written
    OBVIOUS
  <2>3. n \in Nat
    BY <2>2 DEF HandleRecord
  <2>4. PICK e : e = [q EXCEPT !.closed = TRUE, !.written = n]
    OBVIOUS
  <2>5. e \in HandleRecord /\ e.socket = q.socket
    BY <2>3, <2>4 DEF HandleRecord
  <2>6. handles' = [handles EXCEPT ![h] = e] /\ UNCHANGED <<chain, marked>>
    BY <2>1, <2>2, <2>4, <1>3 DEF Finish, HonourInv, Shapes
  <2>7. QED BY <2>1, <2>5, <2>6 DEF SameSockets, HonourInv, Shapes
<1>4. ASSUME NEW s \in Sockets,
             Register(s) \/ Close(s) \/ \E way \in Ways : FrameFails(s, way)
      PROVE  /\ SameSockets
             /\ chain' \in [Sockets -> Seq(Nat)] /\ marked' \in [Sockets -> BOOLEAN]
  BY <1>4, <1>1, <1>2 DEF Register, FrameFails, Close, HonourInv
<1>5. ASSUME NEW x \in Sessions,
             MarkEnding(x) \/ SetEnded(x) \/ \E h \in todo[x] : EndDetaches(x, h)
      PROVE  /\ SameSockets
             /\ chain' \in [Sockets -> Seq(Nat)] /\ marked' \in [Sockets -> BOOLEAN]
  <2>1. todo[x] \subseteq DOMAIN handles
    BY DEF HonourInv
  <2>2. QED BY <2>1, <1>5, <1>1, <1>2 DEF MarkEnding, SetEnded, EndDetaches
<1>6. ASSUME NEW h \in DOMAIN handles, AppDetaches(h)
      PROVE  /\ SameSockets
             /\ chain' \in [Sockets -> Seq(Nat)] /\ marked' \in [Sockets -> BOOLEAN]
  BY <1>6, <1>2 DEF AppDetaches
<1>7. QED BY <1>3, <1>4, <1>5, <1>6 DEF Later

Listed ==
  /\ phase' \in [Sessions -> {"live", "ending", "ended"}]
  /\ owned' \in [Sessions -> SUBSET Nat] /\ todo' \in [Sessions -> SUBSET Nat]
  /\ \A x \in Sessions : /\ owned'[x] \subseteq DOMAIN handles
                          /\ todo'[x] \subseteq DOMAIN handles

LEMMA LaterListed == ASSUME HonourInv, Later PROVE Listed
<1> USE DEF HonourInv, Shapes
<1>1. DOMAIN handles \subseteq Nat
  OBVIOUS
<1>2. ASSUME UNCHANGED <<phase, todo>>, owned' \in [Sessions -> SUBSET Nat],
             \A x \in Sessions : owned'[x] \subseteq DOMAIN handles
      PROVE  Listed
  BY <1>2 DEF Listed
<1>3. ASSUME UNCHANGED <<phase, owned, todo>> PROVE Listed
  BY <1>3, <1>2
<1>4. ASSUME NEW s \in Sockets, Register(s) PROVE Listed
  <2>1. PICK h, x : h = socket[s].register /\ x = socket[s].session
    OBVIOUS
  <2>2. h \in DOMAIN handles
    BY <1>4, <2>1 DEF Register
  <2>3. UNCHANGED <<phase, todo>>
        /\ (owned' = [owned EXCEPT ![x] = @ \cup {h}] \/ UNCHANGED owned)
    BY <1>4, <2>1 DEF Register
  <2>4. CASE owned' = [owned EXCEPT ![x] = @ \cup {h}]
    <3>1. \A y \in Sessions : owned'[y] \in {owned[y], owned[y] \cup {h}}
      BY <2>4
    <3>2. DOMAIN owned' = Sessions /\ owned' = [y \in Sessions |-> owned'[y]]
      BY <2>4
    <3>3. \A y \in Sessions : owned'[y] \subseteq DOMAIN handles /\ owned'[y] \subseteq Nat
      <4>1. \A y \in Sessions : owned[y] \subseteq DOMAIN handles
        OBVIOUS
      <4>2. \A y \in Sessions : owned'[y] \subseteq DOMAIN handles
        BY ONLY <4>1, <3>1, <2>2
      <4>3. QED BY ONLY <4>2, <1>1
    <3>4. owned' \in [Sessions -> SUBSET Nat]
      BY <3>2, <3>3
    <3>5. QED BY <3>3, <3>4, <2>3, <1>2
  <2>5. CASE UNCHANGED owned
    BY <2>5, <2>3, <1>3
  <2>6. QED BY <2>3, <2>4, <2>5
<1>5. ASSUME NEW s \in Sockets, Close(s) \/ \E way \in Ways : FrameFails(s, way)
      PROVE  Listed
  BY <1>5, <1>3 DEF FrameFails, Close
<1>6. ASSUME NEW h \in DOMAIN handles, AppDetaches(h) PROVE Listed
  BY <1>6, <1>3 DEF AppDetaches
<1>7. ASSUME NEW t, NEW h, Finish(t, h) PROVE Listed
  <2>1. UNCHANGED <<phase, todo>> /\ owned' = [x \in Sessions |-> owned[x] \ {h}]
    BY <1>7 DEF Finish
  <2>2. QED BY <2>1, <1>2
<1>8. ASSUME NEW x \in Sessions, MarkEnding(x) PROVE Listed
  <2>1. /\ phase' = [phase EXCEPT ![x] = "ending"]
        /\ todo' = [todo EXCEPT ![x] = owned[x]] /\ owned' = [owned EXCEPT ![x] = {}]
    BY <1>8 DEF MarkEnding
  <2>2. QED BY <2>1 DEF Listed
<1>9. ASSUME NEW x \in Sessions, SetEnded(x) PROVE Listed
  <2>1. phase' = [phase EXCEPT ![x] = "ended"] /\ UNCHANGED <<owned, todo>>
    BY <1>9 DEF SetEnded
  <2>2. QED BY <2>1 DEF Listed
<1>10. ASSUME NEW x \in Sessions, NEW h \in todo[x], EndDetaches(x, h) PROVE Listed
  <2>1. UNCHANGED <<phase, owned>> /\ todo' = [todo EXCEPT ![x] = @ \ {h}]
    BY <1>10 DEF EndDetaches
  <2>2. QED BY <2>1 DEF Listed
<1> HIDE DEF HonourInv, Shapes
<1>11. QED BY <1>4, <1>5, <1>6, <1>7, <1>8, <1>9, <1>10 DEF Later

LEMMA LaterConnected ==
  ASSUME HonourInv, Later
  PROVE  /\ socket' \in [Sockets -> SocketRecord]
         /\ \A s \in Sockets :
              /\ socket'[s].register \in DOMAIN handles \cup {Nothing}
              /\ socket'[s].session = socket[s].session
              /\ socket'[s].promised = socket[s].promised
              /\ socket'[s].wrapped = socket[s].wrapped
              /\ socket'[s].state # socket[s].state
                   => socket'[s].state = "closed" /\ socket[s].state = "open"
<1>1. ASSUME NEW s \in Sockets, Register(s)
      PROVE  \E q, e :
               /\ q \in SocketRecord /\ q = socket[s] /\ e = [q EXCEPT !.register = Nothing]
               /\ socket' = [socket EXCEPT ![s] = e]
  BY <1>1 DEF Register, HonourInv, Shapes
<1>2. ASSUME NEW s \in Sockets, Close(s)
      PROVE  \E q, e :
               /\ q \in SocketRecord /\ q = socket[s] /\ e = [q EXCEPT !.state = "closed"] /\ q.state = "open"
               /\ socket' = [socket EXCEPT ![s] = e]
  BY <1>2 DEF Close, Open, HonourInv, Shapes
<1>3. \/ UNCHANGED socket
      \/ \E s \in Sockets : Register(s) \/ Close(s)
  BY DEF Later, FrameFails, AppDetaches, Finish, MarkEnding, SetEnded, EndDetaches
<1>4. CASE UNCHANGED socket
  BY <1>4 DEF HonourInv, Shapes
<1>5. CASE \E s \in Sockets : Register(s) \/ Close(s)
  <2>1. PICK s \in Sockets : Register(s) \/ Close(s)
    BY <1>5
  <2>2. PICK q, e :
          /\ q \in SocketRecord /\ q = socket[s] /\ socket' = [socket EXCEPT ![s] = e]
          /\ \/ e = [q EXCEPT !.register = Nothing]
             \/ e = [q EXCEPT !.state = "closed"] /\ q.state = "open"
    BY <1>1, <1>2, <2>1
  <2>3. /\ e \in SocketRecord /\ e.register \in {q.register, Nothing}
        /\ e.session = q.session /\ e.promised = q.promised /\ e.wrapped = q.wrapped
        /\ e.state # q.state => e.state = "closed" /\ q.state = "open"
    BY <2>2 DEF SocketRecord, Nothing
  <2>4. /\ socket' \in [Sockets -> SocketRecord] /\ socket'[s] = e
        /\ \A r \in Sockets : r # s => socket'[r] = socket[r]
    BY <2>2, <2>3 DEF HonourInv, Shapes
  <2>5. QED BY <2>2, <2>3, <2>4 DEF HonourInv
<1>6. QED BY <1>3, <1>4, <1>5

LEMMA HonourStep ==
  ASSUME HonourInv, PatchedWhileHeld, SocketNext
  PROVE  HonourInv'
<1>1. CASE Later
  BY <1>1, LaterKeeps, LaterListed, LaterConnected, HonourSame DEF Listed
<1>2. CASE \E s \in Sockets : Connected(s) \/ \E x \in Sessions : Connect(s, x) \/ Observe(s, x)
  BY <1>2, HonourConnect, HonourObserve, HonourConnected
<1>3. QED BY <1>1, <1>2 DEF SocketNext, Later

LEMMA HonourIdle ==
  ASSUME HonourInv, UNCHANGED <<phase, owned, todo, socket, chain, marked, handles>>
  PROVE  HonourInv'
BY DEF HonourInv, Shapes, PromiseInv, Observed

RecordInv == PatchInv /\ HonourInv /\ CallInv

LEMMA CallSame == CallInv /\ UNCHANGED call => CallInv'
BY DEF CallInv

LEMMA RecordStep == RecordInv /\ [Next]_vars => RecordInv'
<1> SUFFICES ASSUME RecordInv, [Next]_vars PROVE RecordInv'
  OBVIOUS
<1> USE PatchInvImplies, PatchStep, HonourIdle, CallSame DEF RecordInv
<1>1. CASE PatchNext /\ UNCHANGED <<socketVars, call>>
  BY <1>1 DEF socketVars
<1>2. CASE SocketNext /\ UNCHANGED <<patchVars, call>>
  BY <1>2, HonourStep
<1>3. CASE H!HttpNext /\ UNCHANGED <<patchVars, owned, todo, socket, chain, marked, handles,
                                     finishing>>
  BY <1>3, CallsLeavePhase, CallStep
<1>4. CASE UNCHANGED vars
  BY <1>4 DEF vars, socketVars
<1>5. QED BY <1>1, <1>2, <1>3, <1>4 DEF Next

LEMMA PromisesAreKept == RecordInv => EveryObserverHonoured
<1> SUFFICES ASSUME RecordInv PROVE EveryObserverHonoured
  OBVIOUS
<1>1. H!CallRecordedOnce
  BY CallsAreRecorded DEF RecordInv
<1>2. \A s \in Sockets :
        Open(s) /\ socket[s].promised => \E h \in DOMAIN handles : handles[h].socket = s
  BY DEF RecordInv, HonourInv, PromiseInv, Open, Observed
<1>3. QED BY <1>1, <1>2 DEF EveryObserverHonoured

\* Any number of observers share the two patches: what a session connects or calls
\* while its own observer holds the patch is recorded, once, with the status the
\* caller saw, whoever installed the wrapper and whoever has left since.
THEOREM ObserversAreHonoured == Spec => []EveryObserverHonoured
<1>1. Init => RecordInv
  BY InitPatchInv, InitHonourInv, InitCallInv DEF Init, RecordInv
<1>2. Spec => []RecordInv
  BY <1>1, RecordStep, PTL DEF Spec
<1>3. QED BY <1>2, PromisesAreKept, PTL
===============================================================================

---------------------------- MODULE Instrumentation ----------------------------
(***************************************************************************)
(* The patches, the sockets and the HTTP calls of several observers in one *)
(* process: observers come and go while sessions of others connect, call   *)
(* and end.                                                                *)
(***************************************************************************)
EXTENDS SocketObservation

CONSTANT Calls

VARIABLE call

H == INSTANCE HttpCapture

vars == <<patchVars, socketVars, call>>

Init == PatchInit /\ SocketInit /\ H!HttpInit

Next ==
  \/ PatchNext /\ UNCHANGED <<socketVars, call>>
  \/ SocketNext /\ UNCHANGED <<patchVars, call>>
  \/ H!HttpNext /\ UNCHANGED <<patchVars, owned, todo, socket, chain, marked, handles,
                               finishing>>

Spec == Init /\ [][Next]_vars

TypeOK == PatchTypeOK /\ SocketTypeOK

\* "Every active observer is honoured", whoever installed the wrapper first and
\* whoever has uninstalled since: what a session of a live observer connects or
\* calls while its observer holds the patch is recorded, once.
EveryObserverHonoured ==
  /\ H!CallRecordedOnce
  /\ \A s \in Sockets :
       Open(s) /\ socket[s].promised => \E h \in DOMAIN handles : handles[h].socket = s
===============================================================================

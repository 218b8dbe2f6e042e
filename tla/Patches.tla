-------------------------------- MODULE Patches --------------------------------
(***************************************************************************)
(* The process-wide patches of instrumentation.py and websocket.py: every  *)
(* observer that asks for one holds a handle on it, and the first and the  *)
(* last of them install and remove it.  What a wrapped client records goes *)
(* to the session of the caller's context, whichever observer that has, so *)
(* the wrapper has to be there exactly as long as anybody holds it.        *)
(*                                                                         *)
(* The two reference counts have a lock each, taken for all of an acquire  *)
(* or a release.  An observer is constructed and uninstalled by one thread *)
(* at a time.                                                              *)
(***************************************************************************)
EXTENDS Naturals, FiniteSets

CONSTANTS Observers,
          Wanted   \* observer -> options["instrumentations"]

Kinds == {"http", "websocket"}

ASSUME PatchesAssumption ==
  IsFiniteSet(Observers) /\ Wanted \in [Observers -> SUBSET Kinds]

VARIABLES refcount,  \* per kind, _refcount and _ws_refcount
          layers,    \* per kind, the wrappers around the client's own method
          handle     \* per observer and kind, its handle

patchVars == <<refcount, layers, handle>>

PatchInit ==
  /\ refcount = [k \in Kinds |-> 0]
  /\ layers = [k \in Kinds |-> 0]
  /\ handle = [o \in Observers |-> [k \in Kinds |-> "none"]]

Held(o, k) == handle[o][k] = "held"

\* Bug: every observer wraps the client once more.
AcquireAlways(k) ==
  /\ refcount' = [refcount EXCEPT ![k] = @ + 1]
  /\ layers' = [layers EXCEPT ![k] = @ + 1]

Acquire(k) ==
  /\ refcount' = [refcount EXCEPT ![k] = @ + 1]
  /\ layers' = IF refcount[k] = 0 THEN [layers EXCEPT ![k] = @ + 1] ELSE layers

\* Bug: whoever leaves takes the patch along.
ReleaseAlways(k) ==
  /\ refcount' = [refcount EXCEPT ![k] = IF @ > 1 THEN @ - 1 ELSE 0]
  /\ layers' = [layers EXCEPT ![k] = 0]

Release(k) ==
  /\ refcount' = [refcount EXCEPT ![k] = IF @ > 1 THEN @ - 1 ELSE 0]
  /\ layers' = IF refcount[k] > 1 THEN layers ELSE [layers EXCEPT ![k] = 0]

\* The constructor: HTTP first, either or both.
Install(o, k) ==
  /\ k \in Wanted[o] /\ handle[o][k] = "none"
  /\ k = "websocket" => handle[o]["http"] # "none" \/ "http" \notin Wanted[o]
  /\ handle' = [handle EXCEPT ![o][k] = "held"]
  /\ Acquire(k)

Constructed(o) == \A k \in Wanted[o] : handle[o][k] # "none"

\* uninstall_instrumentation(), in the same order; a handle is let go once.
Uninstall(o, k) ==
  /\ Constructed(o) /\ Held(o, k)
  /\ k = "websocket" => ~Held(o, "http")
  /\ handle' = [handle EXCEPT ![o][k] = "gone"]
  /\ Release(k)

PatchNext == \E o \in Observers, k \in Kinds : Install(o, k) \/ Uninstall(o, k)

PatchSpec == PatchInit /\ [][PatchNext]_patchVars

Holders(k) == {o \in Observers : Held(o, k)}

PatchTypeOK ==
  /\ refcount \in [Kinds -> Nat]
  /\ layers \in [Kinds -> Nat]
  /\ handle \in [Observers -> [Kinds -> {"none", "held", "gone"}]]

\* A client is wrapped once as long as some observer holds the patch, whoever else
\* has come and gone, and is the client's own again when nobody does.
PatchedWhileHeld ==
  \A k \in Kinds : layers[k] = IF Holders(k) = {} THEN 0 ELSE 1
===============================================================================

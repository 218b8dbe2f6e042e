----------------------------- MODULE UploadPromise -----------------------------
(***************************************************************************)
(* What upload_package_sync() promises whoever calls it, a worker's finish *)
(* or a drain: it answers only when the backend has completed the session  *)
(* with everything the package holds, and raises otherwise.  A backend     *)
(* that has completed it keeps it, also behind an upload that raised.      *)
(***************************************************************************)
CONSTANT Nothing      \* no completion yet

VARIABLES everything, \* the objects of the package
          kept,       \* what the backend has completed the session with
          verdict     \* of the latest upload

promiseVars == <<everything, kept, verdict>>

Init == kept = Nothing /\ verdict = "pending"

Take == kept' = everything /\ UNCHANGED verdict

Deliver ==
  /\ verdict = "pending" /\ kept = everything
  /\ verdict' = "delivered" /\ UNCHANGED kept

\* The backend may take the session in the very step that brings its answer.
TakeAndDeliver ==
  /\ verdict = "pending"
  /\ kept' = everything /\ verdict' = "delivered"

GiveUp ==
  /\ verdict = "pending"
  /\ verdict' = "failed"
  /\ kept' \in {kept, everything}

TryAgain == verdict = "failed" /\ verdict' = "pending" /\ UNCHANGED kept

Next ==
  /\ Take \/ Deliver \/ TakeAndDeliver \/ GiveUp \/ TryAgain
  /\ UNCHANGED everything

Spec == Init /\ [][Next]_promiseVars
===============================================================================

------------------------------- MODULE MCPayload -------------------------------
(***************************************************************************)
(* Bodies of up to three messages, with and without tools.                 *)
(***************************************************************************)
EXTENDS Payload
===============================================================================

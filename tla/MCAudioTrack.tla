---------------------------- MODULE MCAudioTrack ----------------------------
(***************************************************************************)
(* Two rates of which neither is a whole number of samples to a            *)
(* millisecond nor a multiple of the other; chunks of an odd number of     *)
(* bytes, shorter and longer than a millisecond; a caller's time stamp     *)
(* that is not a whole number of milliseconds.                             *)
(***************************************************************************)
EXTENDS AudioTrack

MCRate == [k \in {"caller", "agent"} |-> IF k = "agent" THEN 2500 ELSE 1500]
===============================================================================

--------------------------- MODULE MCLiveKitRecorder ---------------------------
(***************************************************************************)
(* A call of three turns and two or three replies, the audio of one run of *)
(* tts_node, and two things that may go differently than planned.          *)
(***************************************************************************)
EXTENDS LiveKitRecorder, TLC

CONSTANTS s1, s2, s3, n1

Symmetry == Permutations(Speech) \cup Permutations(Stream)
===============================================================================

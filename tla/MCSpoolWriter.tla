---------------------------- MODULE MCSpoolWriter ----------------------------
(***************************************************************************)
(* Two threads that submit and close, racing the atexit hook, whose close  *)
(* has a timeout; an event log and one audio track; a queue of two, so     *)
(* that its order shows, and three writes, enough to find it full.         *)
(***************************************************************************)
EXTENDS SpoolWriter

CONSTANTS app, recorder, atexit, events, audio

MCThreads == {app, recorder, atexit}
MCTimed == {atexit}
MCFiles == {events, audio}
===============================================================================

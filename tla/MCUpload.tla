------------------------------- MODULE MCUpload -------------------------------
(***************************************************************************)
(* A package of a small file of events and audio worth compressing.        *)
(***************************************************************************)
EXTENDS Upload

CONSTANTS events, audio

MCObjects == <<events, audio>>
MCSize == [o \in {events, audio} |-> IF o = audio THEN 2 ELSE 0]
MCPacked == [o \in {events, audio} |-> IF o = audio THEN 1 ELSE 0]
MCBudgets == {Unlimited, 1, 5}
===============================================================================

------------------------------- MODULE MCSession -------------------------------
(***************************************************************************)
(* The loop and one other thread record; end() is called twice, while a    *)
(* capture may be pending and a socket open.  One queued write and two     *)
(* events: the queue is full while one is in hand, and a disk error, a     *)
(* drop and a refusal can each meet either end().                          *)
(***************************************************************************)
EXTENDS Session

CONSTANTS thread, end1, end2, body, socket

MCRecorders == {thread}
MCEnders == {end1, end2}
MCCaptures == {body}
MCHandles == {socket}
===============================================================================

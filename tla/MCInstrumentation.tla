--------------------------- MODULE MCInstrumentation ---------------------------
(***************************************************************************)
(* Two observers with a session each; a socket that outlives an            *)
(* observation, of any of the kinds there are, and an HTTP call.           *)
(***************************************************************************)
EXTENDS Instrumentation

CONSTANTS o1, o2, x1, x2, sync, slotted, c1

MCWanted == [o \in {o1, o2} |-> Kinds]
MCUncounted == [s \in {sync, slotted} |-> IF s = sync THEN {"receive"} ELSE {}]
MCObserverOf == [x \in {x1, x2} |-> IF x = x1 THEN o1 ELSE o2]

\* One connection is made; which kind of socket it is, is not told beforehand.
OneConnection == \A s, t \in Sockets : s # t => "none" \in {socket[s].state, socket[t].state}
===============================================================================

----------------------------- MODULE MCSpoolDrain -----------------------------
(***************************************************************************)
(* A worker that records and ships package 2 while package 1 waits on the  *)
(* spool, perhaps with a receipt of an older version.                      *)
(***************************************************************************)
EXTENDS SpoolDrain

CONSTANTS worker, sidecar, mover, stray, cloud, typo, events, audio

MCWorkers == {worker}
MCRecords == [w \in MCWorkers |-> 2]
MCObjects == <<events, audio>>
MCStores == {cloud}

\* A sidecar, an operator who moves the spool to a host that keeps nothing, and a
\* drainer pointed there by mistake.
MCPointed == [x \in {worker, sidecar, mover, stray} |->
                IF x \in {worker, sidecar} THEN cloud ELSE typo]
MCAstray == [x \in {worker, stray} |-> typo]
MCMovers == {mover}
MCWatchers == {sidecar, stray}
===============================================================================

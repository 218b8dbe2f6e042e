---------------------------- MODULE MCRecorderWiring ----------------------------
(***************************************************************************)
(* Two calls that share their agents: the second session is recorded by    *)
(* another recorder.  A startup path and a retry wire; two finish.         *)
(***************************************************************************)
EXTENDS RecorderWiring, TLC

CONSTANTS r1, r2, s1, s2, a1, a2, e1, e2, w1, w2, w3, f1, f2

MCMayRecord == [s \in {s1, s2} |-> IF s = s1 THEN {r1} ELSE {r2}]
MCSymmetry == Permutations({e1, e2}) \cup Permutations({w1, w2, w3}) \cup Permutations({f1, f2})

\* The first session is wired by a startup path and a retry; the second is there for
\* the agents it shares, and is wired once and finished once.
OneRetry ==
  /\ Cardinality({w \in Wirings : S(w) = s1}) <= 2
  /\ Cardinality({w \in Wirings : S(w) = s2}) <= 1
  /\ Cardinality({f \in Finishes : R(f) = r2}) <= 1

\* No session changes its agent while it is being wired.
HandoffsWait ==
  \A s \in Sessions :
    inCharge[s] \notin {None, inCharge'[s]} => \A w \in Wirings : ~(Wiring(w) /\ S(w) = s)

MCBothRecord == [s \in {s1} |-> {r1, r2}]
===============================================================================

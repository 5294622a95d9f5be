---------------------------- MODULE MCGeneration ----------------------------
(* Small instances of Generation for TLC.                                  *)
EXTENDS Generation, TLC

\* Answers get lost; agents are cut off in time; they are late or come back;
\* a backend that restarts.
Calm == {"dies", "redis", "database", "outage", "disabled"}
CutOff == {"confirm", "dies", "unmarked", "outage"}
Late == {"stall", "redeliver", "dies"}
Restarted == {"crash", "dies", "confirm", "redis"}

Safety == {Calm, CutOff, Late, Restarted}
Answering == {{"dies", "unmarked", "stall", "confirm"}}
OnlyRestarts == {{"crash", "dies"}}

Symmetric == Permutations(Requests) \cup Permutations(Watchdogs)
=============================================================================

---------------------------- MODULE MCTokenRelay ----------------------------
(* Small instances of TokenRelay for TLC.                                  *)
EXTENDS TokenRelay

\* With the connection to Redis, and without.
Connected == FaultKinds \ {"reconnect"}
Both == {Connected, FaultKinds}
=============================================================================

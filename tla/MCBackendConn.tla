--------------------------- MODULE MCBackendConn ---------------------------
(* Small instances of BackendConn for TLC.                                *)
EXTENDS BackendConn

CONSTANTS r1, r2, p1, p2

\* one ordinary request and one broken read-only request
MCReqs == {r1, r2}
MCBroken == {r2}
\* no broken request: the liveness runs
MCNoBroken == {}
\* two keepalive probes: enough for PING then INFO, or INFO twice
MCProbes == {p1, p2}
\* one probe: the liveness runs
MCProbe == {p1}

=============================================================================

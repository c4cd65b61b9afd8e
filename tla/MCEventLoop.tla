---------------------------- MODULE MCEventLoop ----------------------------
(***************************************************************************)
(* Instances of EventLoop for TLC.  There are more clients than            *)
(* descriptors, so descriptors are reused and run out.                     *)
(***************************************************************************)
EXTENDS EventLoop

CONSTANTS alice, bob, carol

TwoConns == {alice, bob}
ThreeConns == {alice, bob, carol}
TwoFds == {4, 5}

AtIdle == {"idle"}

\* Clients that vanish in "query" would make the liveness checks much longer; the
\* safety properties are proved for every AbruptPhases.
OutsideQueries == {"connected", "ssl", "startup", "idle"}
=============================================================================

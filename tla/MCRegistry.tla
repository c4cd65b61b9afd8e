----------------------------- MODULE MCRegistry -----------------------------
(***************************************************************************)
(* Instances of Registry for TLC: the cluster of the integration test, one *)
(* server that joins itself and one that joins it, started in any order.   *)
(***************************************************************************)
EXTENDS Registry

CONSTANTS us, eu

TwoServers == {us, eu}

\* The arguments of the integration test.
TestArgs ==
    [s \in Servers |->
        ImmutableInfo(s, s, "data", s, IF s = us THEN Empty ELSE us)]
=============================================================================

------------------------------ MODULE MCInsert ------------------------------
(***************************************************************************)
(* Instances of Insert for TLC.  Regions and partition values share the    *)
(* names of the servers: server eu lies in region eu, and the value eu is  *)
(* the one whose partition is checked to be there.                         *)
(***************************************************************************)
EXTENDS Insert

CONSTANTS us, eu

TwoServers == {us, eu}

\* The arguments of the integration test.
TestArgs ==
    [s \in Servers |->
        ImmutableInfo(s, s, "data", s, IF s = us THEN Empty ELSE us)]

\* ALTER TABLE ... CHECK (region = ...) on both partitions.
ByRegion == [v \in Values |-> {<<"region", v>>}]

\* A partition without a constraint, and a value without a partition.
Loose == [v \in Values |-> IF v = eu THEN {} ELSE None]

\* A row with value v.
A(v, kind) == [value |-> v, kind |-> kind]

ToEach == <<A(us, "plain"), A(eu, "plain")>>

SixStatements ==
    {[rows |-> << >>, place |-> ByRegion],
     [rows |-> ToEach, place |-> ByRegion],
     [rows |-> <<A(eu, "plain"), A(us, "plain")>>, place |-> Loose],
     [rows |-> <<A(us, "unsupported")>>, place |-> ByRegion],
     [rows |-> <<A(us, "short")>>, place |-> ByRegion],
     [rows |-> <<A(eu, "malformed")>>, place |-> ByRegion]}
=============================================================================

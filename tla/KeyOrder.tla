------------------------------ MODULE KeyOrder ------------------------------
(***************************************************************************)
(* The order in which RocksDB and std::map go through their keys.  Names   *)
(* are numbers, so the order of the names is the order of the numbers.     *)
(***************************************************************************)
EXTENDS Naturals, FiniteSets

\* The keys of a finite set of numbers, each once, from the lowest to the
\* highest.
InKeyOrder(keys) ==
    CHOOSE list \in [1 .. Cardinality(keys) -> keys] :
        \A i, j \in 1 .. Cardinality(keys) : i < j => list[i] < list[j]
=============================================================================

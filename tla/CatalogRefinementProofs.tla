----------------------- MODULE CatalogRefinementProofs -----------------------
(***************************************************************************)
(* What a SELECT shows, and that Catalog implements SystemRows, for every  *)
(* set of names, columns and values.                                       *)
(***************************************************************************)
EXTENDS CatalogRefinement, CatalogProofs, Integers, Functions, FiniteSetTheorems

-----------------------------------------------------------------------------
(* The keys of a finite set can be listed in order, each once: the place   *)
(* of a key is the number of keys that are not above it.                   *)

\* Whatever the names are, a scan meets each of them once and in order, and it
\* ends (the iterator of RocksDBWrapper::GetAll).
THEOREM KeysAreListed ==
    ASSUME NEW S \in SUBSET Nat, IsFiniteSet(S)
    PROVE  /\ Cardinality(S) \in Nat
           /\ InKeyOrder(S) \in [1 .. Cardinality(S) -> S]
           /\ \A i, j \in 1 .. Cardinality(S) :
                 i < j => InKeyOrder(S)[i] < InKeyOrder(S)[j]
           /\ \A x \in S : \E i \in 1 .. Cardinality(S) : InKeyOrder(S)[i] = x
<1> DEFINE n == Cardinality(S)
           UpTo(x) == {y \in S : y <= x}
           rank == [x \in S |-> Cardinality(UpTo(x))]
<1>1. n \in Nat /\ IsFiniteSet(1 .. n) /\ Cardinality(1 .. n) = n
  BY FS_CardinalityType, FS_Interval
<1>2. \A x \in S :
          /\ IsFiniteSet(UpTo(x)) /\ x \in UpTo(x)
          /\ Cardinality(UpTo(x)) \in 1 .. n
  <2> TAKE x \in S
  <2>1. IsFiniteSet(UpTo(x)) /\ Cardinality(UpTo(x)) <= n
    BY FS_Subset
  <2>2. x \in UpTo(x)
    OBVIOUS
  <2>3. Cardinality(UpTo(x)) # 0
    BY <2>1, <2>2, FS_EmptySet
  <2>4. Cardinality(UpTo(x)) \in Nat
    BY <2>1, FS_CardinalityType
  <2> QED
    BY <1>1, <2>1, <2>2, <2>3, <2>4
<1>3. \A x, y \in S : x < y => Cardinality(UpTo(x)) < Cardinality(UpTo(y))
  <2> SUFFICES ASSUME NEW x \in S, NEW y \in S, x < y
               PROVE  Cardinality(UpTo(x)) < Cardinality(UpTo(y))
    OBVIOUS
  <2>1. UpTo(x) \in SUBSET UpTo(y) /\ UpTo(x) # UpTo(y)
    <3>1. x \in Nat /\ y \in Nat /\ ~(y <= x)
      OBVIOUS
    <3>2. \A z \in S : z <= x => z <= y
      <4> TAKE z \in S
      <4>1. z \in Nat
        OBVIOUS
      <4> QED
        BY <4>1, <3>1
    <3>3. \A z \in UpTo(x) : z \in UpTo(y)
      BY <3>2
    <3>4. y \in UpTo(y) /\ y \notin UpTo(x)
      BY <3>1
    <3> HIDE DEF UpTo
    <3> QED
      BY <3>3, <3>4
  <2> HIDE DEF UpTo
  <2>2. /\ Cardinality(UpTo(x)) <= Cardinality(UpTo(y))
        /\ Cardinality(UpTo(x)) # Cardinality(UpTo(y))
    BY <1>2, <2>1, FS_Subset
  <2>3. Cardinality(UpTo(x)) \in Nat /\ Cardinality(UpTo(y)) \in Nat
    BY <1>2
  <2> QED
    BY <2>2, <2>3
<1>4. /\ rank \in [S -> 1 .. n]
      /\ \A x, y \in S : x < y => rank[x] < rank[y]
  BY <1>2, <1>3
<1> HIDE DEF n, rank, UpTo
<1>5. rank \in Injection(S, 1 .. n)
  <2>1. \A x, y \in S : rank[x] = rank[y] => x = y
    BY <1>1, <1>4
  <2> QED
    BY <1>4, <2>1 DEF Injection, IsInjective
<1>6. rank \in Surjection(S, 1 .. n)
  BY <1>1, <1>5, FS_Injection DEF n
<1>7. \A i \in 1 .. n : \E x \in S : rank[x] = i
  BY <1>6 DEF Surjection
<1> DEFINE list == [i \in 1 .. n |-> CHOOSE x \in S : rank[x] = i]
<1>8. list \in [1 .. n -> S] /\ \A i \in 1 .. n : rank[list[i]] = i
  BY <1>7
<1> HIDE DEF list
<1>9. \A i, j \in 1 .. n : i < j => list[i] < list[j]
  <2> SUFFICES ASSUME NEW i \in 1 .. n, NEW j \in 1 .. n, i < j,
                      ~(list[i] < list[j])
               PROVE  FALSE
    OBVIOUS
  <2>1. list[i] \in Nat /\ list[j] \in Nat
    BY <1>8
  <2>2. list[j] < list[i] \/ list[j] = list[i]
    BY <2>1
  <2>3. rank[list[j]] < rank[list[i]] \/ rank[list[j]] = rank[list[i]]
    BY <2>2, <1>4, <1>8
  <2>4. j < i \/ j = i
    BY <2>3, <1>8
  <2> QED
    BY <2>4, <1>1
<1> DEFINE keys == InKeyOrder(S)
<1>10. /\ keys \in [1 .. n -> S]
       /\ \A i, j \in 1 .. n : i < j => keys[i] < keys[j]
  <2>1. \E f \in [1 .. n -> S] : \A i, j \in 1 .. n : i < j => f[i] < f[j]
    BY <1>8, <1>9
  <2> QED
    BY <2>1 DEF InKeyOrder, n
<1> HIDE DEF keys
<1>11. keys \in Injection(1 .. n, S)
  <2>1. ASSUME NEW i \in 1 .. n, NEW j \in 1 .. n, keys[i] = keys[j]
        PROVE  i = j
    <3>1. keys[i] \in Nat /\ keys[j] \in Nat
      BY <1>10
    <3>2. ~(keys[i] < keys[j]) /\ ~(keys[j] < keys[i])
      BY <3>1, <2>1
    <3>3. ~(i < j) /\ ~(j < i)
      BY <3>2, <1>10
    <3> QED
      BY <3>3, <1>1
  <2> QED
    BY <1>10, <2>1 DEF Injection, IsInjective
<1>12. keys \in Surjection(1 .. n, S)
  BY <1>1, <1>11, FS_Injection DEF n
<1> QED
  BY <1>1, <1>10, <1>12 DEF n, keys, Surjection

USE NamesAssumption, NoneAssumption, ClauseAssumption, FaultAssumption,
    NoRowAssumption

-----------------------------------------------------------------------------
(* Scans.                                                                  *)

\* A table of the disk has finitely many rows, however many names there are.
FiniteRows ==
    \A s \in SystemTables : \A c \in 0 .. LastColumn(s) :
        IsFiniteSet(GetAll(s, c))

LEMMA FiniteRowsInit == Init => FiniteRows
<1> SUFFICES ASSUME Init, NEW s \in SystemTables, NEW c \in 0 .. LastColumn(s)
             PROVE  IsFiniteSet(GetAll(s, c))
  BY DEF FiniteRows
<1>1. ASSUME NEW pk \in PrimaryKeys(s) PROVE db[<<s, pk, c>>] = None
  <2>1. <<s, pk, c>> \in DbKeys
    BY DEF SystemTables, PrimaryKeys, LastColumn, DbKeys
  <2>2. QED
    BY <2>1 DEF Init
<1>2. GetAll(s, c) = {}
  BY <1>1 DEF GetAll
<1>3. QED
  BY <1>2, FS_EmptySet

\* Only the Put of a column touches the disk.
LEMMA OnlyPutsWrite ==
    ASSUME [Next]_vars
    PROVE  db' = db \/ \E pk \in left, stored \in BOOLEAN : PutColumn(pk, stored)
<1> USE DEF Answer, StartWriting
<1>1. ASSUME Statement PROVE db' = db
  BY <1>1 DEF Statement, CreateTable, CreateTableFails, DropTable,
     AddListPartition, AddListPartitionFails, AddPartitionConstraint,
     AddPartitionConstraintFails, Select, SelectFails
<1>2. CASE ServerStep
  BY <1>2 DEF ServerStep, WriteColumn, LoseColumn, FinishCreate, FinishPartition
<1>3. QED
  BY <1>1, <1>2 DEF Next, Crash, Restart, vars

LEMMA FiniteRowsStep == TypeOK /\ FiniteRows /\ [Next]_vars => FiniteRows'
<1> SUFFICES ASSUME TypeOK, FiniteRows, [Next]_vars,
                    NEW s \in SystemTables, NEW c \in 0 .. LastColumn(s)
             PROVE  IsFiniteSet(GetAll(s, c)')
  BY DEF FiniteRows, LastColumn
<1>1. IsFiniteSet(GetAll(s, c))
  BY DEF FiniteRows
<1>2. CASE db' = db
  BY <1>1, <1>2 DEF GetAll
<1>3. ASSUME NEW pk \in left, NEW stored \in BOOLEAN, PutColumn(pk, stored)
      PROVE  IsFiniteSet(GetAll(s, c)')
  <2>1. \A k \in PrimaryKeys(s) :
            k # pk => db'[<<s, k, c>>] = db[<<s, k, c>>]
    <3>1. \A t \in SystemTables : \A k \in PrimaryKeys(t) :
             \A d \in 0 .. LastColumn(t) :
                 db'[<<t, k, d>>] =
                     IF stored /\ t = Scope /\ k = pk /\ d = col
                     THEN Cell(pk) ELSE db[<<t, k, d>>]
      BY <1>3, PutCell
    <3>2. QED
      BY <3>1
  <2>2. GetAll(s, c)' \in SUBSET (GetAll(s, c) \cup {pk})
    BY <2>1 DEF GetAll, PrimaryKeys
  <2>3. IsFiniteSet(GetAll(s, c) \cup {pk})
    BY <1>1, FS_AddElement
  <2>4. QED
    BY <2>2, <2>3, FS_Subset
<1>4. QED
  BY <1>2, <1>3, OnlyPutsWrite

\* A scan of a table without half rows shows its rows, each once, in the order
\* of their keys.
LEMMA ScanShowsWholeRows ==
    ASSUME FiniteRows, NEW s \in SystemTables,
           \A c \in 0 .. LastColumn(s) : GetAll(s, c) = GetAll(s, 0)
    PROVE  LET stored == GetAll(s, 0)
               keys == InKeyOrder(stored)
           IN  /\ DOMAIN keys = 1 .. Cardinality(stored)
               /\ \A i \in DOMAIN keys : keys[i] \in stored
               /\ \A pk \in stored : \E i \in DOMAIN keys : keys[i] = pk
               /\ Scan(s) = [i \in DOMAIN keys |->
                                [c \in 0 .. LastColumn(s) |-> db[<<s, keys[i], c>>]]]
<1> DEFINE stored == GetAll(s, 0)
           keys == InKeyOrder(stored)
<1>1. stored \in SUBSET Nat /\ IsFiniteSet(stored)
  <2>1. 0 \in 0 .. LastColumn(s)
    BY DEF LastColumn
  <2>2. QED
    BY <2>1 DEF FiniteRows, GetAll, PrimaryKeys
<1>2. /\ keys \in [1 .. Cardinality(stored) -> stored]
      /\ \A pk \in stored : \E i \in 1 .. Cardinality(stored) : keys[i] = pk
  BY <1>1, KeysAreListed
<1>3. \A c \in 0 .. LastColumn(s) :
          Builder(s, c) = [i \in DOMAIN keys |-> db[<<s, keys[i], c>>]]
  BY DEF Builder
<1> HIDE DEF stored, keys
<1>4. 0 \in 0 .. LastColumn(s)
  BY DEF LastColumn
<1>5. DOMAIN Builder(s, 0) = DOMAIN keys
  BY <1>3, <1>4
<1>6. \A c \in 0 .. LastColumn(s), i \in DOMAIN keys :
          /\ i \in DOMAIN Builder(s, c)
          /\ Builder(s, c)[i] = db[<<s, keys[i], c>>]
  BY <1>3
<1>7. Scan(s) = [i \in DOMAIN keys |->
                    [c \in 0 .. LastColumn(s) |-> db[<<s, keys[i], c>>]]]
  BY <1>5, <1>6 DEF Scan
<1>8. QED
  BY <1>2, <1>7 DEF stored, keys

\* No row of s is torn and none is being written: its columns have one set of
\* keys.
LEMMA ColumnsAgree ==
    ASSUME HalfRowsInv, NEW s \in SystemTables, TornRowsOf(s) = {},
           ~(s = Scope /\ Writing /\ left # {})
    PROVE  \A c \in 0 .. LastColumn(s) : GetAll(s, c) = GetAll(s, 0)
<1>1. ASSUME NEW pk \in PrimaryKeys(s), NEW c \in 0 .. LastColumn(s)
      PROVE  (db[<<s, pk, c>>] = None) <=> (db[<<s, pk, 0>>] = None)
  <2>1. <<s, pk>> \notin torn
    BY DEF TornRowsOf
  <2>2. \A d \in 1 .. LastColumn(s) :
            (db[<<s, pk, d>>] = None) <=> (db[<<s, pk, 0>>] = None)
    BY <2>1 DEF HalfRowsInv, WholeOrTorn, Current
  <2>3. c = 0 \/ c \in 1 .. LastColumn(s)
    BY DEF LastColumn
  <2>4. QED
    BY <2>2, <2>3
<1>2. QED
  BY <1>1 DEF GetAll

-----------------------------------------------------------------------------
(* SELECT * FROM system.tables.                                            *)

\* While a statement runs or the server is down, no answer is out.
NoAnswerWhileBusy == pc # "ready" => reply.from = None

ShowInv ==
    /\ WriteThroughInv /\ HalfRowsInv /\ FiniteRows
    /\ NoAnswerWhileBusy /\ SelectShowsTables

\* Every step but SELECT answers without rows, or is taken while no answer is
\* out.
LEMMA AnswersOfSteps ==
    ASSUME [Next]_vars
    PROVE  \/ UNCHANGED vars
           \/ reply'.from = None
           \/ pc # "ready" /\ reply' = reply
           \/ \E s \in SystemTables : Select(s)
<1> USE DEF Answer, StartWriting, NoReply, Done, Error
<1> DEFINE Silent == reply'.from = None
<1>1. ASSUME Statement
      PROVE  Silent \/ \E s \in SystemTables : Select(s)
  <2>1. \A t \in UserTables, columns \in ColumnLists, c \in Clauses :
            CreateTable(t, columns, c) => Silent
    BY DEF CreateTable
  <2>2. \A t \in UserTables, known \in BOOLEAN :
            CreateTableFails(t, known) => Silent
    BY DEF CreateTableFails
  <2>3. \A t \in UserTables : DropTable(t) => Silent
    BY DEF DropTable
  <2>4. \A t \in UserTables, p \in Partitions, vals \in ValueLists :
            AddListPartition(t, p, vals) => Silent
    BY DEF AddListPartition
  <2>5. \A p \in Partitions, k \in Keys, v \in Values :
            AddPartitionConstraint(p, k, v) => Silent
    BY DEF AddPartitionConstraint
  <2>6. /\ AddListPartitionFails => Silent
        /\ SelectFails => Silent
        /\ \A p \in Partitions : AddPartitionConstraintFails(p) => Silent
    BY DEF AddListPartitionFails, AddPartitionConstraintFails, SelectFails
  <2> HIDE DEF Silent
  <2>7. QED
    BY <1>1, <2>1, <2>2, <2>3, <2>4, <2>5, <2>6 DEF Statement
<1>2. ASSUME ServerStep
      PROVE  Silent \/ (pc # "ready" /\ reply' = reply)
  <2>1. FinishCreate => Silent
    BY DEF FinishCreate, SetPartition
  <2>2. FinishPartition => Silent
    BY DEF FinishPartition
  <2>3. \A pk \in left, stored \in BOOLEAN :
            PutColumn(pk, stored) => pc # "ready" /\ reply' = reply
    BY DEF PutColumn
  <2> HIDE DEF Silent
  <2>4. QED
    BY <1>2, <2>1, <2>2, <2>3 DEF ServerStep, WriteColumn, LoseColumn
<1>3. CASE Crash \/ Restart
  BY <1>3 DEF Crash, Restart
<1>4. QED
  BY <1>1, <1>2, <1>3 DEF Next

LEMMA SelectShows ==
    ASSUME ShowInv, NEW s \in SystemTables, Select(s)
    PROVE  SelectShowsTables'
<1>1. /\ pc = "ready" /\ torn' = torn /\ tables' = tables
      /\ reply'.from = s /\ reply'.rows = Scan(s)
  BY DEF Select, Answer
<1>2. SUFFICES ASSUME s = "system.tables", TornRowsOf(s) = {},
                      NEW t \in UserTables, IsTable(t)
               PROVE  \E i \in DOMAIN Scan(s) :
                         Scan(s)[i] = [c \in 0 .. 1 |-> TableCell(t, c)]
  BY <1>1 DEF SelectShowsTables, TornRowsOf, IsTable, TableCell, TableRow
<1> DEFINE stored == GetAll(s, 0)
           keys == InKeyOrder(stored)
<1>3. /\ \A pk \in stored : \E i \in DOMAIN keys : keys[i] = pk
      /\ Scan(s) = [i \in DOMAIN keys |->
                       [c \in 0 .. LastColumn(s) |-> db[<<s, keys[i], c>>]]]
  <2>1. FiniteRows /\ \A c \in 0 .. LastColumn(s) : GetAll(s, c) = GetAll(s, 0)
    BY <1>1, <1>2, ColumnsAgree DEF ShowInv, Writing
  <2>2. QED
    BY <2>1, ScanShowsWholeRows
<1>4. \A c \in 0 .. 1 : db[<<s, t, c>>] = TableCell(t, c)
  <2>1. <<s, t>> \notin torn
    BY <1>2 DEF TornRowsOf
  <2>2. QED
    BY <1>1, <1>2, <2>1 DEF ShowInv, WriteThroughInv, WriteThrough
<1>5. t \in stored
  <2>1. TableCell(t, 0) = t /\ t # None
    BY DEF TableCell, TableRow
  <2>2. QED
    BY <1>2, <1>4, <2>1 DEF GetAll, PrimaryKeys
<1> HIDE DEF stored, keys
<1>6. PICK i \in DOMAIN keys : keys[i] = t
  BY <1>3, <1>5
<1>7. Scan(s)[i] = [c \in 0 .. 1 |-> db[<<s, t, c>>]]
  BY <1>2, <1>3, <1>6 DEF LastColumn
<1>8. i \in DOMAIN Scan(s)
  BY <1>3
<1>9. [c \in 0 .. 1 |-> db[<<s, t, c>>]] = [c \in 0 .. 1 |-> TableCell(t, c)]
  BY <1>4
<1>10. QED
  BY <1>7, <1>8, <1>9

LEMMA ShowStep == ShowInv /\ [Next]_vars => ShowInv'
<1> SUFFICES ASSUME ShowInv, [Next]_vars
             PROVE  NoAnswerWhileBusy' /\ SelectShowsTables'
  BY WriteThroughStep, HalfRowsStep, FiniteRowsStep DEF ShowInv, WriteThroughInv
<1>1. CASE UNCHANGED vars
  BY <1>1 DEF vars, ShowInv, NoAnswerWhileBusy, SelectShowsTables, TornRowsOf,
     IsTable, TableCell, TableRow
<1>2. CASE reply'.from = None
  BY <1>2 DEF NoAnswerWhileBusy, SelectShowsTables
<1>3. CASE pc # "ready" /\ reply' = reply
  BY <1>3 DEF ShowInv, NoAnswerWhileBusy, SelectShowsTables
<1>4. ASSUME NEW s \in SystemTables, Select(s)
      PROVE  NoAnswerWhileBusy' /\ SelectShowsTables'
  BY <1>4, SelectShows DEF NoAnswerWhileBusy, Select, Answer
<1>5. QED
  BY <1>1, <1>2, <1>3, <1>4, AnswersOfSteps

\* What CREATE TABLE acknowledged is what SELECT * FROM system.tables reads:
\* every table in memory is a row of the answer, with the columns it was last
\* created with (CreateTable, WriteRow and query).
THEOREM AcknowledgedTablesAreShown == Spec => []SelectShowsTables
<1>1. Init => ShowInv
  BY WriteThroughInit, HalfRowsInit, FiniteRowsInit
  DEF Init, NoReply, ShowInv, NoAnswerWhileBusy, SelectShowsTables
<1>2. ShowInv => SelectShowsTables
  BY DEF ShowInv
<1>3. QED
  BY <1>1, <1>2, ShowStep, PTL DEF Spec

-----------------------------------------------------------------------------
(* The refinement: no Put is lost and the process does not die.            *)

NoFaults == PutMayFail = FALSE /\ MayCrash = FALSE

\* Nothing is torn, and a table that is being created has no partitions yet.
Undisturbed ==
    /\ torn = {} /\ pc # "down"
    /\ pc = "create" => tables[subject].partition = None

AtomicInv ==
    /\ WriteThroughInv /\ HalfRowsInv /\ FreshInv /\ FiniteRows
    /\ Undisturbed

LEMMA UndisturbedStep ==
    ASSUME NoFaults, TypeOK, Undisturbed, [Next]_vars
    PROVE  Undisturbed'
<1> USE DEF Undisturbed, Answer, StartWriting
<1>1. ASSUME Statement PROVE Undisturbed'
  <2>1. ASSUME NEW t \in UserTables, NEW columns \in ColumnLists,
               NEW c \in Clauses, CreateTable(t, columns, c)
        PROVE  Undisturbed'
    <3>1. tables'[t].partition = None /\ subject' = t
      BY <2>1 DEF CreateTable, TypeOK
    <3>2. QED
      BY <2>1, <3>1 DEF CreateTable
  <2>2. ASSUME NEW t \in UserTables, NEW known \in BOOLEAN,
               CreateTableFails(t, known)
        PROVE  Undisturbed'
    BY <2>2 DEF CreateTableFails
  <2>3. ASSUME NEW t \in UserTables, DropTable(t) PROVE Undisturbed'
    BY <2>3 DEF DropTable
  <2>4. ASSUME NEW t \in UserTables, NEW p \in Partitions,
               NEW vals \in ValueLists, AddListPartition(t, p, vals)
        PROVE  Undisturbed'
    BY <2>4 DEF AddListPartition
  <2>5. ASSUME NEW p \in Partitions, NEW k \in Keys, NEW v \in Values,
               AddPartitionConstraint(p, k, v)
        PROVE  Undisturbed'
    BY <2>5 DEF AddPartitionConstraint
  <2>6. ASSUME \/ AddListPartitionFails \/ SelectFails
               \/ \E p \in Partitions : AddPartitionConstraintFails(p)
        PROVE  Undisturbed'
    BY <2>6 DEF AddListPartitionFails, SelectFails, AddPartitionConstraintFails
  <2>7. ASSUME NEW s \in SystemTables, Select(s) PROVE Undisturbed'
    BY <2>7 DEF Select
  <2> QED
    BY <1>1, <2>1, <2>2, <2>3, <2>4, <2>5, <2>6, <2>7 DEF Statement
<1>2. ASSUME NEW pk \in left, PutColumn(pk, TRUE) PROVE Undisturbed'
  BY <1>2 DEF PutColumn
<1>3. CASE FinishCreate \/ FinishPartition
  BY <1>3 DEF FinishCreate, FinishPartition, SetPartition
<1>4. CASE UNCHANGED vars
  BY <1>4 DEF vars
<1>5. ~LoseColumn /\ ~Crash /\ ~Restart
  BY DEF NoFaults, LoseColumn, Crash, Restart
<1>6. QED
  BY <1>1, <1>2, <1>3, <1>4, <1>5 DEF Next, ServerStep, WriteColumn

LEMMA AtomicInvStep ==
    ASSUME NoFaults, AtomicInv, [Next]_vars
    PROVE  AtomicInv'
<1>1. TypeOK
  BY DEF AtomicInv, FreshInv
<1>2. QED
  BY <1>1, WriteThroughStep, HalfRowsStep, FreshStep, FiniteRowsStep,
     UndisturbedStep DEF AtomicInv

LEMMA AtomicInvInit == Init => AtomicInv
  BY WriteThroughInit, HalfRowsInit, FreshInit, FiniteRowsInit
  DEF AtomicInv, Undisturbed, Init

-----------------------------------------------------------------------------
(* Rows as the scans see them.                                             *)

\* A row of cells is the row that was written.
LEMMA CellsMakeRows ==
    /\ \A t \in UserTables :
          TableRow(t) = [i \in 1 .. 2 |-> TableCell(t, i - 1)]
    /\ \A t \in UserTables, p \in Partitions :
          PartitionRow(t, p) = [i \in 1 .. 5 |-> PartitionCell(t, p, i - 1)]
<1>1. ASSUME NEW t \in UserTables
      PROVE  TableRow(t) = [i \in 1 .. 2 |-> TableCell(t, i - 1)]
  <2>1. \A a, b : <<a, b>> = [i \in 1 .. 2 |-> <<a, b>>[(i - 1) + 1]]
    OBVIOUS
  <2>2. QED
    BY <2>1 DEF TableRow, TableCell
<1>2. ASSUME NEW t \in UserTables, NEW p \in Partitions
      PROVE  PartitionRow(t, p) = [i \in 1 .. 5 |-> PartitionCell(t, p, i - 1)]
  <2>1. \A a, b, c, d, e : <<a, b, c, d, e>> =
            [i \in 1 .. 5 |-> <<a, b, c, d, e>>[(i - 1) + 1]]
    OBVIOUS
  <2>2. QED
    BY <2>1 DEF PartitionRow, PartitionCell
<1>3. QED
  BY <1>1, <1>2

LEMMA RowKeys ==
    \A row \in Rows : /\ row = <<row[1], row[2]>>
                      /\ row[1] \in SystemTables
                      /\ row[2] \in PrimaryKeys(row[1])
BY DEF Rows, SystemTables, PrimaryKeys

\* Before and after a statement every row is what is on disk.
LEMMA IdleRows ==
    ASSUME left = {}
    PROVE  \A s \in SystemTables : \A pk \in PrimaryKeys(s) :
               VisibleRow(s, pk) = StoredRow(s, pk)
BY DEF VisibleRow, BeingWritten

LEMMA QuietRows ==
    ASSUME left = {}, left' = {}, db' = db
    PROVE  VisibleRows' = VisibleRows
BY DEF VisibleRows, VisibleRow, BeingWritten, StoredRow

\* The row the running statement writes.
RowToWrite(s, pk) ==
    IF s = "system.tables" THEN TableRow(pk) ELSE PartitionRow(subject, pk)

\* A Put shows nothing new: until its last column is stored the row counts as
\* written, and then it is the row on disk.
LEMMA PutShowsNothing ==
    ASSUME AtomicInv, NEW pk \in left, PutColumn(pk, TRUE)
    PROVE  VisibleRows' = VisibleRows
<1>1. /\ TypeOK /\ WriteThroughInv /\ FreshInv /\ torn = {}
      /\ pc' = pc /\ tables' = tables /\ subject' = subject
      /\ Writing /\ pc \in {"create", "partition"}
  BY DEF AtomicInv, FreshInv, Undisturbed, PutColumn, Writing
<1>2. /\ Writing /\ Writing' /\ Current(pk)
      /\ Scope' = Scope /\ Scope \in SystemTables
      /\ pk \in PrimaryKeys(Scope) /\ col \in 0 .. LastColumn(Scope)
      /\ \A s \in SystemTables : \A k \in PrimaryKeys(s) :
            \A c \in 0 .. LastColumn(s) :
                db'[<<s, k, c>>] =
                    IF TRUE /\ s = Scope /\ k = pk /\ c = col
                    THEN Cell(pk) ELSE db[<<s, k, c>>]
  BY <1>1, PutCell
<1>3. SUFFICES ASSUME NEW s \in SystemTables, NEW k \in PrimaryKeys(s)
               PROVE  VisibleRow(s, k)' = VisibleRow(s, k)
  <2>1. \A row \in Rows :
            VisibleRow(row[1], row[2])' = VisibleRow(row[1], row[2])
    BY <1>3, RowKeys
  <2>2. QED
    BY <2>1 DEF VisibleRows
<1>4. RowToWrite(s, k)' = RowToWrite(s, k)
  BY <1>1 DEF RowToWrite, TableRow, PartitionRow
<1>5. CASE s # Scope \/ k # pk
  <2>1. BeingWritten(s, k)' <=> BeingWritten(s, k)
    BY <1>1, <1>2, <1>5 DEF BeingWritten, PutColumn
  <2>2. \A c \in 0 .. LastColumn(s) : db'[<<s, k, c>>] = db[<<s, k, c>>]
    BY <1>2, <1>5
  <2>3. StoredRow(s, k)' = StoredRow(s, k)
    <3>1. /\ 0 \in 0 .. LastColumn(s)
          /\ \A i \in 1 .. LastColumn(s) + 1 : i - 1 \in 0 .. LastColumn(s)
      BY DEF LastColumn
    <3>2. QED
      BY <2>2, <3>1 DEF StoredRow, LastColumn
  <2>4. QED
    BY <1>4, <2>1, <2>3 DEF VisibleRow, RowToWrite
<1>6. CASE s = Scope /\ k = pk
  <2>1. BeingWritten(s, k) /\ VisibleRow(s, k) = RowToWrite(s, k)
    BY <1>1, <1>6 DEF BeingWritten, VisibleRow, RowToWrite
  <2>2. CASE col < LastColumn(Scope)
    <3>1. BeingWritten(s, k)'
      BY <1>1, <1>2, <1>6, <2>2 DEF BeingWritten, PutColumn
    <3>2. QED
      BY <1>4, <2>1, <3>1 DEF VisibleRow, RowToWrite
  <2>3. CASE ~(col < LastColumn(Scope))
    <3>1. ~BeingWritten(s, k)'
      BY <1>2, <1>6, <2>3 DEF BeingWritten, PutColumn
    <3>2. col = LastColumn(s)
      BY <1>2, <1>6, <2>3 DEF LastColumn
    <3>3. CASE pc = "create"
      <4>1. s = "system.tables" /\ k \in UserTables /\ LastColumn(s) = 1
        BY <1>2, <1>6, <3>3 DEF Scope, PrimaryKeys, LastColumn
      <4>2. \A c \in 0 .. 1 : db'[<<s, k, c>>] = TableCell(k, c)
        <5>1. \A c \in 0 .. 1 : c < col => db[<<s, k, c>>] = TableCell(k, c)
          BY <1>1, <1>6, <3>3, <4>1 DEF WriteThroughInv, TablePrefix
        <5>2. Cell(pk) = TableCell(k, col)
          BY <1>6, <3>3 DEF Cell
        <5>3. \A c \in 0 .. LastColumn(s) :
                  db'[<<s, k, c>>] =
                      IF s = Scope /\ k = pk /\ c = col
                      THEN Cell(pk) ELSE db[<<s, k, c>>]
          BY <1>2
        <5>4. \A c \in 0 .. 1 :
                  db'[<<s, k, c>>] =
                      IF c = col THEN TableCell(k, col) ELSE db[<<s, k, c>>]
          BY <1>6, <4>1, <5>2, <5>3
        <5>5. \A c \in 0 .. 1 : c = col \/ c < col
          BY <3>2, <4>1
        <5>6. QED
          BY <5>1, <5>4, <5>5
      <4>3. db'[<<s, k, 0>>] # None
        <5>1. TableCell(k, 0) = k
          BY DEF TableCell, TableRow
        <5>2. QED
          BY <4>1, <4>2, <5>1
      <4>4. StoredRow(s, k)' = [i \in 1 .. 2 |-> TableCell(k, i - 1)]
        <5>1. \A i \in 1 .. 2 : i - 1 \in 0 .. 1
          OBVIOUS
        <5>2. StoredRow(s, k)' = [i \in 1 .. 2 |-> db'[<<s, k, i - 1>>]]
          BY <4>1, <4>3 DEF StoredRow, LastColumn
        <5>3. QED
          BY <4>2, <5>1, <5>2
      <4>5. QED
        BY <2>1, <3>1, <4>1, <4>4, CellsMakeRows DEF VisibleRow, RowToWrite
    <3>4. CASE pc = "partition"
      <4>1. /\ s = "system.partitions" /\ k \in Partitions
            /\ LastColumn(s) = 4 /\ subject \in UserTables
        BY <1>1, <1>2, <1>6, <3>4 DEF Scope, PrimaryKeys, LastColumn, TypeOK
      <4>2. \A c \in 0 .. 4 : db'[<<s, k, c>>] = PartitionCell(subject, k, c)
        <5>1. \A c \in 0 .. 4 :
                  c < col => db[<<s, k, c>>] = PartitionCell(subject, k, c)
          BY <1>1, <1>2, <1>6, <3>4, <4>1 DEF FreshInv, PartitionPrefix
        <5>2. Cell(pk) = PartitionCell(subject, k, col)
          BY <1>6, <3>4 DEF Cell
        <5>3. \A c \in 0 .. LastColumn(s) :
                  db'[<<s, k, c>>] =
                      IF s = Scope /\ k = pk /\ c = col
                      THEN Cell(pk) ELSE db[<<s, k, c>>]
          BY <1>2
        <5>4. \A c \in 0 .. 4 :
                  db'[<<s, k, c>>] =
                      IF c = col THEN PartitionCell(subject, k, col) ELSE db[<<s, k, c>>]
          BY <1>6, <4>1, <5>2, <5>3
        <5>5. \A c \in 0 .. 4 : c = col \/ c < col
          BY <3>2, <4>1
        <5>6. QED
          BY <5>1, <5>4, <5>5
      <4>3. db'[<<s, k, 0>>] # None
        <5>1. PartitionCell(subject, k, 0) = subject
          BY DEF PartitionCell, PartitionRow
        <5>2. QED
          BY <4>1, <4>2, <5>1
      <4>4. StoredRow(s, k)' = [i \in 1 .. 5 |-> PartitionCell(subject, k, i - 1)]
        <5>1. \A i \in 1 .. 5 : i - 1 \in 0 .. 4
          OBVIOUS
        <5>2. StoredRow(s, k)' = [i \in 1 .. 5 |-> db'[<<s, k, i - 1>>]]
          BY <4>1, <4>3 DEF StoredRow, LastColumn
        <5>3. QED
          BY <4>2, <5>1, <5>2
      <4>5. QED
        BY <2>1, <3>1, <4>1, <4>4, CellsMakeRows DEF VisibleRow, RowToWrite
    <3>5. QED
      BY <1>1, <3>3, <3>4
  <2>4. QED
    BY <2>2, <2>3
<1>7. QED
  BY <1>5, <1>6

-----------------------------------------------------------------------------
(* Steps of Catalog as steps of SystemRows.                                *)

LEMMA CreateIsCreate ==
    ASSUME AtomicInv, NEW t \in UserTables, NEW columns \in ColumnLists,
           NEW c \in Clauses, CreateTable(t, columns, c)
    PROVE  Promise!Create(t)
<1>1. /\ TypeOK /\ pc = "ready" /\ left = {} /\ ~IsTable(t) /\ db' = db
      /\ tables \in [UserTables -> Table \cup {None}]
      /\ pc' = "create" /\ left' = {t} /\ reply'.status = "none"
      /\ tables' = [tables EXCEPT ![t] = [columns |-> columns,
                                          partition |-> None]]
  BY DEF AtomicInv, FreshInv, TypeOK, CreateTable, StartWriting, NoReply
<1>2. /\ tables'[t] = [columns |-> columns, partition |-> None]
      /\ tables'[t] # None
  <2>1. [columns |-> columns, partition |-> None] \in Table
    BY DEF Table
  <2>2. QED
    BY <1>1, <2>1
<1>3. tables' = [tables EXCEPT ![t] = tables'[t]]
  BY <1>1, <1>2
<1>4. \A s \in SystemTables : \A k \in PrimaryKeys(s) :
          VisibleRow(s, k)' =
              IF <<s, k>> = <<"system.tables", t>> THEN TableRow(t)'
              ELSE VisibleRow(s, k)
  <2> SUFFICES ASSUME NEW s \in SystemTables, NEW k \in PrimaryKeys(s)
               PROVE  VisibleRow(s, k)' =
                          IF <<s, k>> = <<"system.tables", t>> THEN TableRow(t)'
                          ELSE VisibleRow(s, k)
    OBVIOUS
  <2>1. BeingWritten(s, k)' <=> s = "system.tables" /\ k = t
    BY <1>1 DEF BeingWritten, Scope
  <2>2. ~BeingWritten(s, k) /\ StoredRow(s, k)' = StoredRow(s, k)
    BY <1>1 DEF BeingWritten, StoredRow
  <2>3. QED
    BY <2>1, <2>2 DEF VisibleRow
<1>5. VisibleRows' = [VisibleRows EXCEPT ![<<"system.tables", t>>] = TableRow(t)']
  <2>1. \A row \in Rows :
            VisibleRow(row[1], row[2])' =
               IF row = <<"system.tables", t>> THEN TableRow(t)'
               ELSE VisibleRow(row[1], row[2])
    BY <1>4, RowKeys
  <2>2. QED
    BY <2>1 DEF VisibleRows
<1>6. TableRow(t)' = Promise!TableRow(t)'
  BY DEF TableRow, Promise!TableRow
<1>7. QED
  BY <1>1, <1>2, <1>3, <1>5, <1>6
  DEF Promise!Create, Promise!Begins, Promise!Changes, Running, IsTable

\* AddListPartition and AddPartitionConstraint.
LEMMA WriteIsRepartition ==
    ASSUME AtomicInv, pc = "ready", NEW u \in UserTables, IsPartitioned(u),
           NEW p \in Partitions, NEW part \in SinglePartition,
           tables' = WithSinglePartition(u, p, part),
           StartWriting("partition", u, PartitionsOf(u) \cup {p})
    PROVE  Promise!Repartition(u, p)
<1>1. /\ TypeOK /\ left = {} /\ db' = db
      /\ tables \in [UserTables -> Table \cup {None}]
      /\ pc' = "partition" /\ subject' = u /\ left' = PartitionsOf(u) \cup {p}
      /\ reply'.status = "none"
  BY DEF AtomicInv, FreshInv, TypeOK, StartWriting, NoReply
<1> DEFINE list == tables[u].partition
           new == [list.partitions EXCEPT ![p] = part]
<1>2. /\ tables[u] # None /\ tables[u] \in Table
      /\ list # None /\ list \in ListPartition
      /\ list.partitions \in [Partitions -> SinglePartition \cup {None}]
      /\ list.column \in PartColumns
  BY <1>1 DEF IsPartitioned, IsTable, Table, ListPartition
<1>3. new \in [Partitions -> SinglePartition \cup {None}] /\ new[p] = part
  BY <1>2
<1>4. part # None
  OBVIOUS
<1> DEFINE fresh == [column |-> list.column, partitions |-> new]
<1>5. fresh \in ListPartition
  BY <1>2, <1>3 DEF ListPartition
<1>6. tables' = [tables EXCEPT ![u] = WithPartition(@, fresh)]
  BY DEF WithSinglePartition
<1>7. tables'[u] = [columns |-> tables[u].columns, partition |-> fresh]
  BY <1>1, <1>6 DEF WithPartition
<1>8. tables'[u] # None
  <2>1. tables'[u] \in Table
    BY <1>2, <1>5, <1>7 DEF Table
  <2>2. QED
    BY <2>1
<1>9. tables' = [tables EXCEPT ![u] = tables'[u]]
  BY <1>1, <1>6, <1>7 DEF WithPartition
<1>10. \A q \in Partitions : q \in left' <=> new[q] # None
  BY <1>1, <1>2, <1>3, <1>4 DEF PartitionsOf, Holds, IsPartitioned
<1>11. /\ tables'[u].columns = tables[u].columns
       /\ tables'[u].partition.column = list.column
       /\ tables'[u].partition.partitions = new
  BY <1>7
<1> HIDE DEF new, fresh
<1>12. \A s \in SystemTables : \A k \in PrimaryKeys(s) :
           VisibleRow(s, k)' =
               IF s = "system.partitions" /\ new[k] # None
               THEN PartitionRow(u, k)' ELSE VisibleRow(s, k)
  <2> SUFFICES ASSUME NEW s \in SystemTables, NEW k \in PrimaryKeys(s)
               PROVE  VisibleRow(s, k)' =
                          IF s = "system.partitions" /\ new[k] # None
                          THEN PartitionRow(u, k)' ELSE VisibleRow(s, k)
    OBVIOUS
  <2>1. BeingWritten(s, k)' <=> s = "system.partitions" /\ new[k] # None
    BY <1>1, <1>10 DEF BeingWritten, Scope, PrimaryKeys
  <2>2. ~BeingWritten(s, k) /\ StoredRow(s, k)' = StoredRow(s, k)
    BY <1>1 DEF BeingWritten, StoredRow
  <2>3. QED
    BY <1>1, <2>1, <2>2 DEF VisibleRow
<1>13. VisibleRows' =
           [key \in DOMAIN VisibleRows |->
               IF key[1] = "system.partitions" /\ new[key[2]] # None
               THEN PartitionRow(u, key[2])' ELSE VisibleRows[key]]
  <2>1. \A row \in Rows :
            VisibleRow(row[1], row[2])' =
               IF row[1] = "system.partitions" /\ new[row[2]] # None
               THEN PartitionRow(u, row[2])' ELSE VisibleRow(row[1], row[2])
    BY <1>12, RowKeys
  <2>2. QED
    BY <2>1 DEF VisibleRows
<1>14. \A k : PartitionRow(u, k)' = Promise!PartitionRow(u, k)'
  BY DEF PartitionRow, Promise!PartitionRow
<1>15. VisibleRows' =
           [key \in DOMAIN VisibleRows |->
               IF key[1] = "system.partitions" /\ new[key[2]] # None
               THEN Promise!PartitionRow(u, key[2])' ELSE VisibleRows[key]]
  BY <1>13, <1>14
<1>16. new[p] # None /\ new = [list.partitions EXCEPT ![p] = new[p]]
  BY <1>3, <1>4 DEF new
<1>17. QED
  BY <1>1, <1>2, <1>8, <1>9, <1>11, <1>15, <1>16
  DEF Promise!Repartition, Promise!Begins, Promise!Changes, Running

LEMMA FinishIsAnswer ==
    ASSUME AtomicInv, FinishCreate \/ FinishPartition
    PROVE  Promise!Answer
<1>1. /\ TypeOK /\ Undisturbed /\ pc \in {"create", "partition"} /\ pc' = "ready"
      /\ left = {} /\ left' = {} /\ db' = db
  BY DEF AtomicInv, FreshInv, FinishCreate, FinishPartition, SetPartition, Answer,
     Idle
<1>2. VisibleRows' = VisibleRows
  BY <1>1, QuietRows
<1>3. Running # "none" /\ Running' = "none" /\ (Running = "create" <=> pc = "create")
  BY <1>1 DEF Running
<1>4. reply' \in [status : IF Running = "create" THEN {"ok", "error"} ELSE {"ok"},
                  from : {None}, rows : {<< >>}]
  <2>1. \/ reply' = Done
        \/ pc = "create" /\ reply' = Error
    BY DEF FinishCreate, FinishPartition, SetPartition, Answer
  <2>2. QED
    BY <1>3, <2>1 DEF Done, Error
<1>5. \/ UNCHANGED tables
      \/ /\ Running = "create"
         /\ \E t \in UserTables, column \in PartColumns :
               /\ tables[t] # None
               /\ tables[t].partition = None
               /\ tables' = [tables EXCEPT ![t] = Promise!Partitioned(t, column)]
  <2>1. CASE UNCHANGED tables
    BY <2>1
  <2>2. CASE ~UNCHANGED tables
    <3>1. /\ pc = "create" /\ clause \in PartColumns
          /\ tables' = [tables EXCEPT ![subject] = PartitionedBy(@, clause)]
      BY <2>2 DEF FinishCreate, FinishPartition, SetPartition
    <3>2. /\ subject \in UserTables /\ tables[subject] # None
          /\ tables[subject].partition = None
      BY <1>1, <3>1 DEF TypeOK, Undisturbed, IsTable
    <3>3. tables' = [tables EXCEPT ![subject] = Promise!Partitioned(subject, clause)]
      BY <3>1 DEF PartitionedBy, WithPartition, NoPartitions, Promise!Partitioned
    <3>4. QED
      BY <1>3, <3>1, <3>2, <3>3
  <2>3. QED
    BY <2>1, <2>2
<1>6. QED
  BY <1>2, <1>3, <1>4, <1>5 DEF Promise!Answer

LEMMA DropIsDrop ==
    ASSUME AtomicInv, NEW t \in UserTables, DropTable(t)
    PROVE  Promise!Drop(t)
<1>1. /\ left = {} /\ left' = {} /\ db' = db /\ pc = "ready" /\ pc' = "ready"
      /\ reply'.status = "ok" /\ tables' = [tables EXCEPT ![t] = None]
  BY DEF AtomicInv, FreshInv, TypeOK, DropTable, Answer, cursor, Done
<1>2. VisibleRows' = VisibleRows
  BY <1>1, QuietRows
<1>3. QED
  BY <1>1, <1>2 DEF Promise!Drop, Running

LEMMA FailureIsRefusal ==
    ASSUME AtomicInv, pc = "ready", Answer(Error),
           UNCHANGED <<tables, db, cursor, torn>>
    PROVE  Promise!Refuse
<1>1. /\ left = {} /\ left' = {} /\ db' = db /\ pc = "ready" /\ pc' = "ready"
      /\ reply'.status = "error" /\ tables' = tables
  BY DEF AtomicInv, FreshInv, TypeOK, Answer, cursor, Error
<1>2. VisibleRows' = VisibleRows
  BY <1>1, QuietRows
<1>3. QED
  BY <1>1, <1>2 DEF Promise!Refuse, Running

\* Between statements, a row is on disk with all of its columns or with none.
LEMMA WholeRows ==
    ASSUME AtomicInv, left = {}, NEW s \in SystemTables
    PROVE  /\ \A c \in 0 .. LastColumn(s) : GetAll(s, c) = GetAll(s, 0)
           /\ \A pk \in PrimaryKeys(s) :
                 StoredRow(s, pk) # None <=> pk \in GetAll(s, 0)
<1>1. \A c \in 0 .. LastColumn(s) : GetAll(s, c) = GetAll(s, 0)
  BY ColumnsAgree DEF AtomicInv, Undisturbed, TornRowsOf
<1>2. DbTypeOK
  BY DEF AtomicInv, FreshInv, TypeOK
<1>3. ASSUME NEW pk \in PrimaryKeys(s), pk \in GetAll(s, 0)
      PROVE  StoredRow(s, pk) # None
  <2>1. \A c \in 0 .. LastColumn(s) : db[<<s, pk, c>>] # None
    BY <1>1, <1>3 DEF GetAll
  <2>2. CASE s = "system.tables"
    <3>1. pk \in UserTables
      BY <2>2 DEF PrimaryKeys
    <3>2. /\ db[<<s, pk, 0>>] # None /\ db[<<s, pk, 1>>] # None
      BY <2>1, <2>2 DEF LastColumn
    <3>3. /\ db[<<s, pk, 0>>] \in UserTables /\ db[<<s, pk, 1>>] \in ColumnLists
      BY <1>2, <2>2, <3>1, <3>2 DEF DbTypeOK
    <3>4. StoredRow(s, pk) = [i \in 1 .. 2 |-> db[<<s, pk, i - 1>>]]
      BY <2>2, <3>2 DEF StoredRow, LastColumn
    <3>5. StoredRow(s, pk) = <<db[<<s, pk, 0>>], db[<<s, pk, 1>>]>>
      BY <3>4
    <3>6. StoredRow(s, pk) \in TableRows
      BY <3>3, <3>5 DEF TableRows
    <3>7. QED
      BY <3>6
  <2>3. CASE s = "system.partitions"
    <3>1. pk \in Partitions
      BY <2>3 DEF PrimaryKeys
    <3>2. /\ db[<<s, pk, 0>>] # None /\ db[<<s, pk, 1>>] # None
          /\ db[<<s, pk, 2>>] # None /\ db[<<s, pk, 3>>] # None
          /\ db[<<s, pk, 4>>] # None
      BY <2>1, <2>3 DEF LastColumn
    <3>3. /\ db[<<s, pk, 0>>] \in UserTables /\ db[<<s, pk, 1>>] \in Partitions
          /\ db[<<s, pk, 2>>] \in [Keys -> Values \cup {None}]
          /\ db[<<s, pk, 3>>] \in PartColumns /\ db[<<s, pk, 4>>] \in ValueLists
      BY <1>2, <2>3, <3>1, <3>2 DEF DbTypeOK
    <3>4. StoredRow(s, pk) = [i \in 1 .. 5 |-> db[<<s, pk, i - 1>>]]
      BY <2>3, <3>2 DEF StoredRow, LastColumn
    <3>5. StoredRow(s, pk) =
              <<db[<<s, pk, 0>>], db[<<s, pk, 1>>], db[<<s, pk, 2>>],
                db[<<s, pk, 3>>], db[<<s, pk, 4>>]>>
      BY <3>4
    <3>6. StoredRow(s, pk) \in PartitionRows
      BY <3>3, <3>5 DEF PartitionRows
    <3>7. QED
      BY <3>6
  <2>4. QED
    BY <2>2, <2>3 DEF SystemTables
<1>4. ASSUME NEW pk \in PrimaryKeys(s), pk \notin GetAll(s, 0)
      PROVE  StoredRow(s, pk) = None
  BY <1>4 DEF GetAll, StoredRow
<1>5. QED
  BY <1>1, <1>3, <1>4

LEMMA SelectIsSelect ==
    ASSUME AtomicInv, NEW s \in SystemTables, Select(s)
    PROVE  Promise!Select(s)
<1>1. /\ left = {} /\ left' = {} /\ db' = db /\ pc = "ready" /\ pc' = "ready"
      /\ reply'.from = s /\ reply'.rows = Scan(s) /\ tables' = tables
  BY DEF AtomicInv, FreshInv, TypeOK, Select, Answer, cursor
<1>2. VisibleRows' = VisibleRows
  BY <1>1, QuietRows
<1> DEFINE stored == GetAll(s, 0)
           keys == InKeyOrder(stored)
<1>3. /\ \A pk \in PrimaryKeys(s) :
            VisibleRows[<<s, pk>>] # None <=> pk \in stored
      /\ \A pk \in stored :
            VisibleRows[<<s, pk>>] =
                [i \in 1 .. LastColumn(s) + 1 |-> db[<<s, pk, i - 1>>]]
  <2>1. \A pk \in PrimaryKeys(s) : VisibleRows[<<s, pk>>] = StoredRow(s, pk)
    <3>1. \A pk \in PrimaryKeys(s) : <<s, pk>> \in Rows
      BY DEF PrimaryKeys, Rows, SystemTables
    <3>2. QED
      BY <1>1, <3>1, IdleRows DEF VisibleRows
  <2>2. \A pk \in PrimaryKeys(s) : StoredRow(s, pk) # None <=> pk \in stored
    BY <1>1, WholeRows
  <2>3. QED
    BY <2>1, <2>2 DEF GetAll, StoredRow
<1>4. {k \in Promise!PrimaryKeys(s) : VisibleRows[<<s, k>>] # None} = stored
  <2>1. Promise!PrimaryKeys(s) = PrimaryKeys(s)
    BY DEF Promise!PrimaryKeys, PrimaryKeys
  <2>2. stored \in SUBSET PrimaryKeys(s)
    BY DEF GetAll
  <2> HIDE DEF stored
  <2>3. QED
    BY <1>3, <2>1, <2>2
<1>5. Promise!InKeyOrder(stored) = keys
  <2>1. \A S : Promise!Cardinality(S) = Cardinality(S)
    BY DEF Promise!Cardinality, Cardinality
  <2>2. QED
    BY <2>1 DEF Promise!InKeyOrder, InKeyOrder
<1>6. /\ \A i \in DOMAIN keys : keys[i] \in stored
      /\ Scan(s) = [i \in DOMAIN keys |->
                       [c \in 0 .. LastColumn(s) |-> db[<<s, keys[i], c>>]]]
  <2>1. FiniteRows
    BY DEF AtomicInv
  <2>2. \A c \in 0 .. LastColumn(s) : GetAll(s, c) = GetAll(s, 0)
    BY <1>1, WholeRows
  <2>3. QED
    BY <2>1, <2>2, ScanShowsWholeRows
<1> HIDE DEF stored, keys
<1>7. ASSUME NEW i \in DOMAIN keys
      PROVE  LET row == VisibleRows[<<s, keys[i]>>]
             IN  [c \in 0 .. Len(row) - 1 |-> row[c + 1]] =
                     [c \in 0 .. LastColumn(s) |-> db[<<s, keys[i], c>>]]
  <2> DEFINE row == VisibleRows[<<s, keys[i]>>]
             last == LastColumn(s)
  <2>1. row = [j \in 1 .. last + 1 |-> db[<<s, keys[i], j - 1>>]]
    BY <1>3, <1>6
  <2>2. last \in Nat
    BY DEF LastColumn
  <2> HIDE DEF row, last
  <2>3. Len(row) = last + 1
    BY <2>1, <2>2
  <2>4. 0 .. Len(row) - 1 = 0 .. last
    BY <2>2, <2>3
  <2>5. \A c \in 0 .. last : row[c + 1] = db[<<s, keys[i], c>>]
    BY <2>1, <2>2
  <2>6. QED
    BY <2>4, <2>5 DEF row, last
<1>8. Promise!Contents(s) = Scan(s)
  <2>1. Promise!Contents(s) =
            [i \in DOMAIN keys |->
                [c \in 0 .. Len(VisibleRows[<<s, keys[i]>>]) - 1 |->
                    VisibleRows[<<s, keys[i]>>][c + 1]]]
    BY <1>4, <1>5 DEF Promise!Contents
  <2>2. QED
    BY <1>6, <1>7, <2>1
<1>9. QED
  BY <1>1, <1>2, <1>8 DEF Promise!Select, Running

LEMMA InitIsInit == Init => Promise!Init
<1> SUFFICES ASSUME Init PROVE Promise!Init
  OBVIOUS
<1>1. \A s \in SystemTables : \A k \in PrimaryKeys(s) : VisibleRow(s, k) = None
  <2>1. \A s \in SystemTables : \A k \in PrimaryKeys(s) : <<s, k, 0>> \in DbKeys
    BY DEF SystemTables, PrimaryKeys, DbKeys
  <2>2. QED
    BY <2>1 DEF Init, VisibleRow, BeingWritten, StoredRow
<1>2. \A row \in Rows : VisibleRow(row[1], row[2]) = None
  BY <1>1, RowKeys
<1>3. VisibleRows = [row \in Rows |-> None]
  BY <1>2 DEF VisibleRows
<1>4. QED
  BY <1>3 DEF Init, EmptyTables, NoReply, Rows, Running, Promise!Init

LEMMA StatementIsStatement ==
    ASSUME AtomicInv, Statement
    PROVE  Promise!Next
<1>1. TypeOK
  BY DEF AtomicInv, FreshInv
<1>2. ASSUME NEW t \in UserTables, NEW columns \in ColumnLists, NEW c \in Clauses,
             CreateTable(t, columns, c)
      PROVE  Promise!Next
  <2>1. Promise!Create(t)
    BY <1>2, CreateIsCreate
  <2>2. QED
    BY <2>1 DEF Promise!Next
<1>3. ASSUME NEW t \in UserTables, DropTable(t) PROVE Promise!Next
  <2>1. Promise!Drop(t)
    BY <1>3, DropIsDrop
  <2>2. QED
    BY <2>1 DEF Promise!Next
<1>4. ASSUME NEW t \in UserTables, NEW p \in Partitions, NEW vals \in ValueLists,
             AddListPartition(t, p, vals)
      PROVE  Promise!Next
  <2> DEFINE part == [values |-> vals, constraints |-> NoConstraints]
  <2>1. part \in SinglePartition
    BY SinglePartitionTypes
  <2> HIDE DEF part
  <2>2. PICK u \in UserTables :
            /\ IsPartitioned(u)
            /\ tables' = WithSinglePartition(u, p, part)
            /\ StartWriting("partition", u, PartitionsOf(u) \cup {p})
    BY <1>4 DEF AddListPartition, part
  <2>3. pc = "ready"
    BY <1>4 DEF AddListPartition
  <2>4. Promise!Repartition(u, p)
    BY <2>1, <2>2, <2>3, WriteIsRepartition
  <2>5. QED
    BY <2>4 DEF Promise!Next
<1>5. ASSUME NEW p \in Partitions, NEW k \in Keys, NEW v \in Values,
             AddPartitionConstraint(p, k, v)
      PROVE  Promise!Next
  <2>1. PICK u \in UserTables :
            /\ Holds(u, p)
            /\ tables' = WithSinglePartition(u, p,
                  Constrained(tables[u].partition.partitions[p], k, v))
            /\ StartWriting("partition", u, PartitionsOf(u))
    BY <1>5 DEF AddPartitionConstraint
  <2>2. IsPartitioned(u) /\ pc = "ready" /\ p \in PartitionsOf(u)
    BY <1>5, <2>1 DEF AddPartitionConstraint, Holds, PartitionsOf
  <2>3. PICK part : part = Constrained(tables[u].partition.partitions[p], k, v)
    OBVIOUS
  <2>4. part \in SinglePartition
    <3>1. tables[u].partition.partitions[p] \in SinglePartition
      BY <1>1, <2>1, HeldPartitionType
    <3>2. QED
      BY <2>3, <3>1, SinglePartitionTypes
  <2>5. PartitionsOf(u) = PartitionsOf(u) \cup {p}
    BY <2>2
  <2>6. StartWriting("partition", u, PartitionsOf(u) \cup {p})
    BY <2>1, <2>5
  <2>7. tables' = WithSinglePartition(u, p, part)
    BY <2>1, <2>3
  <2>8. Promise!Repartition(u, p)
    BY <2>2, <2>4, <2>6, <2>7, WriteIsRepartition
  <2>9. QED
    BY <2>8 DEF Promise!Next
<1>6. ASSUME NEW s \in SystemTables, Select(s) PROVE Promise!Next
  <2>1. Promise!Select(s)
    BY <1>6, SelectIsSelect
  <2>2. QED
    BY <2>1 DEF Promise!Next, SystemTables
<1>7. ASSUME \/ AddListPartitionFails
             \/ SelectFails
             \/ \E t \in UserTables, known \in BOOLEAN : CreateTableFails(t, known)
             \/ \E p \in Partitions : AddPartitionConstraintFails(p)
      PROVE  Promise!Next
  <2>1. pc = "ready" /\ Answer(Error) /\ UNCHANGED <<tables, db, cursor, torn>>
    BY <1>7 DEF AddListPartitionFails, SelectFails, CreateTableFails,
       AddPartitionConstraintFails
  <2>2. Promise!Refuse
    BY <2>1, FailureIsRefusal
  <2>3. QED
    BY <2>2 DEF Promise!Next
<1>8. QED
  BY <1>2, <1>3, <1>4, <1>5, <1>6, <1>7 DEF Statement

LEMMA StepIsStep ==
    ASSUME NoFaults, AtomicInv, [Next]_vars
    PROVE  [Promise!Next]_(Promise!vars)
<1>1. CASE Statement
  BY <1>1, StatementIsStatement
<1>2. CASE FinishCreate \/ FinishPartition
  <2>1. Promise!Answer
    BY <1>2, FinishIsAnswer
  <2>2. QED
    BY <2>1 DEF Promise!Next
<1>3. ASSUME NEW pk \in left, PutColumn(pk, TRUE)
      PROVE  UNCHANGED Promise!vars
  <2>1. VisibleRows' = VisibleRows
    BY <1>3, PutShowsNothing
  <2>2. tables' = tables /\ Running' = Running /\ reply' = reply
    BY <1>3 DEF PutColumn, Running
  <2>3. QED
    BY <2>1, <2>2 DEF Promise!vars
<1>4. CASE UNCHANGED vars
  BY <1>4 DEF vars, Promise!vars, VisibleRows, VisibleRow, BeingWritten,
     StoredRow, Running, TableRow, PartitionRow, Scope
<1>5. ~LoseColumn /\ ~Crash /\ ~Restart
  BY DEF NoFaults, AtomicInv, Undisturbed, LoseColumn, Crash, Restart
<1>6. QED
  BY <1>1, <1>2, <1>3, <1>4, <1>5 DEF Next, ServerStep, WriteColumn

\* As long as no Put is lost and the process does not die, Catalog implements
\* SystemRows: whatever the tables, partitions and rows, a statement's rows
\* appear in one step, a SELECT shows all rows of the statements before it and
\* nothing else, and a refused statement changes nothing (CreateTable,
\* WritePartition, WriteRow and query).
THEOREM StatementsLookAtomic ==
    ASSUME NoFaults
    PROVE  Spec => NothingIsHalfDone
<1>1. Init => AtomicInv /\ Promise!Init
  BY AtomicInvInit, InitIsInit
<1>2. AtomicInv /\ [Next]_vars => AtomicInv' /\ [Promise!Next]_(Promise!vars)
  BY AtomicInvStep, StepIsStep
<1>3. QED
  BY <1>1, <1>2, PTL DEF Spec, NothingIsHalfDone, Promise!Safety
=============================================================================

------------------------------ MODULE RowStore ------------------------------
(***************************************************************************)
(* How rows become keys and keys rows again: WriteRow of src/rocks makes   *)
(* one key "/<table>/<primary key>/column_<i>" per column, and query() of  *)
(* src/query scans the keys of a table by their prefix, takes each apart   *)
(* by its slashes and appends the value to the builder of its column.      *)
(*                                                                         *)
(* Catalog takes the keys for triples and the order of the rows for that   *)
(* of their names; here is what that rests on.  A Put that fails or is cut *)
(* off by a crash is modelled there and not again here.                    *)
(*                                                                         *)
(* Strings are sequences of character codes, "column_" one character.      *)
(***************************************************************************)
EXTENDS Naturals, Sequences, FiniteSets, SequencesExt

CONSTANTS
    Tables,     \* the tables: a name, the number of columns, that of the key
    RowsOf(_),  \* the rows a table may be given: the values of its columns
    Names,      \* the values of primary keys
    None,
    Garbage     \* what is read past the end of a column array

Dash == 45
Slash == 47
Zero == 48
Letter == 97
ColumnWord == 99

ASSUME NameAssumption ==
    /\ Names \subseteq Seq(Nat)
    /\ \A s \in Tables :
          s.name \in Seq(Nat) /\ \A i \in DOMAIN s.name : s.name[i] # Slash
    /\ \A s, t \in Tables : s.name = t.name => s = t

ASSUME RowAssumption ==
    \A s \in Tables :
        /\ s.columns \in 1 .. 10 /\ s.pk \in 0 .. s.columns - 1
        /\ None \notin RowsOf(s)
        /\ \A row \in RowsOf(s) :
              /\ row = [i \in 0 .. s.columns - 1 |-> row[i]]
              /\ row[s.pk] \in Names

VARIABLES
    db,        \* the default column family: values by key
    written,   \* history: the last row written by table and primary key
    reply,     \* the records of the last SELECT, or None
    server     \* "up" or "exited"

vars == <<db, written, reply, server>>

-----------------------------------------------------------------------------
(* Writing.                                                                *)

\* Mutant: the name of the table is left out.
KeyInTable(s, pk, i) ==
    <<Slash>> \o pk \o <<Slash, ColumnWord, Zero + i>>

Key(s, pk, i) ==
    <<Slash>> \o s.name \o <<Slash>> \o pk \o <<Slash, ColumnWord, Zero + i>>

\* Mutant: the key is made from the first column.
RowCellsByFirst(s, row) ==
    [key \in {Key(s, row[0], i) : i \in DOMAIN row} |->
        row[CHOOSE i \in DOMAIN row : key = Key(s, row[0], i)]]

\* The keys and values of one row.
RowCells(s, row) ==
    [key \in {Key(s, row[s.pk], i) : i \in DOMAIN row} |->
        row[CHOOSE i \in DOMAIN row : key = Key(s, row[s.pk], i)]]

-----------------------------------------------------------------------------
(* Reading.                                                                *)

\* RocksDB's order of keys: bytewise.
Before(k1, k2) ==
    \/ IsStrictPrefix(k1, k2)
    \/ \E i \in DOMAIN k1 \cap DOMAIN k2 :
          /\ k1[i] < k2[i]
          /\ SubSeq(k1, 1, i - 1) = SubSeq(k2, 1, i - 1)

\* The elements of a set in an order: before each stand those that are less.
Sorted(set, Less(_, _)) ==
    [n \in 1 .. Cardinality(set) |->
        CHOOSE x \in set : Cardinality({y \in set : Less(y, x)}) = n - 1]

\* Mutant: the iterator is advanced before its key is taken.
GetAllBehindFirst(prefix) ==
    LET keys == Sorted({key \in DOMAIN db : IsPrefix(prefix, key)}, Before)
    IN  SubSeq(keys, 2, Len(keys))

\* Seek(prefix), and Next as long as the key starts with it.
GetAll(prefix) ==
    Sorted({key \in DOMAIN db : IsPrefix(prefix, key)}, Before)

Prefix(s) == <<Slash>> \o s.name \o <<Slash>>

\* What parse_key takes for the column: the rest behind the third slash.
ColumnPart(key) ==
    LET slashes == Sorted({i \in DOMAIN key : key[i] = Slash}, <)
    IN  SubSeq(key, slashes[3] + 1, Len(key))

\* Otherwise parse_key throws.
Parses(key) ==
    LET part == ColumnPart(key)
    IN  Len(part) >= 2 /\ part[1] = ColumnWord /\ part[2] \in Zero .. Zero + 9

\* std::stoi stops at the first character that is no digit; ids have one digit.
ColumnId(key) == ColumnPart(key)[2] - Zero

\* A key that cannot be parsed throws out of the event loop; one whose column
\* the table does not have reads past the builders.
Readable(s) ==
    \A key \in ToSet(GetAll(Prefix(s))) :
        Parses(key) /\ ColumnId(key) < s.columns

\* The values of the keys with column c, in the order of the keys.
Builder(keys, c) ==
    LET own == Sorted({i \in DOMAIN keys : ColumnId(keys[i]) = c}, <)
    IN  [n \in DOMAIN own |-> db[keys[own[n]]]]

Scan(s) ==
    LET keys == GetAll(Prefix(s))
        builders == [c \in 0 .. s.columns - 1 |-> Builder(keys, c)]
    IN  [i \in DOMAIN builders[0] |->
            [c \in DOMAIN builders |->
                IF i \in DOMAIN builders[c] THEN builders[c][i] ELSE Garbage]]

-----------------------------------------------------------------------------
Init ==
    /\ db = << >>
    /\ written = [s \in Tables |-> [pk \in Names |-> None]]
    /\ reply = None
    /\ server = "up"

\* The cells put over what is stored.
Put(cells) ==
    [key \in DOMAIN cells \cup DOMAIN db |->
        IF key \in DOMAIN cells THEN cells[key] ELSE db[key]]

WriteRow(s, row) ==
    /\ server = "up"
    /\ db' = Put(RowCells(s, row))
    /\ written' = [written EXCEPT ![s][row[s.pk]] = row]
    /\ reply' = None
    /\ UNCHANGED server

Select(s) ==
    /\ server = "up"
    /\ Readable(s)
    /\ reply' = Scan(s)
    /\ UNCHANGED <<db, written, server>>

SelectDies(s) ==
    /\ server = "up"
    /\ ~Readable(s)
    /\ server' = "exited"
    /\ reply' = None
    /\ UNCHANGED <<db, written>>

\* The database is opened again as it was.
Restart ==
    /\ server = "exited"
    /\ server' = "up"
    /\ UNCHANGED <<db, written, reply>>

Next ==
    \/ \E s \in Tables : \E row \in RowsOf(s) : WriteRow(s, row)
    \/ \E s \in Tables : Select(s)
    \/ \E s \in Tables : SelectDies(s)
    \/ Restart

Spec == Init /\ [][Next]_vars

-----------------------------------------------------------------------------
(* Properties.                                                             *)

\* The types; every key stored belongs to a row written.
TypeOK ==
    /\ server \in {"up", "exited"}
    /\ \A s \in Tables : \A pk \in Names :
          written[s][pk] \in RowsOf(s) \cup {None}
    /\ DOMAIN db \subseteq
          {Key(s, pk, i) : s \in Tables, pk \in Names, i \in 0 .. 9}
    /\ reply # None => server = "up"

\* Writing a row touches no cell of another row, whatever the names: each cell
\* stored is that of the row last written under its table and primary key, and
\* no cell is stored of a row never written (the keys of WriteRow).
RowsKeepApart ==
    \A s \in Tables : \A pk \in Names :
        \A i \in 0 .. s.columns - 1 :
            IF written[s][pk] = None THEN Key(s, pk, i) \notin DOMAIN db
            ELSE /\ Key(s, pk, i) \in DOMAIN db
                 /\ db[Key(s, pk, i)] = written[s][pk][i]

Stored(s) == {pk \in Names : written[s][pk] # None}

\* No row of the table has a slash in its primary key.
Tidy(s) ==
    \A pk \in Stored(s) : \A i \in DOMAIN pk : pk[i] # Slash

\* The order of primary keys in keys: a slash follows them there.
NameBefore(pk1, pk2) == Before(pk1 \o <<Slash>>, pk2 \o <<Slash>>)

\* The rows of s, ordered by primary key.
Records(s) ==
    LET pks == Sorted(Stored(s), NameBefore)
    IN  [i \in DOMAIN pks |-> written[s][pks[i]]]

\* A SELECT shows the rows of its table, each whole and once, as long as no
\* name in it has a slash: neither a name that begins like another, nor the
\* order of the keys, nor a slash in another table mixes them up (GetAll,
\* parse_key, the builders).
ScansShowTheRows ==
    \A s \in Tables : Tidy(s) => Readable(s) /\ Scan(s) = Records(s)
=============================================================================

------------------------------- MODULE Insert -------------------------------
(***************************************************************************)
(* INSERT (src/insert/insert.cc) on a cluster whose servers come and go as *)
(* in Registry.  The SQL thread of the server a client talks to takes the  *)
(* rows one by one: it finds the partition of the row, looks up the server *)
(* that satisfies the constraints of the partition (get_servers) and calls *)
(* Insert on that server, which a gRPC thread answers.                     *)
(*                                                                         *)
(* get_servers copies the registry without its lock while gRPC threads may *)
(* append to it, so the copy is two steps and what it yields when it was   *)
(* raced is any outcome the build can produce.                             *)
(***************************************************************************)
EXTENDS Registry

CONSTANTS
    Values,        \* values of the partition column
    Statements,    \* INSERTs: their rows, and what the catalog of the server
                   \* says of the table, the constraints of the partition of
                   \* each value, or None
    None,
    Blank,         \* an entry whose strings were moved away while it was read
    MaxInserts     \* bound: INSERT statements

RowKinds == {"plain",         \* constants that can be encoded
             "unsupported",   \* a constant that is no string or integer
             "short",         \* fewer constants than columns
             "malformed"}     \* the partition value is not a string

\* The rows are those of VALUES: INSERT ... SELECT has none.
ASSUME RowAssumption ==
    \A stmt \in Statements :
        /\ DOMAIN stmt.place = Values
        /\ stmt.rows \in Seq([value : Values, kind : RowKinds])

ASSUME BlankAssumption == Blank \notin Servers

ASSUME InsertsAssumption == MaxInserts \in Nat

VARIABLES
    inserts,      \* INSERTs begun, which also numbers them
    insert,       \* the INSERT each SQL thread executes, or None
    raced,        \* servers whose registry changed while it was copied
    rowCalls,     \* Insert requests on their way to a handler
    rowReplies,   \* their answers on their way back
    handled,      \* history: the rows of each INSERT, as handlers got them
    answers       \* history: the answers to clients

sqlVars == <<inserts, insert, raced, rowCalls, rowReplies, handled, answers>>
vars == <<registryVars, sqlVars>>

-----------------------------------------------------------------------------
(* get_servers.                                                            *)

\* The fields of an entry that are compared.
Attribute(s, key) ==
    IF s = Blank THEN Blank
    ELSE [sql_address |-> Args[s].sql_addr, rpc_address |-> Args[s].grpc_addr,
          region |-> Args[s].region][key]

\* Mutant: the region is not compared.
MatchesAddresses(s, constraints) ==
    \A pair \in constraints :
        pair[1] \in {"sql_address", "rpc_address"}
            => Attribute(s, pair[1]) = pair[2]

\* A constraint is a pair <<key, value>>; a key that is not known is ignored.
Matches(s, constraints) ==
    \A pair \in constraints :
        pair[1] \in {"sql_address", "rpc_address", "region"}
            => Attribute(s, pair[1]) = pair[2]

Listed(s) == [i \in DOMAIN peers[s] |-> peers[s][i].from]

\* What the copy may hold.  A Register that ran meanwhile may have moved the
\* strings of any entry away, or may not be seen itself.
Copies(s) ==
    IF s \notin raced THEN {Listed(s)}
    ELSE UNION {{copy \in [1 .. n -> Servers \cup {Blank}] :
                    \A i \in 1 .. n : copy[i] \in {Listed(s)[i], Blank}} :
                n \in {Len(peers[s]) - 1, Len(peers[s])}}

\* Where in the copy the servers are that are found.
GetServers(copy, constraints) ==
    {i \in DOMAIN copy : Matches(copy[i], constraints)}

-----------------------------------------------------------------------------
(* The statement.                                                          *)

\* All servers have registered at s and nothing went wrong so far.
Settled(s) ==
    /\ losses = 0 /\ crashes = 0
    /\ \A t \in Servers : client[t] = "ok" /\ Peer[t] = s

InsertInit ==
    /\ Init
    /\ inserts = 0
    /\ insert = [s \in Servers |-> None]
    /\ raced = {}
    /\ rowCalls = {}
    /\ rowReplies = {}
    /\ handled = [number \in 1 .. MaxInserts |-> << >>]
    /\ answers = {}

In(s, step) == insert[s] # None /\ insert[s].step = step

Row(s) == insert[s].stmt.rows[insert[s].next]

Wanted(s) == insert[s].stmt.place[Row(s).value]

\* The client is answered and the SQL thread is free again.
Reply(s, status) ==
    /\ answers' = answers \cup
          {[number |-> insert[s].number, status |-> status,
            stmt |-> insert[s].stmt,
            next |-> insert[s].next, settled |-> insert[s].settled]}
    /\ insert' = [insert EXCEPT ![s] = None]

\* The table, its partitioning and the partition column were found.
BeginInsert(s, stmt) ==
    /\ phase[s] = "serving"
    /\ insert[s] = None
    /\ inserts < MaxInserts
    /\ stmt.rows # << >>
    /\ inserts' = inserts + 1
    /\ insert' = [insert EXCEPT ![s] =
          [step |-> "route", number |-> inserts + 1, stmt |-> stmt,
           next |-> 1, settled |-> Settled(s)]]
    /\ UNCHANGED <<raced, rowCalls, rowReplies, handled, answers>>
    /\ UNCHANGED registryVars

\* The loop over n_values_lists ends before its first row, and the INSERT is
\* answered OK without asking any server.
InsertSelect(s, stmt) ==
    /\ phase[s] = "serving"
    /\ insert[s] = None
    /\ inserts < MaxInserts
    /\ stmt.rows = << >>
    /\ inserts' = inserts + 1
    /\ answers' = answers \cup
          {[number |-> inserts + 1, status |-> "ok",
            stmt |-> stmt, next |-> 1, settled |-> Settled(s)]}
    /\ UNCHANGED <<insert, raced, rowCalls, rowReplies, handled>>
    /\ UNCHANGED registryVars

\* The table is unknown or not partitioned, or the INSERT does not name the
\* partition column: it fails before its first row.
Refuse(s) ==
    /\ phase[s] = "serving"
    /\ insert[s] = None
    /\ inserts < MaxInserts
    /\ inserts' = inserts + 1
    /\ answers' = answers \cup
          {[number |-> inserts + 1, status |-> "error",
            stmt |-> None, next |-> 0, settled |-> FALSE]}
    /\ UNCHANGED <<insert, raced, rowCalls, rowReplies, handled>>
    /\ UNCHANGED registryVars

\* listP->lookup, and the start of the copy of the registry.
Route(s) ==
    /\ In(s, "route")
    /\ Row(s).kind # "malformed"
    /\ \/ /\ Wanted(s) = None
          /\ Reply(s, "error")
       \/ /\ Wanted(s) # None
          /\ insert' = [insert EXCEPT ![s].step = "copy"]
          /\ UNCHANGED answers
    /\ UNCHANGED <<inserts, raced, rowCalls, rowReplies, handled>>
    /\ UNCHANGED registryVars

\* Exactly one server must be found for a partition.
Accepts(found) == Cardinality(found) = 1

\* The request leaves if there is such a server.
CallInsert(s, server) ==
    /\ insert' = [insert EXCEPT ![s].step = "wait"]
    /\ rowCalls' =
          IF Up(server)
          THEN rowCalls \cup
               {[from |-> s, to |-> server, number |-> insert[s].number,
                 row |-> insert[s].next, wanted |-> Wanted(s)]}
          ELSE rowCalls

\* The rest of get_servers, the encoding of the row and the call.
Send(s) ==
    /\ In(s, "copy")
    /\ \E copy \in Copies(s) :
          LET found == GetServers(copy, Wanted(s))
          IN  \/ /\ ~Accepts(found) \/ Row(s).kind = "unsupported"
                 /\ Reply(s, "error")
                 /\ UNCHANGED rowCalls
              \/ /\ Accepts(found)
                 /\ Row(s).kind = "plain"
                 /\ \E i \in found : CallInsert(s, copy[i])
                 /\ UNCHANGED answers
    /\ raced' = raced \ {s}
    /\ UNCHANGED <<inserts, rowReplies, handled>>
    /\ UNCHANGED registryVars

\* Mutant: the rows of others wait for the SQL thread.
FreeForRowsWhenIdle(t) == insert[t] = None

\* gRPC has threads of its own.
FreeForRows(t) == Up(t)

\* InsertService::Insert: it answers OK.
HandleRow(c) ==
    /\ c \in rowCalls
    /\ FreeForRows(c.to)
    /\ rowCalls' = rowCalls \ {c}
    /\ rowReplies' = rowReplies \cup {c}
    /\ handled' = [handled EXCEPT ![c.number] = Append(@, c)]
    /\ UNCHANGED <<inserts, insert, raced, answers>>
    /\ UNCHANGED registryVars

CallOf(s, c) ==
    c.from = s /\ c.number = insert[s].number /\ c.row = insert[s].next

\* Mutant: the loop over the rows runs once too often.
NextRowPastTheEnd(s) ==
    IF insert[s].next > Len(insert[s].stmt.rows) THEN Reply(s, "ok")
    ELSE /\ insert' = [insert EXCEPT ![s].step = "route", ![s].next = @ + 1]
         /\ UNCHANGED answers

\* Mutant: the last row is sent again.
NextRowRepeats(s) ==
    IF insert[s].next = Len(insert[s].stmt.rows) THEN Reply(s, "ok")
    ELSE /\ insert' = [insert EXCEPT ![s].step = "route"]
         /\ UNCHANGED answers

NextRow(s) ==
    IF insert[s].next = Len(insert[s].stmt.rows) THEN Reply(s, "ok")
    ELSE /\ insert' = [insert EXCEPT ![s].step = "route", ![s].next = @ + 1]
         /\ UNCHANGED answers

\* Mutant: a failed call does not end the loop.
NextRowAllTheSame(s) == NextRow(s)

ReplyError(s) == Reply(s, "error")

\* The next row, or the end of the statement.
RowIsIn(s) ==
    /\ In(s, "wait")
    /\ \E c \in rowReplies :
          /\ CallOf(s, c)
          /\ rowReplies' = rowReplies \ {c}
    /\ NextRow(s)
    /\ UNCHANGED <<inserts, raced, rowCalls, handled>>
    /\ UNCHANGED registryVars

RowIsLost(s) ==
    /\ ~\E c \in rowCalls : CallOf(s, c)
    /\ ~\E c \in rowReplies : CallOf(s, c)

\* The call fails; a request that has left may be handled all the same.
RowFails(s) ==
    /\ In(s, "wait")
    /\ \/ /\ RowIsLost(s)
          /\ UNCHANGED <<losses, rowCalls, rowReplies>>
       \/ /\ ~RowIsLost(s)
          /\ losses < MaxLosses
          /\ losses' = losses + 1
          /\ rowReplies' = {c \in rowReplies : ~CallOf(s, c)}
          /\ \/ UNCHANGED rowCalls
             \/ rowCalls' = {c \in rowCalls : ~CallOf(s, c)}
    /\ ReplyError(s)
    /\ UNCHANGED <<inserts, raced, handled>>
    /\ UNCHANGED <<phase, epoch, joinVars, calls, replies, peers, crashes>>

-----------------------------------------------------------------------------
(* With the registry.                                                      *)

\* A Register that finds the SQL thread in the middle of a copy races with it.
RegisterDuringLookup(c) ==
    /\ Register(c)
    /\ raced' = IF In(c.to, "copy") THEN raced \cup {c.to} ELSE raced
    /\ UNCHANGED <<inserts, insert, rowCalls, rowReplies, handled, answers>>

\* What the end of a process does to the statements and calls it takes part in.
SqlDies(s) ==
    /\ insert' = [insert EXCEPT ![s] = None]
    /\ raced' = raced \ {s}
    /\ rowCalls' = {c \in rowCalls : c.to # s}
    /\ rowReplies' = {c \in rowReplies : s \notin {c.to, c.from}}
    /\ UNCHANGED <<inserts, handled, answers>>

\* The row is dereferenced as what it is not, or read past its end.
RowKills(s) ==
    /\ \/ In(s, "route") /\ Row(s).kind = "malformed"
       \/ /\ In(s, "copy")
          /\ Row(s).kind = "short"
          /\ \E copy \in Copies(s) : Accepts(GetServers(copy, Wanted(s)))
    /\ Die(s)
    /\ SqlDies(s)

\* Reading a registry that is being moved may read freed memory.
LookupKills(s) ==
    /\ In(s, "copy")
    /\ s \in raced
    /\ Die(s)
    /\ SqlDies(s)

Killed(s) == Crash(s) /\ SqlDies(s)

-----------------------------------------------------------------------------
SqlThread(s) ==
    Route(s) \/ Send(s) \/ RowIsIn(s) \/ RowFails(s) \/ RowKills(s)

InsertNext ==
    \/ \E s \in Servers : (Start(s) \/ Join(s)) /\ UNCHANGED sqlVars
    \/ \E c \in calls : RegisterDuringLookup(c)
    \/ \E s \in Servers, stmt \in Statements :
          BeginInsert(s, stmt) \/ InsertSelect(s, stmt)
    \/ \E s \in Servers : Refuse(s) \/ SqlThread(s) \/ LookupKills(s) \/ Killed(s)
    \/ \E c \in rowCalls : HandleRow(c)

\* SQL threads and gRPC threads are scheduled.
InsertFairness ==
    /\ \A s \in Servers : WF_vars(SqlThread(s))
    /\ WF_vars(\E c \in rowCalls : HandleRow(c))

InsertSpec == InsertInit /\ [][InsertNext]_vars

FairInsertSpec == InsertSpec /\ InsertFairness

-----------------------------------------------------------------------------
(* Properties.                                                             *)

Steps == {"route", "copy", "wait"}

\* The statement of a thread is at one of its rows, only serving servers have
\* one, and a copy is raced only while it is made.
InsertTypeOK ==
    /\ inserts \in 0 .. MaxInserts
    /\ \A s \in Servers :
          insert[s] # None =>
              /\ phase[s] = "serving"
              /\ insert[s].step \in Steps
              /\ insert[s].number \in 1 .. inserts
              /\ insert[s].next \in DOMAIN insert[s].stmt.rows
    /\ raced \subseteq {s \in Servers : In(s, "copy")}
    /\ \A c \in rowCalls \cup rowReplies : c.number \in 1 .. inserts

\* A row never reaches a server outside the constraints of its partition, not
\* even when servers register while the registry is read (get_servers).
RowsReachMatchingServers ==
    \A number \in 1 .. inserts : \A i \in DOMAIN handled[number] :
        \A pair \in handled[number][i].wanted :
            pair[1] = "region" => Region[handled[number][i].to] = pair[2]

\* The rows of one INSERT are handled in their order and once each: a late
\* request or a failing call never makes a hole, a repetition or a swap.
RowsAreHandledInOrder ==
    \A number \in 1 .. inserts : \A i \in DOMAIN handled[number] :
        handled[number][i].row = i

\* An INSERT answered OK had all its rows handled; one that failed at a row
\* had all rows before it handled, and no row after it is handled, ever.
AnswersMatchRows ==
    \A a \in answers :
        LET count == Len(handled[a.number])
        IN  IF a.status = "ok" THEN count = Len(a.stmt.rows)
            ELSE count \in {a.next - 1, a.next}

Routable(a) ==
    \A i \in DOMAIN a.stmt.rows :
        /\ a.stmt.rows[i].kind = "plain"
        /\ a.stmt.place[a.stmt.rows[i].value] # None
        /\ \E only \in Servers : \A s \in Servers :
              Matches(s, a.stmt.place[a.stmt.rows[i].value]) <=> s = only

\* Once every server has joined a server and nothing has failed, an INSERT
\* there whose partitions name one server each succeeds: the last statement
\* of the integration test.
SettledInsertsSucceed ==
    losses = 0 /\ crashes = 0
        => \A a \in answers : a.settled /\ Routable(a) => a.status = "ok"

\* Every INSERT is answered unless the process dies, even if servers insert
\* into one another or into themselves at the same time.
InsertsAreAnswered ==
    \A s \in Servers : insert[s] # None ~> insert[s] = None
=============================================================================

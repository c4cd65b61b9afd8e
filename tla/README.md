# small-db: TLA+ models, checks and proofs

This directory holds the formal models of small-db (`src/src`): what they
model, what TLC checks on small instances, what TLAPS proves for every
instance, and what is left out.

## 1. The system

A small-db server is one process. Its main thread runs an epoll loop that
speaks the PostgreSQL wire protocol with clients and executes their SQL
statements one after the other; gRPC threads serve two services to the other
servers of the cluster.

| component | source | state | operations |
|---|---|---|---|
| catalog | `catalog/catalog.cc` | `tables` (name to shared table), the two system tables, a write-only `parititions` map | `CreateTable`, `DropTable`, `SetPartition`, `AddListPartition`, `AddPartitionConstraint`, `GetTable`, `WritePartition` |
| storage | `rocks/rocks.cc` | RocksDB: default column family with one key per column of a row, `TablesCF`, `PartitionCF` | `Put`, `Get`, `GetAll`, `Delete`, `WriteRow`, `WriteRowWire` |
| schema | `schema/*.cc` | none (values) | columns, list partitions, JSON, `lookup`, `get_pk_index` |
| query | `query/query.cc` | none | `SELECT *` of a table: scan, column builders, projection |
| statement handlers | `server/stmt_handler.cc` | none | dispatch of a parsed statement |
| event loop | `server/server.cc` | sockets, epoll set, `SocketsManager` (socket to protocol state), `stopSignal` | accept, `StartUp`, `NoSSLAcknowledged`, `ReadyForQuery`, stop |
| wire format | `pg_wire/pg_wire.cc` | none | message encoders, replies |
| peers | `peers/server_registry.cc` | the vector of registered servers, a mutex | `join`, `Register`, `get_servers` |
| insert | `insert/insert.cc` | none | routing of rows to the server of their partition, `InsertService` |
| startup | `server/main.cc`, `server_info/info.cc` | immutable server info singleton | argument parsing, `ImmutableInfo` (modelled), `main` (not modelled) |
| types, encoding, semantics | `type`, `encode`, `semantics`, `util/ip` | none | conversions |
| gossip, id | `gossip`, `id` | - | stubs, not called |

How they interact: a client's query goes from the event loop to a statement
handler, which calls the catalog (memory, then RocksDB), `query` (catalog and
RocksDB scan) or `insert` (catalog, peer registry, gRPC to one peer per row).
The registry is filled by the gRPC `Register` handler of the seed server, which
other servers call from `join` before they open their SQL port.

Hard behaviours: a row is several non-atomic writes and the process can die
between two of them; memory is not rebuilt from disk; the socket table outlives
connections whose descriptors are reused; some statements end the process, and
with it every connection; a receive is read once per edge-triggered
event; registrations are retried and not idempotent; a multi-row INSERT is not
atomic and the registry may change between rows; gRPC threads and the main
thread share the registry, of which one side does not take the lock.


What makes each component correct: the catalog's memory and rows agree and
scans return rows; the event loop keeps the state of a socket in step with its
client, loses no wake-up and always comes round; the registry lists each server
that was told it is listed, once; an INSERT gives each row once, in order, to a
server of its partition, and is answered.

## 2. Modules

| module | extends | models |
|---|---|---|
| `Catalog` | `KeyOrder` | catalog, its rows in RocksDB, scans of the system tables, as the statement handlers drive them |
| `KeyOrder` | standard modules | the order in which RocksDB goes through its keys |
| `EventLoop` | community modules | the epoll loop, its connection states, the clients and the socket layer between them |
| `Registry` | community modules | start-up of servers, `join` with its retries, `Register`, crash and restart |
| `Insert` | `Registry` | INSERT across servers, composed with the registry it looks servers up in |
| `SystemRows` | `KeyOrder` | the abstract specification of the system tables: rows that change and are read in one step |
| `CatalogRefinement` | `Catalog`, instance of `SystemRows` | the mapping under which `Catalog` implements `SystemRows` |
| `RowStore` | community modules | rows as keys and values of RocksDB: the key strings, the prefix scan, `parse_key`, the column builders |
| `Replies` | community modules | the replies of `pg_wire` byte by byte, and a client that cuts them into messages |
| `Session` | `Replies` | one connection byte by byte: requests that arrive in pieces, the receive buffer, and which reply answers them |
| `CatalogProofs` | `Catalog` | proofs about memory and rows: types, write-through, half rows, partition rows, constraints |
| `CatalogRefinementProofs` | `CatalogRefinement`, `CatalogProofs` | proofs that keys are listed in order, about what SELECT shows, and of the refinement |
| `RowStoreProofs` | `RowStore` | proofs about keys and scans |
| `EventLoopProofs` | `EventLoop` | proofs about the event loop |
| `RepliesProofs` | `Replies` | proofs about the encoders, the package they make and the client that cuts it into messages |
| `SessionProofs` | `Session`, `RepliesProofs` | proofs about a connection |
| `RegistryProofs`, `InsertProofs` | `Registry`, `Insert` | proofs about the registry, and about INSERTs on top of them |
| `MCCatalog`, `MCRowStore`, `MCEventLoop`, `MCSession`, `MCRegistry`, `MCInsert` | the module they are named for (`MCCatalog`: `CatalogRefinement`) | constants for TLC |

Each module also defines the mutants of its properties, each marked as a mutant
and placed before the definition it stands in for. No specification uses them.

### Catalog

`tables` and `db` are `Catalog::tables` (user tables only: the two system
tables are always there, never partitioned, never created again) and the keys
of the default column family. One thread executes statements, so a statement is
cut only where the process can die: `CreateTable`, `AddListPartition` and
`AddPartitionConstraint` change memory and start writing rows (`pc`, `subject`,
`left`, `col` are the loops of `WritePartition` and `WriteRow`), `WriteColumn`
or `LoseColumn` is one `Put`, `FinishCreate` and `FinishPartition` answer.
`Select` builds one array per column as `query()` does and takes the length of
the first. `Crash` keeps every completed Put and no memory: `Restart` reads
nothing, as the constructor does. `torn` is a history variable: rows that lost
a Put, to a failure or a crash, since their writing began.

Abstractions: names are numbers (only their order matters; `RowStore` has the
strings), column lists and value lists are model values. `Table` rows of quoted
names of system tables are not enumerated. The write-only map `parititions` and
the deletion from `TablesCF`, a family nothing is put in, have no variable. The
order of an `unordered_map` is a free choice.

`SystemRows` is what the rest of the server may rely on: a statement that
changes a table changes its rows in one step (`Create`, `Repartition`), `Select`
shows exactly the rows there are, a refused statement leaves everything alone,
and an accepted one is answered. It keeps what is odd in the code without any
fault: rows outlive DROP TABLE; CREATE TABLE with a PARTITION BY that cannot be
used is an error that creates the table, and with several columns it is answered
OK and does not partition it; rows of partitions are keyed by the partition's
name alone, so two tables overwrite each other's; a partition goes to any
partitioned table, not the one named, and replaces one of the same name; a
second constraint with the same key is dropped and answered OK. The refinement
says that these statements look atomic, not that they are what a user would
expect. `CatalogRefinement` maps a row that is still to be
written to what it will be, which nobody can tell apart because nothing reads
while a statement runs. The mapping exists only while no Put is lost.

### RowStore

`db` is the default column family as a function from key strings to values;
`WriteRow` builds the keys of a row and stores them at once (`Catalog` has the
Puts one by one). `Select` scans the prefix of a table in the order of bytes,
takes each key apart as `parse_key` does, and fills the builders; `SelectDies` is
a key that throws, or a column the table does not have. Characters are their
codes, except that `column_` is one character; a column id has one digit. This is
what lets `Catalog` take keys for triples and sort rows by name. A name with a
slash is stored like any other and may make every later SELECT of its table end
the process, before and after a restart: the scans are right for tables without
such a name, whatever the others hold.

### EventLoop

`loop`, `stop`, `batch` are the control of `RunServer`; `states` is
`socket_states`; `fdOf`, `backlog`, `ready` are descriptors, connections to
accept and pending edges. `Accept` hands out the lowest free descriptor, as the
kernel does. Each `Handle...` action is one case of the `switch` on the state of
a socket, with its `recv`, its reply and its error exit. Clients follow the
start-up, ask one query at a time and terminate; in the phases of
`AbruptPhases` they may vanish. FIN, RST and SIGPIPE follow Linux. A message is
one value and arrives whole; replies are one message each (`Session` takes both
apart). `polite` is a history: no client has vanished so far. Without it the
server may lose step with a client or exit, which is what the code does; the
properties that need it name it.

What a query says is not modelled here, so `HandleQuery` has two outcomes for
every query: an answer, or the end of the process inside `handle_query`. In the
code the second happens to whole queries of clients that keep to the protocol: one
without a statement (`stmts[0]`), a SELECT without FROM (query.cc:135), a SELECT
that meets a name with a slash (query.cc:72-98), an INSERT whose partition value
is no string (insert.cc:97), DDL whose expressions are not of the expected
shape (stmt_handler.cc:159, 171). `loop` is then `"killed"`, as opposed to
`"exited"`: a process that ends anywhere else. `OnlyQueriesEndTheServer` says that the
second never happens while clients are polite, and the liveness properties
exempt a process that was killed. The other modules have the same deaths at their own level:
`Session` in `MayKill`, `RowStore` in `SelectDies`, `Insert` in `RowKills`, and
`Catalog` and `Registry` as a `Crash`, which may come at any time.

### Replies and Session

The encoders append to one buffer, as in the code: `WithLength` is
`write_int32` over a placeholder, at its offset in the buffer. `SendReady`,
`Batch`, `EmptyResult` and `Error` are the four replies of `pg_wire`; `SendAll`
is one `send` of the buffer, which may take only a part of it (`cut`) because
accepted sockets do not block, and whose result the code ignores. The network
delivers byte by byte. The client reads a message when it is there as far as its
length word says. `meant` is a history: the messages as they were encoded. Texts
of replies are their lengths and all columns are strings: offsets depend on
nothing else.

`Session` is the other direction and the states between. What the client sends
reaches the socket in pieces of any size (`Deliver`), each of which raises an
edge; `HandleStartUp`, `HandleNoSSL`, `HandleQuery`, `HandleTerminate` and
`HandleUnknown` are the cases of the switch, each with the one `recv` it makes.
`Buffer` is the zero-filled receive buffer, `QueryLen` and `Text` what is read
from it. A length below four or beyond any memory ends the process; one somewhat
beyond the buffer runs whatever lies there (`Junk`) or ends it. Query texts are
any bytes from the tab upwards. The statements of a text are those the client
meant if it arrived as the client wrote it, and anything otherwise (`Parsed`). `Answer`
replies to the first of them and to no other; if that is DDL, an INSERT or a
SELECT, or if there is none, the process may end instead (`MayKill`), and
`server` is `"killed"`. `whole` is a history: each
`recv` so far returned everything the client had sent. `EventLoop` has many
connections and whole messages, `Session` one connection and bytes.

### Registry and Insert

A server is started with an `ImmutableInfo` (`Args`), as the integration test
starts it. `main()` is not modelled: it formats the gRPC address from itself
before it has a value (main.cc:69), so that `--grpc-port` is never used and the
address is undefined, and it passes the data directory where the address to join
is expected (main.cc:71 against info.cc:42). `Peer` is the address
`join()` calls, which may be that of no server. A server is `down`, `joining` (its
gRPC port is open, `join()` runs) or `serving`. `SendRegister`, `GetReply` and `CallFails` are a round of the loop in
`join()`; `Register` runs at the peer. A failed call may be a refused one, one
whose request was lost, one whose answer was lost, or one that is served after
the client gave up. A process may end at any time (`Crash`), also by itself after
its `join()`, when the SQL port cannot be bound or is 0. `Serve` leaves
`join()` whatever became of the calls.

`insert[s]` is the INSERT the SQL thread of `s` executes. A row is `Route`d (its
partition is looked up and the copy of the registry begins), sent by `Send`
(exactly one server must match) and closed by `RowIsIn` or `RowFails`; an INSERT
... SELECT has no row to loop over and is answered OK at once (`InsertSelect`);
`HandleRow` is the handler on the other server, or on the same one. The copy of
the registry is not locked: `RegisterDuringLookup` marks it raced, and a raced
copy yields entries that were moved away (`Blank`), misses the new entry, or
reads freed memory and ends the process (`LookupKills`). `RowKills` is a
partition value that is not a string, or a row shorter than its column list.
`handled` and `answers` are histories.

## 3. Runs

| run | instance | shows |
|---|---|---|
| `catalog` | 2 tables, 2 partition names, 2 column lists, 2 constraint values | `SelectShowsTables`, `PartitionRowFresh`, `ConstraintsAreKept`, and `StatementsAreAtomic`: it implements `SystemRows` |
| `catalog_faults` | 1 table, 2 partitions, Puts that fail, crashes | `TypeOK`, `WriteThrough`, `HalfRowsAreTorn`, `PartitionRowFresh` |
| `row_store` | the two system tables, 4 names, 2 versions of each row | `TypeOK`, `RowsKeepApart`, `ScansShowTheRows` |
| `event_loop` | 3 clients, 2 descriptors, vanishing anywhere but in a query; any query may end the process | `TypeOK`, `NoLostWakeup`, `EventsAreForOpenSockets`, `OnlyGoneClientsAreClosed`, `StopEndsTheLoop`; while polite `Agreement`, `OnlyQueriesEndTheServer`, `QueriesAreAnswered`, `GoneClientsAreClosed` |
| `registry` | 2 servers, 3 attempts, 2 lost calls, 1 killed process | `TypeOK`, `AcknowledgedJoinsAreListed`, `EntriesAreDistinctCalls`, `ListedOnceWithoutFaults`, `SelfJoinSucceeds`, `JoinsEnd` |
| `insert` | 2 servers, 2 INSERTs of none to 2 rows, 1 lost call, 1 killed process | `InsertTypeOK`, `RowsReachMatchingServers`, `RowsAreHandledInOrder`, `AnswersMatchRows`, `SettledInsertsSucceed`, `InsertsAreAnswered` |
| `session` | start-up and 2 of 5 queries; a buffer of 11 bytes; 3 results, 2 errors, 3 sizes of the send buffer | `TypeOK`, `MessagesAreFramed`, `RowsFitTheirDescription`, `ReadyEndsTheReply`, `WholeQueriesAreRun`, `OnlyPrefixesAreRun`, `RepliesEnd` |
| `named_table` | violated: `PartitionGoesToNamedTable` | a partition can be added to another table than the one named |
| `drop_keeps_row` | violated: `CacheHoldsDiskTables` | DROP TABLE leaves the row of the table |
| `torn_answer` | violated: `AnswersOnlyRows` | after a crash inside a row a SELECT returns a record that is no row |
| `descriptor_reuse` | violated: `FreshConnectionsStartUp` | a new connection inherits the state of the last one on its descriptor |
| `unjoined_serves` | violated: `ServingServersJoined` | a server started before its peer is refused five times and serves all the same, listed nowhere |

Bounds and why they suffice. Two tables and two partition names are the least
for two tables to share a partition name and for the shadowed loop variable to
pick the wrong one; with faults one table with two partitions keeps both a row
being written and a row waiting to be written. Three clients on two descriptors
make descriptors run out and be reused. They vanish in any phase but
`query`, which would make the liveness checks much longer; the safety
properties are proved for every `AbruptPhases`. Two servers register at the first one,
itself included, so two registrations interleave in one registry; with three
attempts and two losses the loop can end in a success or a failure after any
mix of lost requests and lost answers. (`max_retries` is 5; attempts differ only
in being the last one or not.) In `insert` one attempt is enough: repeated
entries come from a restart. Two INSERTs let a late row of the first meet the
second. In `row_store` the names are `a`, `a-` (which sorts before `a/`), `a/a` (a
key that throws) and `a/column_1` (a key that is taken for another column's). In
`session` the buffer just holds one query and not another; one has two
statements, one has none, and two contain `X` or `Q`, so that what is left of them in the socket
begins a message of its own. The results have one and two columns, one and two rows,
and empty names and cells; of the five run-time parameters three are encoded, in
every order; the send buffer takes the reply, a part of it, or nothing.
`MAX_EVENTS` (128) exceeds the number of descriptors of any instance.

`CHECK_DEADLOCK FALSE` stands where the system may stop: the event loop ends
after StopServer or an exit, a cluster whose bounded faults and statements
are spent is quiet, and so is a client
without a question, with a cut reply, or whose server has ended.

Fairness. `Catalog`: the thread that executes a statement goes on
(`WF(ServerStep)`); nobody must send a statement. `EventLoop`: the main thread
runs (`WF(ServerStep)`; epoll_wait has a timeout) and a client that waits for a
message reads it; nobody must connect, ask or leave. `Registry`: the starting
thread goes on, and gRPC threads serve what arrives. `Insert`: SQL threads go
on, and handlers are served. `Session`: the main thread runs, bytes arrive in both
directions, the client reads what is there; it need not ask. `RepliesEnd` excepts
the reply that `send` cut, the request that arrived in pieces and the query that
ends the process: their clients may wait for ever. `SystemRows` asks for `WF(Answer)`, which `Catalog` keeps by its
own fairness. The calls of the code have no deadline, so
`JoinsEnd` and `InsertsAreAnswered` say nothing of a peer that accepts a
connection and never answers.

## 4. Proofs

The theorems hold for every value of the constants that the named assumptions
of the modules admit: any sets of names, columns, values, servers, clients,
descriptors and statements, any bounds, with all faults on or off. The
assumptions say that names are numbers or strings of numbers, that `None` is
none of the values it is told from, that bounds are numbers, and what a
component gets from others (a row has the columns of its table, a row of a result
has a cell for each column). `Session` needs two
more: the receive buffer holds at least a type and a length word
(`BufferAssumption`; in the code it is 2048 bytes), and no parameter of a start-up message
looks like the beginning of a query (`StartUpAssumption`: `Q` and two zero bytes,
a last value that ends in `Q`), since what the server has not read of a start-up message it takes for
the next one. TLC evaluates all of them in every run.

Every safety theorem has the same form: an inductive invariant that contains the
property, one lemma for each action that it is kept, and temporal logic at the
end.

| theorem | says | inductive invariant |
|---|---|---|
| `TypeCorrect` | `[]TypeOK` of `Catalog` | itself |
| `WriteThroughHolds` | `[]WriteThrough` | `WriteThroughInv` |
| `NoHalfRows` | `[]HalfRowsAreTorn` | `HalfRowsInv` |
| `PartitionRowsAreFresh` | `[]PartitionRowFresh` | `FreshInv` |
| `ConstraintsStay` | `ConstraintsAreKept`, an action property | `TypeOK` |
| `KeysAreListed` | `InKeyOrder` lists each key of a finite set once | - |
| `AcknowledgedTablesAreShown` | `[]SelectShowsTables` | `ShowInv` |
| `StatementsLookAtomic` | without faults `Catalog` implements the safety of `SystemRows` | `AtomicInv` |
| `RowStoreTypes`, `RowsNeverCollide`, `SelectsShowTheRows` | `[]TypeOK`, `[]RowsKeepApart`, `[]ScansShowTheRows` of `RowStore` | `KeysInv` |
| `LoopTypes`, `ServerKeepsInStep`, `OnlyQueriesKill`, `EveryMessageHasItsEvent`, `EventsStayOnOpenSockets` | `[]TypeOK`, `[]Agreement`, `[]OnlyQueriesEndTheServer`, `[]NoLostWakeup`, `[]EventsAreForOpenSockets` of `EventLoop` | `LoopInv` |
| `ServerClosesTheGone` | `OnlyGoneClientsAreClosed`, an action property | `LoopInv` |
| `RegistryTypes`, `EntriesStayDistinct`, `AcknowledgedServersAreListed`, `ServersJoinThemselves`, `RetriesListOnce` | `[]TypeOK` and the four invariants of `Registry` | `RegistryInv` |
| `InsertTypes`, `RowsReachTheirRegion`, `RowsKeepTheirOrder`, `AnswersTellTheRows` | `[]InsertTypeOK` and three invariants of `Insert` | `HistoryInv` |
| `InsertsLeaveTheRegistry` | INSERTs keep `RegistryInv` | itself |
| `SettledClustersInsert` | `[]SettledInsertsSucceed` | `RegistryInv`, `HistoryInv`, `SettledInv` |
| `EncodersAppend` | every encoder appends a letter, a length and that many bytes, whatever is in the buffer | - |
| `PackageJoins` | a package is its messages, encoded one by one and joined | - |
| `MessagesFramed`, `RowsFit` | `[]MessagesAreFramed`, `[]RowsFitTheirDescription` of `Replies`, under `Session` | `SessionInv` |
| `SessionTypes`, `RepliesAreReadToTheirEnd`, `WholeQueriesRun`, `PrefixesRun` | `[]TypeOK`, `[]ReadyEndsTheReply`, `[]WholeQueriesAreRun`, `[]OnlyPrefixesAreRun` of `Session` | `SessionInv` |

Why the invariants are stronger than the properties:

- `Catalog`. `TypeOK` says more than types: a write in progress has a subject in
  memory and its cursor inside a row of it. Each property of finished rows needs a
  statement about the row being written, or its last Put would prove nothing of
  the columns before: `TablePrefix` and `PartitionPrefix` (the columns before the
  cursor are those of the row in memory unless a Put was lost) and
  `WrittenPrefix` (they are there). `PartitionRowFresh` needs that a statement
  changes only partitions it goes on to write (`FreshQuiet`). `WholeOrTorn`
  narrows "being written" down to the one row the cursor is in.
- What SELECT shows. `KeysAreListed` is proved by counting: the place of a key
  is the number of keys not above it. `FiniteRows` says that a table on disk has
  finitely many rows however many names there are. With `HalfRowsInv` all
  columns of a table without torn rows have the same keys, so the builders of
  `query()` line up (`ColumnsAgree`, `ScanShowsWholeRows`).
- The refinement (`NoFaults`: Puts do not fail, the process does not die). A Put
  changes no visible row (`PutShowsNothing`): until its last column is stored
  the row counts as written, and then the prefix invariants make it the row on
  disk. Each statement is a step of `SystemRows` by a lemma of its own
  (`CreateIsCreate`, `WriteIsRepartition`, `FinishIsAnswer`, `SelectIsSelect`...).
- `RowStore`. A key is taken apart from its ends: the slash behind the table
  name is the first one, because table names have none, and the column id is the
  last character (`KeysAreDistinct`). Names of rows may be any strings there; for
  a scan they have no slash, so that the third slash is the one before the
  column (`ColumnOfKey`). RocksDB's order of strings is total (`KeysAreOrdered`)
  and a finite set has exactly one list in an order (`RanksList`,
  `ListsAreRanks`); the keys of one column come in the order of the names with a
  slash behind them (`NamesOrderKeys`), the same for each column, so the builders
  line up (`BuilderOfColumn`). `KeysInv` adds to `RowsKeepApart` that finitely many
  keys are stored and that each is one of a row.
- `EventLoop`. The heart of `LoopInv` is `Boxes`: client and server take turns, so
  at most one message is on its way between them, and its kind follows from the
  phase of the client. With `Events` (one message, one event) this excludes lost
  and repeated wake-ups. `NoStaleStates` says that while clients are polite a
  closed descriptor keeps no state; without it `Agreement` would break when the
  descriptor is reused. `Acknowledgements` holds for impolite clients too.
- `Registry`. Requests were made by their senders to processes that still run, and
  answers are backed by an entry (`RequestsAreMade`, `AnswersAreBacked`); as
  long as nothing failed, all there is of a server is its last call
  (`LastCallOnly`), which is what makes retries harmless then.
- `Insert`. `OneRowAtATime` and `RunningMatchesRows` tie the request on its way to
  the number of rows handled; after the answer only the row the INSERT failed
  at may still be handled (`AnsweredMatchesRows`). `SettledInv` says that nothing
  that can fail is in the way of an INSERT in a settled cluster: its copy of the
  registry is not raced, because all servers have joined.

- `Replies`. An encoder writes a placeholder, the body, and then the length at
  the offset of the placeholder in the shared buffer. `Appends` says that what
  comes out is the buffer as it was, and behind it a message that does not
  depend on the buffer (`EncodersAppend`). `Package` is a recursive function and
  `FlattenSeq` a fold of the library: both are shown to be the one function that
  joins the messages, which exists (`JoinExists`) and is unique because two such functions
  would differ at a least number (`LeastNumber`). A `MessageAt` a place is then
  found again by the length in front of it, so the client that has read n
  messages and holds the next one whole reads message n + 1.
- `Session`. `Stream` says that what the client has read, what it holds and what
  is on its way make a beginning of the reply, all of it unless `send` cut it; the
  framing properties follow. `SessionInv` has one part for each phase of a
  connection: `Connected`, `Asking`, `Refused`, `Starting` and `Ready`. In `Ready`
  the hard part is `Coming`: in the socket and on the network there may be bytes
  of a message that is already answered (`stale`: it came in pieces or was longer than
  the buffer), then the last message of the client. Stale bytes are `Clean`: no `Q`
  in them has three zeros behind it, so whatever a `recv` cuts out of them
  is no query the server would answer, and it ends the process or the connection
  (`StaleKills`). Hence each message gets at most one reply, which is what
  `ReadyEndsTheReply` needs. Without stale bytes the buffer holds the message
  itself (`Filled`), from which `WholeQueriesAreRun` and `OnlyPrefixesAreRun`
  follow by the place of the zero behind the text. `WholeQueriesAreRun` does not
  promise that a query is survived: it says that the process ends inside
  `handle_query` or not at all, and that what ended it is what was asked.

Every safety property and action property of the passing runs is proved. Only
model-checked is liveness: it needs fairness and ENABLED, which the provers
cannot handle. So of `StatementsAreAtomic` the part that statements are answered
stays with TLC, as do `QueriesAreAnswered`, `GoneClientsAreClosed`,
`StopEndsTheLoop`, `JoinsEnd`, `InsertsAreAnswered` and `RepliesEnd`.

## 5. Not modelled

- JSON and datum encodings, type names and OIDs: conversions without state. What
  is stored is never converted back, `encode` is the identity on the strings that
  reach the store, and each table has one entry per type; a model of them would
  restate them.
- `main()`: what it passes on is undefined (main.cc:69) or misplaced (main.cc:71).
  The models start from the arguments of `RunServer`.
- Which queries end the process inside `handle_query`, beyond what `RowStore` and
  `Insert` say of keys and rows: `EventLoop` and `Session` leave it open.
- The parser of addresses and the option parser, beyond what their results do:
  an address is that of a server or of none, and one that cannot be used ends
  the process.
- Arrow and Gandiva: `SELECT *` projects every column onto itself.
- gRPC, epoll, TCP and RocksDB are modelled by how the code uses them. The column
  families `TablesCF` and `PartitionCF` hold nothing; `Get`, `GetAllKV`,
  `PrintAllKV`, `WriteRowWire` and `start_server` are not called.
- `gossip` and `id`: stubs, not called. What a row stores on the other server is
  nothing: `InsertService::Insert` has its body commented out.

## 6. Plan

Built: the modules of section 2, the runs of section 3 and the theorems of
section 4. Of what the plan named, only liveness has no proof; it stays with TLC.
When `InsertService::Insert` gets a body, `HandleRow` is where it belongs; when
the catalog is rebuilt from disk at a start, `Restart` is, and `torn_answer` should
then be checked again.

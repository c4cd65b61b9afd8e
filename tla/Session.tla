------------------------------ MODULE Session ------------------------------
(***************************************************************************)
(* One connection byte by byte: what a client sends arrives in pieces, and *)
(* the event loop (src/server/server.cc) takes whatever one recv returns   *)
(* for one message.  The answers are those of Replies.                     *)
(*                                                                         *)
(* EventLoop models many connections and whole messages; here it is the    *)
(* other way round.  The start-up message's parameters are read and        *)
(* dropped by the code, so nothing is kept of them.                        *)
(***************************************************************************)
EXTENDS Replies

CONSTANTS
    MaxMessageLen,   \* MAX_MESSAGE_LEN, the size of the receive buffer
    StartUpText,     \* the parameters of the client's start-up message
    Queries,         \* what clients ask: a text and the statements in it
    Junk,            \* a text read past the end of the receive buffer
    None,
    MaxAsks          \* bound: queries the client sends

StatementKinds == {"ddl", "insert", "transaction", "select", "other", "invalid"}

\* SQL holds no control characters below the tab.
TextBytes == 9 .. 255

\* A query may hold no statement, several, or one the parser refuses.
ASSUME QueryAssumption ==
    /\ None \notin Queries
    /\ MaxAsks \in Nat
    /\ \A query \in Queries :
          /\ query.text \in Seq(TextBytes) /\ query.text # << >>
          /\ query.statements \in Seq(StatementKinds)

\* Nothing in a start-up message looks like the beginning of a query: its last
\* value does not end in Q, nor does the name of a parameter without a value.
ASSUME StartUpAssumption ==
    /\ StartUpText \in Seq(0 .. 255)
    /\ \A i \in 1 .. Len(StartUpText) - 2 :
          SubSeq(StartUpText, i, i + 2) # <<Code.Q, 0, 0>>

VARIABLES
    phase,    \* where the client is in the protocol
    asks,     \* queries sent
    query,    \* the query asked last, or None
    net,      \* bytes of the client on their way
    sock,     \* bytes in the receive buffer of the socket
    edge,     \* epoll has an event for the socket
    state,    \* the SocketState of the connection
    server,   \* "open", "closed" (the connection); or the process has ended,
              \* "killed" inside handle_query or "exited" elsewhere
    heard,    \* the text handle_query was called with since the client asked
    whole     \* history: each recv so far returned all the client had sent

clientVars == <<phase, asks, query>>
serverVars == <<sock, edge, state, server, heard, whole>>
vars == <<clientVars, net, serverVars, replyVars>>

-----------------------------------------------------------------------------
(* Messages to the server.  Lengths are below 256 and in network order.    *)

Word(n) == <<0, 0, 0, n>>

SSLRequest == Word(8) \o <<4, 210, 22, 47>>

StartUpMessage == Word(8 + Len(StartUpText)) \o <<0, 3, 0, 0>> \o StartUpText

Query(text) == <<Code.Q>> \o Word(4 + Len(text) + 1) \o text \o <<0>>

TerminateMessage == <<Code.X>> \o Word(4)

-----------------------------------------------------------------------------
Init ==
    /\ phase = "connected"
    /\ asks = 0
    /\ query = None
    /\ net = << >>
    /\ sock = << >>
    /\ edge = FALSE
    /\ state = "StartUp"
    /\ server = "open"
    /\ heard = None
    /\ whole = TRUE
    /\ ReplyInit

-----------------------------------------------------------------------------
(* The client.                                                             *)

Sends(message, next) ==
    /\ net' = net \o message
    /\ phase' = next

RequestSSL ==
    /\ phase = "connected"
    /\ Sends(SSLRequest, "ssl")
    /\ UNCHANGED <<asks, query, serverVars, replyVars>>

StartUp ==
    /\ phase = "ssl"
    /\ ReadNoSSL
    /\ Sends(StartUpMessage, "startup")
    /\ UNCHANGED <<asks, query, serverVars>>

\* A message of the reply; ReadyForQuery ends it.
ReadReply ==
    /\ phase \in {"startup", "query"}
    /\ ReadMessage
    /\ phase' = IF inbox[1] = Code.Z THEN "idle" ELSE phase
    /\ UNCHANGED <<asks, query, net, serverVars>>

Ask(q) ==
    /\ phase = "idle"
    /\ asks < MaxAsks
    /\ asks' = asks + 1
    /\ query' = q
    /\ heard' = None
    /\ Sends(Query(q.text), "query")
    /\ ForgetReply
    /\ UNCHANGED <<sock, edge, state, server, whole>>

Terminate ==
    /\ phase = "idle"
    /\ Sends(TerminateMessage, "closing")
    /\ UNCHANGED <<asks, query, serverVars, replyVars>>

\* TCP delivers what was sent in pieces of any size; each raises an edge.
Deliver ==
    /\ server = "open"
    /\ \E n \in 1 .. Len(net) :
          /\ sock' = sock \o SubSeq(net, 1, n)
          /\ net' = SubSeq(net, n + 1, Len(net))
    /\ edge' = TRUE
    /\ UNCHANGED <<clientVars, state, server, heard, whole, replyVars>>

-----------------------------------------------------------------------------
(* The server.                                                             *)

\* An event for the socket in state `current' is handled.
Handles(current) ==
    /\ server = "open"
    /\ edge
    /\ state = current
    /\ edge' = FALSE

Dies ==
    /\ server' = "exited"
    /\ UNCHANGED <<state, heard, replyVars>>

\* handle_ssl_request: two reads of four bytes; a short one or another value
\* throws.
HandleStartUp ==
    /\ Handles("StartUp")
    /\ sock' = SubSeq(sock, 9, Len(sock))
    /\ whole' = (whole /\ net = << >>)
    /\ \/ /\ Take(sock, 8) = SSLRequest
          /\ SendNoSSL
          /\ state' = "NoSSLAcknowledged"
          /\ UNCHANGED <<server, heard>>
       \/ /\ Take(sock, 8) # SSLRequest
          /\ Dies
    /\ UNCHANGED <<clientVars, net>>

Received == Take(sock, MaxMessageLen)

\* recv of at most MAX_MESSAGE_LEN bytes.
Receives ==
    /\ sock' = SubSeq(sock, MaxMessageLen + 1, Len(sock))
    /\ whole' = (whole /\ net = << >> /\ Len(sock) <= MaxMessageLen)
    /\ UNCHANGED <<clientVars, net>>

\* Any bytes are taken for a start-up message; without the four of its length
\* pq_getmessage uses what happens to be in the buffer, and may throw.
HandleNoSSL ==
    /\ Handles("NoSSLAcknowledged")
    /\ Receives
    /\ \/ /\ SendReady
          /\ state' = "ReadyForQuery"
          /\ UNCHANGED <<server, heard>>
       \/ /\ Len(Received) < 4
          /\ Dies

\* Mutant: the receive buffer is not initialised.
Unfilled ==
    Received \o [i \in 1 .. MaxMessageLen - Len(Received) |-> 65]

\* std::vector<char> buffer(MAX_MESSAGE_LEN) is filled with zeros.
Buffer == Received \o [i \in 1 .. MaxMessageLen - Len(Received) |-> 0]

\* read_int32_chars of the length of a query; one that begins with a text byte
\* is negative or beyond any memory.
Huge == 65536

\* The buffer holds at least a type and a length, and Huge does not fit into it.
ASSUME BufferAssumption == MaxMessageLen \in 5 .. Huge

QueryLen ==
    IF SubSeq(Buffer, 2, 4) = <<0, 0, 0>> THEN Buffer[5] ELSE Huge

\* Mutant: the terminator is taken off twice.
TextShort == SubSeq(Buffer, 6, QueryLen - 1)

\* The bytes of the query, which the parser reads up to the first zero.
Text == SubSeq(Buffer, 6, QueryLen + 1)

UpToZero(text) ==
    LET end == CHOOSE n \in 0 .. Len(text) :
                 /\ \A i \in 1 .. n : text[i] # 0
                 /\ n < Len(text) => text[n + 1] = 0
    IN  SubSeq(text, 1, end)

\* What handle_stmt and the reply to its result may come to: DDL, INSERT and
\* BEGIN have empty results.
RepliesTo(statement) ==
    (IF statement = "transaction" THEN {} ELSE {Error(text) : text \in ErrorTexts})
    \cup (IF statement \in {"other", "invalid"} THEN {} ELSE {EmptyResult})
    \cup (IF statement = "select" THEN {Batch(batch) : batch \in Batches} ELSE {})

\* Mutant: the loop over the statements goes on after a reply.
AnswerEach(statements) ==
    \E first \in RepliesTo(statements[1]),
       last \in RepliesTo(statements[Len(statements)]) :
        SendAll(IF Len(statements) = 1 THEN first ELSE first \o last)

\* handle_query returns after the reply to the first statement.
Answer(statements) ==
    \E reply \in RepliesTo(statements[1]) : SendAll(reply)

\* What ends the process inside handle_query: stmts[0] of a query without a
\* statement; DDL, an INSERT or a SELECT whose parts are not what the handler
\* dereferences, depending on the rest of the statement and on the tables.
MayKill(statements) ==
    statements # << >> => statements[1] \in {"ddl", "insert", "select"}

\* The parser sees the query of the client, or something else of which nothing
\* is known.
Parsed(text) ==
    IF text = query.text THEN {query.statements}
    ELSE {<< >>} \cup {<<statement>> : statement \in StatementKinds}

\* Mutant: the state of the socket is removed after a query.
RunRemovesState(text) ==
    /\ heard' = text
    /\ state' = "StartUp"
    /\ query.statements # << >>
    /\ Answer(query.statements)
    /\ UNCHANGED server

Run(text) ==
    /\ heard' = text
    /\ UNCHANGED state
    /\ \E statements \in Parsed(text) :
          \/ /\ statements # << >>
             /\ Answer(statements)
             /\ UNCHANGED server
          \/ /\ MayKill(statements)
             /\ server' = "killed"
             /\ UNCHANGED replyVars

\* A length below four is a string of negative size; one beyond the buffer is
\* read past its end, which may not be memory either.
HandleQuery ==
    /\ Handles("ReadyForQuery")
    /\ Received[1] = Code.Q
    /\ Receives
    /\ \/ /\ QueryLen \notin 4 .. MaxMessageLen - 1
          /\ Dies
       \/ /\ QueryLen \in MaxMessageLen .. Huge - 1
          /\ Run(Junk)
       \/ /\ QueryLen \in 4 .. MaxMessageLen - 1
          /\ Run(UpToZero(Text))

HandleTerminate ==
    /\ Handles("ReadyForQuery")
    /\ Received[1] = Code.X
    /\ Receives
    /\ server' = "closed"
    /\ UNCHANGED <<state, heard, replyVars>>

HandleUnknown ==
    /\ Handles("ReadyForQuery")
    /\ Received[1] \notin {Code.Q, Code.X}
    /\ Receives
    /\ Dies

-----------------------------------------------------------------------------
ServerStep ==
    HandleStartUp \/ HandleNoSSL \/ HandleQuery \/ HandleTerminate \/ HandleUnknown

ReplyArrives == Arrive /\ UNCHANGED <<clientVars, net, serverVars>>

ClientReads == StartUp \/ ReadReply

Next ==
    \/ ServerStep
    \/ ReplyArrives
    \/ ClientReads
    \/ Deliver
    \/ RequestSSL
    \/ \E q \in Queries : Ask(q)
    \/ Terminate

Spec == Init /\ [][Next]_vars

\* The main thread runs, the network delivers, and the client reads; it need
\* not ask anything.
FairSpec ==
    /\ Spec
    /\ WF_vars(ServerStep) /\ WF_vars(ReplyArrives)
    /\ WF_vars(ClientReads) /\ WF_vars(Deliver)

-----------------------------------------------------------------------------
(* Properties.                                                             *)

\* The types, and what goes with what: an event means bytes to read, a text is
\* heard in answer to a query only, and the client is behind or level with the
\* server in the protocol.
TypeOK ==
    /\ phase \in {"connected", "ssl", "startup", "idle", "query", "closing"}
    /\ asks \in 0 .. MaxAsks
    /\ query \in Queries \cup {None}
    /\ state \in {"StartUp", "NoSSLAcknowledged", "ReadyForQuery"}
    /\ server \in {"open", "closed", "exited", "killed"}
    /\ edge \in BOOLEAN /\ whole \in BOOLEAN /\ cut \in BOOLEAN
    /\ server = "open" /\ edge => sock # << >>
    /\ heard # None => query # None
    /\ phase = "connected" => state = "StartUp"
    /\ phase \in {"idle", "query"} => state = "ReadyForQuery"

\* When the client may ask again it has read the whole reply: nothing is left
\* over that it would take for the answer to its next query, although queries
\* may hold several statements and arrive in pieces.
ReadyEndsTheReply ==
    phase = "idle" => seen = meant /\ wire = << >> /\ inbox = << >>

\* As long as what the client sent at once also arrived at once and fitted the
\* buffer, to the last byte of it, the server understood every message: it runs
\* exactly the queries asked, and the process ends only inside handle_query, on
\* a statement that was asked (recv, read_int32_chars).
WholeQueriesAreRun ==
    whole => /\ heard \in {None, IF query = None THEN None ELSE query.text}
             /\ server # "exited"
             /\ server = "closed" => phase = "closing"
             /\ server = "killed" =>
                   heard = query.text /\ MayKill(query.statements)

\* However a query is cut into pieces, the server never runs a text the client
\* did not ask for, except a part of it from its beginning, or what lies behind
\* a query that is longer than the buffer.
OnlyPrefixesAreRun ==
    heard # None =>
        \/ IsPrefix(heard, query.text)
        \/ heard = Junk /\ Len(Query(query.text)) > MaxMessageLen

\* A client that waits is answered to the end, unless send() cut the answer, its
\* message did not arrive whole or its query ended the process.
RepliesEnd ==
    phase \in {"ssl", "startup", "query"}
        ~> phase = "idle" \/ cut \/ ~whole \/ server = "killed"
=============================================================================

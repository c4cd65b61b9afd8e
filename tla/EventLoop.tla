------------------------------ MODULE EventLoop ------------------------------
(***************************************************************************)
(* The epoll loop of RunServer (src/server/server.cc), its SocketsManager, *)
(* and the clients on the other end of the sockets.                        *)
(*                                                                         *)
(* A client speaks the PostgreSQL start-up in order: SSLRequest, start-up  *)
(* message, then one query at a time and Terminate.  In the phases of      *)
(* AbruptPhases it may also vanish, its kernel closing the connection.     *)
(* The socket layer (descriptors, edge-triggered readiness, FIN and RST)   *)
(* is modelled as Linux documents it.                                      *)
(*                                                                         *)
(* What a query does is not modelled here: handle_query answers it, with   *)
(* an error, an empty result or a batch and one ReadyForQuery, or the      *)
(* process ends inside it, as it does for some queries of any client.      *)
(***************************************************************************)
EXTENDS Naturals, Sequences, FiniteSets, FiniteSetsExt, SequencesExt

CONSTANTS
    Conns,          \* connections clients may hold at the same time
    Fds,            \* file descriptors left to the process for connections
    ListenFd,       \* the listening socket
    AbruptPhases,   \* phases in which a client may vanish
    None

ASSUME DescriptorAssumption ==
    Fds \subseteq Nat /\ Fds # {} /\ ListenFd \in Nat \ Fds

ASSUME AbruptAssumption ==
    AbruptPhases \subseteq {"connected", "ssl", "startup", "idle", "query"}

SocketState == {"StartUp", "NoSSLAcknowledged", "ReadyForQuery"}

ASSUME NoneAssumption ==
    None \notin Conns /\ None \notin Fds /\ None \notin SocketState

VARIABLES
    loop,     \* "top", "waiting", "handling" or "stopped"; or the process has
              \* ended, "killed" inside handle_query or "exited" elsewhere
    stop,     \* stopSignal
    fdOf,     \* the connection a descriptor is open on
    states,   \* SocketsManager::socket_states
    backlog,  \* connections to accept, in order
    ready,    \* descriptors with an edge that epoll_wait has not reported
    batch,    \* events reported and not handled yet
    phase,    \* where each client is in the protocol
    inbox,    \* messages in the receive buffer of the server
    outbox,   \* messages on their way to the client
    broken,   \* "open", "fin" (the client closed) or "reset"
    polite    \* history: every client has kept to the protocol so far

server == <<loop, stop, states, batch>>
sockets == <<fdOf, backlog, ready>>
network == <<phase, inbox, outbox, broken>>
vars == <<loop, stop, fdOf, states, backlog, ready, batch,
          phase, inbox, outbox, broken, polite>>

Phases == {"free", "connected", "ssl", "startup", "idle", "query",
           "closing", "gone"}

OpenFds == {fd \in Fds : fdOf[fd] # None}

\* Mutant: a descriptor in use is handed out again.
AllFds == Fds

FreeFds == Fds \ OpenFds

IsAccepted(c) == \E fd \in Fds : fdOf[fd] = c

Init ==
    /\ loop = "top"
    /\ stop = FALSE
    /\ fdOf = [fd \in Fds |-> None]
    /\ states = [fd \in Fds |-> None]
    /\ backlog = << >>
    /\ ready = {}
    /\ batch = {}
    /\ phase = [c \in Conns |-> "free"]
    /\ inbox = [c \in Conns |-> << >>]
    /\ outbox = [c \in Conns |-> << >>]
    /\ broken = [c \in Conns |-> "open"]
    /\ polite = TRUE

-----------------------------------------------------------------------------
(* Clients.  What a client sends makes its socket readable: an edge for    *)
(* the descriptor once the connection is accepted.                         *)

\* Closed by the server, the descriptor is no longer watched.
Watched(c) == {fd \in Fds : fdOf[fd] = c}

\* Mutant: descriptors are armed once per protocol state (EPOLLONESHOT).
RaiseUntilReady(c) ==
    ready' = ready \cup {fd \in Watched(c) : states[fd] # "ReadyForQuery"}

Raise(c) == ready' = ready \cup Watched(c)

Send(c, msg, next) ==
    /\ inbox' = [inbox EXCEPT ![c] = Append(@, msg)]
    /\ phase' = [phase EXCEPT ![c] = next]
    /\ Raise(c)

Receive(c, msg) ==
    /\ outbox[c] # << >>
    /\ Head(outbox[c]) = msg
    /\ outbox' = [outbox EXCEPT ![c] = Tail(@)]

Connect(c) ==
    /\ phase[c] = "free"
    /\ phase' = [phase EXCEPT ![c] = "connected"]
    /\ backlog' = Append(backlog, c)
    /\ UNCHANGED <<server, fdOf, ready, inbox, outbox, broken, polite>>

RequestSSL(c) ==
    /\ phase[c] = "connected"
    /\ Send(c, "ssl", "ssl")
    /\ UNCHANGED <<server, fdOf, backlog, outbox, broken, polite>>

StartUp(c) ==
    /\ phase[c] = "ssl"
    /\ Receive(c, "N")
    /\ Send(c, "startup", "startup")
    /\ UNCHANGED <<server, fdOf, backlog, broken, polite>>

BecomeReady(c) ==
    /\ phase[c] = "startup"
    /\ Receive(c, "ready")
    /\ phase' = [phase EXCEPT ![c] = "idle"]
    /\ UNCHANGED <<server, sockets, inbox, broken, polite>>

Ask(c) ==
    /\ phase[c] = "idle"
    /\ Send(c, "query", "query")
    /\ UNCHANGED <<server, fdOf, backlog, outbox, broken, polite>>

ReadAnswer(c) ==
    /\ phase[c] = "query"
    /\ Receive(c, "answer")
    /\ phase' = [phase EXCEPT ![c] = "idle"]
    /\ UNCHANGED <<server, sockets, inbox, broken, polite>>

\* PQfinish sends Terminate, then closes the socket: the message and the end
\* of the stream may arrive apart.
Terminate(c) ==
    /\ phase[c] = "idle"
    /\ Send(c, "terminate", "closing")
    /\ UNCHANGED <<server, fdOf, backlog, outbox, broken, polite>>

HangUp(c) ==
    /\ phase[c] = "closing"
    /\ phase' = [phase EXCEPT ![c] = "gone"]
    /\ broken' = [broken EXCEPT ![c] = "fin"]
    /\ Raise(c)
    /\ UNCHANGED <<server, fdOf, backlog, inbox, outbox, polite>>

\* A socket closed with unread data is reset.
Vanish(c) ==
    /\ phase[c] \in AbruptPhases
    /\ phase' = [phase EXCEPT ![c] = "gone"]
    /\ broken' = [broken EXCEPT ![c] =
                    IF outbox[c] = << >> THEN "fin" ELSE "reset"]
    /\ outbox' = [outbox EXCEPT ![c] = << >>]
    /\ polite' = FALSE
    /\ Raise(c)
    /\ UNCHANGED <<server, fdOf, backlog, inbox>>

-----------------------------------------------------------------------------
(* The server's ends of the sockets.                                       *)

\* Mutant: sockets are watched for EPOLLOUT too.
WritableToo(c) == TRUE

\* A descriptor added to the epoll set is reported if it is readable already.
Readable(c) == inbox[c] # << >> \/ broken[c] # "open"

\* The message at the front of what recv would return.
FirstMessage(c) == IF inbox[c] = << >> THEN "nothing" ELSE Head(inbox[c])

\* send(): data for a client that closed is answered with a reset, and
\* sending on a connection that was reset raises SIGPIPE, which kills.
Reply(c, msg) ==
    \/ /\ broken[c] = "open"
       /\ outbox' = [outbox EXCEPT ![c] = Append(@, msg)]
       /\ UNCHANGED <<broken, ready, loop>>
    \/ /\ broken[c] = "fin"
       /\ broken' = [broken EXCEPT ![c] = "reset"]
       /\ Raise(c)
       /\ UNCHANGED <<outbox, loop>>
    \/ /\ broken[c] = "reset"
       /\ loop' = "exited"
       /\ UNCHANGED <<outbox, broken, ready>>

\* Mutant: an edge of a closed descriptor is still reported.
CloseKeepsEdge(fd) ==
    LET c == fdOf[fd] IN
    /\ fdOf' = [fdOf EXCEPT ![fd] = None]
    /\ phase' = [phase EXCEPT ![c] = "free"]
    /\ inbox' = [inbox EXCEPT ![c] = << >>]
    /\ outbox' = [outbox EXCEPT ![c] = << >>]
    /\ broken' = [broken EXCEPT ![c] = "open"]
    /\ UNCHANGED ready

\* close(): the kernel also drops the descriptor from the epoll set.  The
\* client of every connection the server closes is gone, so its slot is free.
Close(fd) ==
    LET c == fdOf[fd] IN
    /\ fdOf' = [fdOf EXCEPT ![fd] = None]
    /\ ready' = ready \ {fd}
    /\ phase' = [phase EXCEPT ![c] = "free"]
    /\ inbox' = [inbox EXCEPT ![c] = << >>]
    /\ outbox' = [outbox EXCEPT ![c] = << >>]
    /\ broken' = [broken EXCEPT ![c] = "open"]

-----------------------------------------------------------------------------
(* The loop.                                                               *)

StopServer ==
    /\ ~stop
    /\ stop' = TRUE
    /\ UNCHANGED <<loop, states, batch, sockets, network, polite>>

LoopTop ==
    /\ loop = "top"
    /\ loop' = IF stop THEN "stopped" ELSE "waiting"
    /\ UNCHANGED <<stop, states, batch, sockets, network, polite>>

\* epoll_wait reports every descriptor with an edge, and the listening socket,
\* which is level-triggered, as long as a connection waits for accept.
Wait ==
    /\ loop = "waiting"
    /\ batch' = ready \cup (IF backlog = << >> THEN {} ELSE {ListenFd})
    /\ batch' # {}
    /\ ready' = {}
    /\ loop' = "handling"
    /\ UNCHANGED <<stop, states, fdOf, backlog, network, polite>>

\* Mutant: epoll_wait without a timeout.
WaitForever == FALSE /\ UNCHANGED vars

\* Nothing in 1000 ms, or a signal.
WaitTimeout ==
    /\ loop = "waiting"
    /\ ready = {} /\ backlog = << >>
    /\ loop' = "top"
    /\ UNCHANGED <<stop, states, batch, sockets, network, polite>>

Handling(event) ==
    /\ loop = "handling"
    /\ event \in batch
    /\ batch' = batch \ {event}

\* Mutant: the loop over the events stops before the last one.
BatchDoneEarly ==
    /\ loop = "handling"
    /\ Cardinality(batch) <= 1
    /\ batch' = {}
    /\ loop' = "top"
    /\ UNCHANGED <<stop, states, sockets, network, polite>>

BatchDone ==
    /\ loop = "handling"
    /\ batch = {}
    /\ loop' = "top"
    /\ UNCHANGED <<stop, states, batch, sockets, network, polite>>

\* accept4 returns the lowest free descriptor.  The states of the
\* SocketsManager are not touched.
Accept ==
    /\ Handling(ListenFd)
    /\ FreeFds # {}
    /\ LET fd == Min(FreeFds)
           c == Head(backlog)
       IN  /\ fdOf' = [fdOf EXCEPT ![fd] = c]
           /\ ready' = IF Readable(c) THEN ready \cup {fd} ELSE ready
    /\ backlog' = Tail(backlog)
    /\ UNCHANGED <<loop, stop, states, network, polite>>

\* No descriptor left: accept4 returns -1, epoll_ctl refuses it, both are
\* logged, and the connection stays in the backlog.
AcceptFails ==
    /\ Handling(ListenFd)
    /\ FreeFds = {}
    /\ UNCHANGED <<loop, stop, states, sockets, network, polite>>

\* get_socket_state: an unknown socket is put in its initial state.
StateOf(fd) == IF states[fd] = None THEN "StartUp" ELSE states[fd]

\* SSLRequest::handle_ssl_request reads eight bytes; anything but a whole
\* SSLRequest throws and nothing catches it.
HandleStartUp(fd) ==
    LET c == fdOf[fd] IN
    /\ Handling(fd)
    /\ StateOf(fd) = "StartUp"
    /\ \/ /\ FirstMessage(c) = "ssl"
          /\ inbox' = [inbox EXCEPT ![c] = Tail(@)]
          /\ Reply(c, "N")
          /\ states' = [states EXCEPT ![fd] = "NoSSLAcknowledged"]
       \/ /\ FirstMessage(c) # "ssl"
          /\ loop' = "exited"
          /\ states' = [states EXCEPT ![fd] = "StartUp"]
          /\ UNCHANGED <<inbox, outbox, broken, ready>>
    /\ UNCHANGED <<stop, fdOf, backlog, phase, polite>>

\* A failing recv leaves the socket as it is.  The end of the stream is not
\* told from a start-up message.
HandleNoSSL(fd) ==
    LET c == fdOf[fd] IN
    /\ Handling(fd)
    /\ states[fd] = "NoSSLAcknowledged"
    /\ \/ /\ inbox[c] = << >> /\ broken[c] # "fin"
          /\ UNCHANGED <<loop, states, ready, inbox, outbox, broken>>
       \/ /\ FirstMessage(c) # "nothing" \/ broken[c] = "fin"
          /\ inbox' = [inbox EXCEPT ![c] = << >>]
          /\ Reply(c, "ready")
          /\ states' = [states EXCEPT ![fd] = "ReadyForQuery"]
    /\ UNCHANGED <<stop, fdOf, backlog, phase, polite>>

\* recv reads the whole buffer, and only its first message is looked at.
\* handle_query answers it or ends the process, depending on the statement and
\* on what the tables hold: stmts[0] of a query without a statement, a SELECT
\* without FROM, a key that parse_key cannot parse, a partition value that is
\* not a string, a constraint or partition bound that is not `column = string'.
\* A process that ends, here or elsewhere, leaves the sockets as they are in the
\* model: nobody reads them again.
HandleQuery(fd) ==
    LET c == fdOf[fd] IN
    /\ Handling(fd)
    /\ states[fd] = "ReadyForQuery"
    /\ FirstMessage(c) = "query"
    /\ \/ /\ inbox' = [inbox EXCEPT ![c] = << >>]
          /\ Reply(c, "answer")
       \/ /\ loop' = "killed"
          /\ UNCHANGED <<inbox, outbox, broken, ready>>
    /\ UNCHANGED <<stop, states, fdOf, backlog, phase, polite>>

\* Mutant: the state of the socket is not removed.
HandleTerminateKeepsState(fd) ==
    /\ Handling(fd)
    /\ states[fd] = "ReadyForQuery"
    /\ FirstMessage(fdOf[fd]) = "terminate"
    /\ Close(fd)
    /\ UNCHANGED <<loop, stop, states, backlog, polite>>

HandleTerminate(fd) ==
    /\ Handling(fd)
    /\ states[fd] = "ReadyForQuery"
    /\ FirstMessage(fdOf[fd]) = "terminate"
    /\ Close(fd)
    /\ states' = [states EXCEPT ![fd] = None]
    /\ UNCHANGED <<loop, stop, backlog, polite>>

\* recv returns 0 or an error: the socket is closed, its state is kept.
HandleClosed(fd) ==
    /\ Handling(fd)
    /\ states[fd] = "ReadyForQuery"
    /\ FirstMessage(fdOf[fd]) = "nothing"
    /\ Close(fd)
    /\ UNCHANGED <<loop, stop, states, backlog, polite>>

\* Any other message type exits.
HandleUnknown(fd) ==
    /\ Handling(fd)
    /\ states[fd] = "ReadyForQuery"
    /\ FirstMessage(fdOf[fd]) \notin {"query", "terminate", "nothing"}
    /\ loop' = "exited"
    /\ UNCHANGED <<stop, states, sockets, network, polite>>

-----------------------------------------------------------------------------
ClientReads(c) == StartUp(c) \/ BecomeReady(c) \/ ReadAnswer(c)

ClientStep(c) ==
    \/ Connect(c)
    \/ RequestSSL(c)
    \/ ClientReads(c)
    \/ Ask(c)
    \/ Terminate(c)
    \/ HangUp(c)
    \/ Vanish(c)

HandleConnection(fd) ==
    \/ HandleStartUp(fd)
    \/ HandleNoSSL(fd)
    \/ HandleQuery(fd)
    \/ HandleTerminate(fd)
    \/ HandleClosed(fd)
    \/ HandleUnknown(fd)

ServerStep ==
    \/ LoopTop
    \/ Wait
    \/ WaitTimeout
    \/ BatchDone
    \/ Accept
    \/ AcceptFails
    \/ \E fd \in OpenFds : HandleConnection(fd)

Next == ServerStep \/ StopServer \/ \E c \in Conns : ClientStep(c)

Spec == Init /\ [][Next]_vars

\* The main thread runs, and a client that expects a message reads it.
FairSpec ==
    /\ Spec
    /\ WF_vars(ServerStep)
    /\ \A c \in Conns : WF_vars(ClientReads(c))

-----------------------------------------------------------------------------
(* Properties.                                                             *)

\* The types, and where a connection is: not there, in the backlog or open on
\* a descriptor.
TypeOK ==
    /\ loop \in {"top", "waiting", "handling", "stopped", "exited", "killed"}
    /\ stop \in BOOLEAN
    /\ fdOf \in [Fds -> Conns \cup {None}]
    /\ states \in [Fds -> SocketState \cup {None}]
    /\ backlog \in Seq(Conns)
    /\ ready \subseteq Fds
    /\ batch \subseteq Fds \cup {ListenFd}
    /\ phase \in [Conns -> Phases]
    /\ inbox \in [Conns -> Seq({"ssl", "startup", "query", "terminate"})]
    /\ outbox \in [Conns -> Seq({"N", "ready", "answer"})]
    /\ broken \in [Conns -> {"open", "fin", "reset"}]
    /\ polite \in BOOLEAN
    /\ \A c \in Conns :
          phase[c] = "free" <=> ~IsAccepted(c) /\ c \notin ToSet(backlog)

\* The state the server keeps for a socket is the phase its client is in, and
\* one message at most is on its way between the two.
InStep(fd) ==
    LET c == fdOf[fd]
        Waits(p, msg) ==
            phase[c] = p /\ inbox[c] = << >> /\ outbox[c] = <<msg>>
    IN  \/ /\ StateOf(fd) = "StartUp"
           /\ outbox[c] = << >>
           /\ \/ phase[c] = "connected" /\ inbox[c] = << >>
              \/ phase[c] = "ssl" /\ inbox[c] = <<"ssl">>
        \/ /\ StateOf(fd) = "NoSSLAcknowledged"
           /\ \/ Waits("ssl", "N")
              \/ phase[c] = "startup" /\ inbox[c] = <<"startup">>
                   /\ outbox[c] = << >>
        \/ /\ StateOf(fd) = "ReadyForQuery"
           /\ \/ Waits("startup", "ready")
              \/ phase[c] = "idle" /\ inbox[c] = << >> /\ outbox[c] = << >>
              \/ phase[c] = "query" /\ inbox[c] = <<"query">>
                   /\ outbox[c] = << >>
              \/ Waits("query", "answer")
              \/ phase[c] \in {"closing", "gone"}
                   /\ inbox[c] = <<"terminate">>

\* While clients keep to the protocol, the server is in step with each of them
\* and sends it exactly the one message it waits for: one 'N', one start-up
\* reply, one answer per query (the three cases of RunServer).
Agreement == polite => \A fd \in OpenFds : InStep(fd)

\* While clients keep to the protocol, nothing but what a query does inside
\* handle_query ends the process: no read of the start-up, no message type
\* (exit), no send to a client that is gone (SIGPIPE), whatever descriptors
\* were reused.
OnlyQueriesEndTheServer == polite => loop # "exited"

\* Edge-triggered events are read once, and still no message is left in a
\* receive buffer without an event that will have it read.
NoLostWakeup ==
    loop \notin {"exited", "killed"} =>
        \A fd \in OpenFds :
            inbox[fdOf[fd]] # << >> => fd \in ready \cup batch

\* Descriptors are closed and reused while a batch of events is handled, and
\* still each event is for a descriptor that is open.
EventsAreForOpenSockets == (ready \cup batch) \ {ListenFd} \subseteq OpenFds

\* The server closes no connection whose client is still there, and no event
\* of an old connection is taken for one of the connection that got its
\* descriptor (HandleClosed closes whatever recv fails on).
OnlyGoneClientsAreClosed ==
    [][\A c \in Conns :
          IsAccepted(c) /\ ~IsAccepted(c)'
              => phase[c] \in {"closing", "gone"}]_vars

\* While clients keep to the protocol, a query is answered unless one ends the
\* process or the server is told to stop.
QueriesAreAnswered ==
    \A c \in Conns :
        phase[c] = "query"
            ~> phase[c] = "idle" \/ loop = "killed" \/ stop \/ ~polite

\* While clients keep to the protocol, the descriptor of one that left is closed
\* and can be used again, unless a query ends the process or the server is
\* told to stop.
GoneClientsAreClosed ==
    \A c \in Conns :
        phase[c] \in {"closing", "gone"}
            ~> phase[c] = "free" \/ loop = "killed" \/ stop \/ ~polite

\* StopServer ends the loop within one timeout of epoll_wait, whatever clients
\* do.
StopEndsTheLoop == stop ~> loop \in {"stopped", "exited", "killed"}

-----------------------------------------------------------------------------
(* What a comment of the source says, and the code does not do.            *)

\* "set the initial state": the first message on a new connection is handled
\* in state StartUp.
FreshConnectionsStartUp ==
    \A fd \in OpenFds : phase[fdOf[fd]] = "connected" => StateOf(fd) = "StartUp"
=============================================================================

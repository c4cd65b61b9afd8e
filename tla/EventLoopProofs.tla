-------------------------- MODULE EventLoopProofs --------------------------
(***************************************************************************)
(* EventLoop, proved for any number of clients and descriptors.            *)
(*                                                                         *)
(* LoopInv is inductive.  Its heart is that a client and the server never  *)
(* both have a message for the other on its way (Box), so the buffer of a  *)
(* client that is still there holds one message exactly while there is one *)
(* event for its descriptor (Events).                                      *)
(***************************************************************************)
EXTENDS EventLoop, NaturalsInduction, WellFoundedInduction, TLAPS

USE DescriptorAssumption, NoneAssumption

\* A connection is in one place: once in the backlog or on one descriptor.
Places ==
    /\ \A f, g \in Fds : fdOf[f] = fdOf[g] /\ fdOf[f] # None => f = g
    /\ \A fd \in Fds : fdOf[fd] \notin ToSet(backlog)
    /\ \A i, j \in DOMAIN backlog : backlog[i] = backlog[j] => i = j

\* A batch is handled before the next is fetched, and the listening socket is
\* reported only with a connection to accept.
Batches ==
    /\ loop \in {"top", "waiting"} => batch = {}
    /\ ListenFd \in batch => backlog # << >>

Holds(c, p, in, out) == phase[c] = p /\ inbox[c] = in /\ outbox[c] = out

\* Client and server take turns: at most one message is on its way between
\* them, and which one follows from the phase of the client.
Box(c) ==
    /\ phase[c] # "gone" => broken[c] = "open"
    /\ \/ \E p \in {"free", "connected", "idle"} : Holds(c, p, << >>, << >>)
       \/ Holds(c, "ssl", <<"ssl">>, << >>)
       \/ Holds(c, "ssl", << >>, <<"N">>)
       \/ Holds(c, "startup", <<"startup">>, << >>)
       \/ Holds(c, "startup", << >>, <<"ready">>)
       \/ Holds(c, "query", <<"query">>, << >>)
       \/ Holds(c, "query", << >>, <<"answer">>)
       \/ Holds(c, "closing", <<"terminate">>, << >>)
       \/ /\ phase[c] = "gone" /\ outbox[c] = << >> /\ broken[c] # "open"
          /\ inbox[c] = << >> \/ \E m : inbox[c] = <<m>>

Boxes == \A c \in Conns : Box(c)

\* A client that was not accepted has been told nothing.
BacklogWaits ==
    \A c \in ToSet(backlog) :
        phase[c] \in {"connected", "ssl", "gone"} /\ outbox[c] = << >>

\* State NoSSLAcknowledged is never left behind on a descriptor that is closed,
\* and on an open one the client has been sent its 'N'.
Acknowledged(fd) ==
    /\ fdOf[fd] # None
    /\ \/ Holds(fdOf[fd], "ssl", << >>, <<"N">>)
       \/ Holds(fdOf[fd], "startup", <<"startup">>, << >>)
       \/ phase[fdOf[fd]] = "gone"

Acknowledgements ==
    \A fd \in Fds : states[fd] = "NoSSLAcknowledged" => Acknowledged(fd)

\* While its client is there, a descriptor has an event only for a message,
\* and no second one.
Events ==
    \A fd \in OpenFds :
        phase[fdOf[fd]] # "gone" =>
            /\ fd \in ready \cup batch => inbox[fdOf[fd]] # << >>
            /\ ~(fd \in ready /\ fd \in batch)

\* While clients keep to the protocol no state is left behind on a descriptor
\* that is closed.
NoStaleStates == polite => \A fd \in Fds \ OpenFds : states[fd] = None

NobodyVanished ==
    polite => \A c \in ToSet(backlog) : phase[c] # "gone"

LoopInv ==
    /\ TypeOK /\ Places /\ Batches /\ Boxes /\ BacklogWaits
    /\ Acknowledgements /\ Events
    /\ EventsAreForOpenSockets /\ NoLostWakeup
    /\ NoStaleStates /\ NobodyVanished /\ Agreement /\ OnlyQueriesEndTheServer

-----------------------------------------------------------------------------
(* Sequences.                                                              *)

LEMMA OneMessage ==
    \A m : /\ Append(<< >>, m) = <<m>> /\ Tail(<<m>>) = << >>
           /\ Head(<<m>>) = m /\ <<m>> # << >> /\ <<m>>[1] = m
  OBVIOUS

LEMMA AppendIsASet ==
    ASSUME NEW S, NEW s \in Seq(S), NEW e
    PROVE  /\ ToSet(Append(s, e)) = ToSet(s) \cup {e}
           /\ DOMAIN s = 1 .. Len(s) /\ Len(s) \in Nat
           /\ DOMAIN Append(s, e) = 1 .. Len(s) + 1
           /\ \A i \in 1 .. Len(s) : Append(s, e)[i] = s[i]
           /\ Append(s, e)[Len(s) + 1] = e
<1>1. /\ DOMAIN s = 1 .. Len(s) /\ Len(s) \in Nat
      /\ DOMAIN Append(s, e) = 1 .. Len(s) + 1
      /\ \A i \in 1 .. Len(s) : Append(s, e)[i] = s[i]
      /\ Append(s, e)[Len(s) + 1] = e
  OBVIOUS
<1>2. \A i \in 1 .. Len(s) + 1 : i \in 1 .. Len(s) \/ i = Len(s) + 1
  BY <1>1
<1>3. Len(s) + 1 \in DOMAIN Append(s, e) /\ DOMAIN s \subseteq DOMAIN Append(s, e)
  BY <1>1
<1>4. ToSet(Append(s, e)) \subseteq ToSet(s) \cup {e}
  BY <1>1, <1>2 DEF ToSet
<1>5. ToSet(s) \subseteq ToSet(Append(s, e)) /\ e \in ToSet(Append(s, e))
  BY <1>1, <1>3 DEF ToSet
<1> QED
  BY <1>1, <1>4, <1>5

LEMMA TailIsASet ==
    ASSUME NEW S, NEW s \in Seq(S), s # << >>
    PROVE  /\ Tail(s) \in Seq(S) /\ Head(s) \in S
           /\ ToSet(s) = ToSet(Tail(s)) \cup {Head(s)}
           /\ Head(s) = s[1]
           /\ DOMAIN Tail(s) = 1 .. Len(s) - 1
           /\ \A i \in DOMAIN Tail(s) : i + 1 \in DOMAIN s /\ Tail(s)[i] = s[i + 1]
<1>1. Len(s) \in Nat /\ Len(s) # 0 /\ DOMAIN s = 1 .. Len(s)
  OBVIOUS
<1>2. /\ Tail(s) \in Seq(S) /\ Head(s) \in S /\ Head(s) = s[1]
      /\ Len(Tail(s)) = Len(s) - 1
  BY <1>1
<1>3. DOMAIN Tail(s) = 1 .. Len(s) - 1
  BY <1>2
<1>4. \A i \in DOMAIN Tail(s) : i + 1 \in DOMAIN s /\ Tail(s)[i] = s[i + 1]
  BY <1>1, <1>3
<1>5. ToSet(s) = ToSet(Tail(s)) \cup {Head(s)}
  <2>1. ASSUME NEW x \in ToSet(s)
        PROVE  x \in ToSet(Tail(s)) \cup {Head(s)}
    <3>1. PICK j \in DOMAIN s : x = s[j]
      BY DEF ToSet
    <3>2. CASE j = 1
      BY <3>1, <3>2, <1>2
    <3>3. CASE j # 1
      <4>1. j - 1 \in DOMAIN Tail(s) /\ (j - 1) + 1 = j
        BY <3>3, <1>1, <1>3
      <4> QED
        BY <4>1, <3>1, <1>4 DEF ToSet
    <3> QED
      BY <3>2, <3>3
  <2>2. ASSUME NEW x \in ToSet(Tail(s)) \cup {Head(s)}
        PROVE  x \in ToSet(s)
    <3>1. CASE x = Head(s)
      BY <3>1, <1>1, <1>2 DEF ToSet
    <3>2. CASE x \in ToSet(Tail(s))
      <4>1. PICK j \in DOMAIN Tail(s) : x = Tail(s)[j]
        BY <3>2 DEF ToSet
      <4> QED
        BY <4>1, <1>4 DEF ToSet
    <3> QED
      BY <3>1, <3>2, <2>2
  <2> QED
    BY <2>1, <2>2
<1> QED
  BY <1>2, <1>3, <1>4, <1>5

\* accept4 finds the lowest free descriptor.
LEMMA LowestFreeFd ==
    ASSUME FreeFds # {}
    PROVE  Min(FreeFds) \in FreeFds
<1>1. FreeFds \subseteq Nat
  BY DEF FreeFds
<1>2. PICK x \in FreeFds : \A y \in FreeFds : ~(<<y, x>> \in OpToRel(<, Nat))
  BY <1>1, NatLessThanWellFounded, WFMin
<1>3. \A y \in FreeFds : ~(y < x)
  BY <1>1, <1>2, Zenon DEF OpToRel
<1>4. \A y \in FreeFds : x =< y
  BY <1>1, <1>3
<1> QED
  BY <1>4 DEF Min

-----------------------------------------------------------------------------
(* A step of one client.                                                   *)

LEMMA ClientMove ==
    ASSUME LoopInv, NEW c \in Conns,
           phase[c] # "free", phase[c] # "gone",
           UNCHANGED <<server, fdOf, backlog>>,
           NEW p \in Phases \ {"free"},
           NEW i \in Seq({"ssl", "startup", "query", "terminate"}),
           NEW o \in Seq({"N", "ready", "answer"}),
           NEW b \in {"open", "fin", "reset"},
           phase' = [phase EXCEPT ![c] = p],
           inbox' = [inbox EXCEPT ![c] = i],
           outbox' = [outbox EXCEPT ![c] = o],
           broken' = [broken EXCEPT ![c] = b],
           \/ ready' = ready /\ i = inbox[c] /\ p # "gone"
           \/ Raise(c) /\ (p = "gone" \/ (inbox[c] = << >> /\ i # << >>)),
           polite' \in BOOLEAN, polite' => polite,
           Box(c)',
           c \in ToSet(backlog) =>
              /\ p \in {"connected", "ssl", "gone"} /\ o = << >>
              /\ polite' => p # "gone",
           \A fd \in Fds : fdOf[fd] = c /\ Acknowledged(fd) => Acknowledged(fd)',
           \A fd \in Fds :
              fdOf[fd] = c /\ polite' /\ InStep(fd) => InStep(fd)'
    PROVE  LoopInv'
<1> USE DEF server, sockets, network
<1>1. /\ TypeOK /\ Places /\ Batches /\ Boxes /\ BacklogWaits
      /\ Acknowledgements /\ Events
      /\ EventsAreForOpenSockets /\ NoLostWakeup
      /\ NoStaleStates /\ NobodyVanished /\ Agreement /\ OnlyQueriesEndTheServer
  BY DEF LoopInv
<1>2. /\ phase'[c] = p /\ inbox'[c] = i /\ outbox'[c] = o /\ broken'[c] = b
      /\ \A d \in Conns \ {c} :
            /\ phase'[d] = phase[d] /\ inbox'[d] = inbox[d]
            /\ outbox'[d] = outbox[d] /\ broken'[d] = broken[d]
  BY <1>1 DEF TypeOK
<1>3. /\ fdOf \in [Fds -> Conns \cup {None}]
      /\ OpenFds' = OpenFds /\ OpenFds \subseteq Fds
      /\ \A fd \in OpenFds : fdOf[fd] \in Conns
      /\ \A fd \in Fds : StateOf(fd)' = StateOf(fd)
  BY <1>1 DEF TypeOK, OpenFds, StateOf
<1>4. /\ ready \subseteq ready' /\ ready' \subseteq ready \cup Watched(c)
      /\ Watched(c) \subseteq OpenFds
      /\ \A fd \in Watched(c) : fdOf[fd] = c
      /\ \A fd \in OpenFds : fdOf[fd] = c => fd \in Watched(c)
  BY <1>3 DEF Raise, Watched, OpenFds
<1>5. ToSet(backlog) \subseteq Conns
  BY <1>1 DEF TypeOK, ToSet
<1>6. \A fd \in Fds : fdOf[fd] # c =>
          /\ Acknowledged(fd) => Acknowledged(fd)'
          /\ fdOf[fd] # None /\ InStep(fd) => InStep(fd)'
  BY <1>2, <1>3 DEF Acknowledged, Holds, InStep
<1>7. TypeOK'
  <2>1. phase' \in [Conns -> Phases]
    BY <1>1 DEF TypeOK
  <2>2. /\ inbox' \in [Conns -> Seq({"ssl", "startup", "query", "terminate"})]
        /\ outbox' \in [Conns -> Seq({"N", "ready", "answer"})]
        /\ broken' \in [Conns -> {"open", "fin", "reset"}]
    BY <1>1 DEF TypeOK
  <2>3. ready' \subseteq Fds
    BY <1>1, <1>3, <1>4 DEF TypeOK
  <2>4. \A d \in Conns :
            phase'[d] = "free" <=> ~IsAccepted(d)' /\ d \notin ToSet(backlog')
    <3>1. \A d \in Conns : IsAccepted(d)' <=> IsAccepted(d)
      BY DEF IsAccepted
    <3>2. \A d \in Conns : phase'[d] = "free" <=> phase[d] = "free"
      BY <1>2
    <3> QED
      BY <1>1, <3>1, <3>2 DEF TypeOK
  <2> QED
    BY <1>1, <2>1, <2>2, <2>3, <2>4 DEF TypeOK
<1>8. Places' /\ Batches'
  BY <1>1 DEF Places, Batches
<1>9. Boxes'
  BY <1>1, <1>2 DEF Boxes, Box, Holds
<1>10. BacklogWaits' /\ NobodyVanished'
  BY <1>1, <1>2, <1>5 DEF BacklogWaits, NobodyVanished
<1>11. Acknowledgements'
  BY <1>1, <1>6 DEF Acknowledgements
<1>12. Events'
  <2> SUFFICES ASSUME NEW fd \in OpenFds, phase'[fdOf[fd]] # "gone"
               PROVE  /\ fd \in ready' \cup batch => inbox'[fdOf[fd]] # << >>
                      /\ ~(fd \in ready' /\ fd \in batch)
    BY <1>3 DEF Events
  <2>1. CASE fdOf[fd] # c
    BY <2>1, <1>1, <1>2, <1>3, <1>4 DEF Events
  <2>2. CASE fdOf[fd] = c
    BY <2>2, <1>1, <1>2, <1>3, <1>4 DEF Events
  <2> QED
    BY <2>1, <2>2
<1>13. EventsAreForOpenSockets'
  BY <1>1, <1>3, <1>4 DEF EventsAreForOpenSockets
<1>14. NoLostWakeup'
  <2> SUFFICES ASSUME loop \notin {"exited", "killed"}, NEW fd \in OpenFds,
                      inbox'[fdOf[fd]] # << >>
               PROVE  fd \in ready' \cup batch
    BY <1>3 DEF NoLostWakeup
  <2>1. CASE fdOf[fd] # c
    BY <2>1, <1>1, <1>2, <1>3, <1>4 DEF NoLostWakeup
  <2>2. CASE fdOf[fd] = c
    BY <2>2, <1>1, <1>2, <1>3, <1>4 DEF NoLostWakeup, Raise
  <2> QED
    BY <2>1, <2>2
<1>15. NoStaleStates' /\ OnlyQueriesEndTheServer'
  BY <1>1, <1>3 DEF NoStaleStates, OnlyQueriesEndTheServer
<1>16. Agreement'
  BY <1>1, <1>3, <1>6 DEF Agreement
<1> QED
  BY <1>7, <1>8, <1>9, <1>10, <1>11, <1>12, <1>13, <1>14, <1>15, <1>16 DEF LoopInv

\* What the lemmas below need of one client.
LEMMA ClientFacts ==
    ASSUME LoopInv, NEW c \in Conns
    PROVE  /\ Box(c)
           /\ inbox[c] \in Seq({"ssl", "startup", "query", "terminate"})
           /\ outbox[c] \in Seq({"N", "ready", "answer"})
           /\ broken[c] \in {"open", "fin", "reset"}
           /\ inbox = [inbox EXCEPT ![c] = inbox[c]]
           /\ outbox = [outbox EXCEPT ![c] = outbox[c]]
           /\ broken = [broken EXCEPT ![c] = broken[c]]
           /\ phase \in [Conns -> Phases] /\ inbox \in [Conns -> Seq({"ssl", "startup", "query", "terminate"})]
           /\ outbox \in [Conns -> Seq({"N", "ready", "answer"})]
           /\ broken \in [Conns -> {"open", "fin", "reset"}]
           /\ polite \in BOOLEAN
           /\ c \in ToSet(backlog) =>
                 phase[c] \in {"connected", "ssl", "gone"} /\ outbox[c] = << >>
  BY DEF LoopInv, TypeOK, Boxes, BacklogWaits

LEMMA RequestSSLStep ==
    ASSUME LoopInv, NEW c \in Conns, RequestSSL(c)
    PROVE  LoopInv'
<1>1. /\ phase[c] = "connected" /\ inbox[c] = << >> /\ outbox[c] = << >>
      /\ broken[c] = "open"
  BY ClientFacts, OneMessage DEF RequestSSL, Box, Holds
<1>2. /\ phase' = [phase EXCEPT ![c] = "ssl"]
      /\ inbox' = [inbox EXCEPT ![c] = <<"ssl">>]
      /\ Raise(c) /\ UNCHANGED <<server, fdOf, backlog, outbox, broken, polite>>
  BY <1>1, ClientFacts DEF RequestSSL, Send
<1>3. /\ phase'[c] = "ssl" /\ inbox'[c] = <<"ssl">> /\ outbox'[c] = << >>
      /\ broken'[c] = "open"
  BY <1>1, <1>2, ClientFacts
<1>4. Box(c)'
  BY <1>3 DEF Box, Holds
<1>5. \A fd \in Fds : fdOf[fd] = c /\ Acknowledged(fd) => Acknowledged(fd)'
  BY <1>1, OneMessage DEF Acknowledged, Holds
<1>6. \A fd \in Fds :
          fdOf[fd] = c /\ polite' /\ InStep(fd) => InStep(fd)'
  BY <1>1, <1>2, <1>3, OneMessage DEF InStep, StateOf, server
<1>7. "ssl" \in Phases \ {"free"}
  BY DEF Phases
<1>8. /\ <<"ssl">> \in Seq({"ssl", "startup", "query", "terminate"})
      /\ << >> \in Seq({"N", "ready", "answer"})
      /\ "open" \in {"open", "fin", "reset"}
      /\ inbox' = [inbox EXCEPT ![c] = <<"ssl">>]
      /\ outbox' = [outbox EXCEPT ![c] = << >>]
      /\ broken' = [broken EXCEPT ![c] = "open"]
  BY <1>1, <1>2, <1>3, ClientFacts
<1>9. polite' \in BOOLEAN /\ (polite' => polite)
  BY <1>2, <1>3, ClientFacts
<1> QED
  BY <1>1, <1>2, <1>3, <1>4, <1>5, <1>6, <1>7, <1>8, <1>9,
     OneMessage, ClientMove DEF sockets

LEMMA StartUpStep ==
    ASSUME LoopInv, NEW c \in Conns, StartUp(c)
    PROVE  LoopInv'
<1>1. /\ phase[c] = "ssl" /\ inbox[c] = << >> /\ outbox[c] = <<"N">>
      /\ broken[c] = "open"
  BY ClientFacts, OneMessage DEF StartUp, Receive, Box, Holds
<1>2. /\ phase' = [phase EXCEPT ![c] = "startup"]
      /\ inbox' = [inbox EXCEPT ![c] = <<"startup">>]
      /\ outbox' = [outbox EXCEPT ![c] = << >>]
      /\ Raise(c) /\ UNCHANGED <<server, fdOf, backlog, broken, polite>>
  BY <1>1, ClientFacts, OneMessage DEF StartUp, Send, Receive
<1>3. /\ phase'[c] = "startup" /\ inbox'[c] = <<"startup">>
      /\ outbox'[c] = << >> /\ broken'[c] = "open"
  BY <1>1, <1>2, ClientFacts
<1>4. Box(c)'
  BY <1>3 DEF Box, Holds
<1>5. \A fd \in Fds : fdOf[fd] = c /\ Acknowledged(fd) => Acknowledged(fd)'
  BY <1>1, <1>2, <1>3 DEF Acknowledged, Holds
<1>6. \A fd \in Fds :
          fdOf[fd] = c /\ polite' /\ InStep(fd) => InStep(fd)'
  BY <1>1, <1>2, <1>3, OneMessage DEF InStep, StateOf, server
<1>7. "startup" \in Phases \ {"free"}
  BY DEF Phases
<1>8. /\ <<"startup">> \in Seq({"ssl", "startup", "query", "terminate"})
      /\ << >> \in Seq({"N", "ready", "answer"})
      /\ "open" \in {"open", "fin", "reset"}
      /\ inbox' = [inbox EXCEPT ![c] = <<"startup">>]
      /\ outbox' = [outbox EXCEPT ![c] = << >>]
      /\ broken' = [broken EXCEPT ![c] = "open"]
  BY <1>1, <1>2, <1>3, ClientFacts
<1>9. polite' \in BOOLEAN /\ (polite' => polite)
  BY <1>2, <1>3, ClientFacts
<1>10. c \notin ToSet(backlog)
  BY <1>1, ClientFacts, OneMessage
<1> QED
  BY <1>1, <1>2, <1>3, <1>4, <1>5, <1>6, <1>7, <1>8, <1>9, <1>10,
     OneMessage, ClientMove DEF sockets

\* BecomeReady and ReadAnswer.
LEMMA ReadStep ==
    ASSUME LoopInv, NEW c \in Conns, BecomeReady(c) \/ ReadAnswer(c)
    PROVE  LoopInv'
<1>1. /\ \/ phase[c] = "startup" /\ outbox[c] = <<"ready">>
         \/ phase[c] = "query" /\ outbox[c] = <<"answer">>
      /\ inbox[c] = << >> /\ broken[c] = "open"
  BY ClientFacts, OneMessage DEF BecomeReady, ReadAnswer, Receive, Box, Holds
<1>2. /\ phase' = [phase EXCEPT ![c] = "idle"]
      /\ outbox' = [outbox EXCEPT ![c] = << >>]
      /\ UNCHANGED <<server, sockets, inbox, broken, polite>>
  BY <1>1, ClientFacts, OneMessage DEF BecomeReady, ReadAnswer, Receive
<1>3. /\ phase'[c] = "idle" /\ inbox'[c] = << >> /\ outbox'[c] = << >>
      /\ broken'[c] = "open"
  BY <1>1, <1>2, ClientFacts
<1>4. Box(c)'
  BY <1>3 DEF Box, Holds
<1>5. \A fd \in Fds : fdOf[fd] = c => ~Acknowledged(fd)
  BY <1>1, OneMessage DEF Acknowledged, Holds
<1>6. \A fd \in Fds :
          fdOf[fd] = c /\ polite' /\ InStep(fd) => InStep(fd)'
  BY <1>1, <1>2, <1>3, OneMessage DEF InStep, StateOf, server, sockets
<1>7. "idle" \in Phases \ {"free"}
  BY DEF Phases
<1>8. c \notin ToSet(backlog)
  BY <1>1, ClientFacts
<1>9. /\ << >> \in Seq({"ssl", "startup", "query", "terminate"})
      /\ << >> \in Seq({"N", "ready", "answer"})
      /\ "open" \in {"open", "fin", "reset"}
      /\ inbox' = [inbox EXCEPT ![c] = << >>]
      /\ outbox' = [outbox EXCEPT ![c] = << >>]
      /\ broken' = [broken EXCEPT ![c] = "open"]
  BY <1>1, <1>2, <1>3, ClientFacts
<1>10. polite' \in BOOLEAN /\ (polite' => polite)
  BY <1>2, <1>3, ClientFacts
<1> QED
  BY <1>1, <1>2, <1>3, <1>4, <1>5, <1>6, <1>7, <1>8, <1>9, <1>10,
     OneMessage, ClientMove DEF sockets

LEMMA AskStep ==
    ASSUME LoopInv, NEW c \in Conns, Ask(c)
    PROVE  LoopInv'
<1>1. /\ phase[c] = "idle" /\ inbox[c] = << >> /\ outbox[c] = << >>
      /\ broken[c] = "open"
  BY ClientFacts, OneMessage DEF Ask, Box, Holds
<1>2. /\ phase' = [phase EXCEPT ![c] = "query"]
      /\ inbox' = [inbox EXCEPT ![c] = <<"query">>]
      /\ Raise(c) /\ UNCHANGED <<server, fdOf, backlog, outbox, broken, polite>>
  BY <1>1, ClientFacts, OneMessage DEF Ask, Send
<1>3. /\ phase'[c] = "query" /\ inbox'[c] = <<"query">> /\ outbox'[c] = << >>
      /\ broken'[c] = "open"
  BY <1>1, <1>2, ClientFacts
<1>4. Box(c)'
  BY <1>1, <1>3 DEF Box, Holds
<1>5. \A fd \in Fds : fdOf[fd] = c => ~Acknowledged(fd)
  BY <1>1 DEF Acknowledged, Holds
<1>6. \A fd \in Fds :
          fdOf[fd] = c /\ polite' /\ InStep(fd) => InStep(fd)'
  BY <1>1, <1>2, <1>3, OneMessage DEF InStep, StateOf, server
<1>7. "query" \in Phases \ {"free"}
  BY DEF Phases
<1>8. c \notin ToSet(backlog)
  BY <1>1, ClientFacts
<1>9. polite' \in BOOLEAN /\ (polite' => polite)
  BY <1>2, ClientFacts
<1>10. /\ <<"query">> \in Seq({"ssl", "startup", "query", "terminate"})
      /\ << >> \in Seq({"N", "ready", "answer"})
      /\ "open" \in {"open", "fin", "reset"}
      /\ inbox' = [inbox EXCEPT ![c] = <<"query">>]
      /\ outbox' = [outbox EXCEPT ![c] = << >>]
      /\ broken' = [broken EXCEPT ![c] = "open"]
  BY <1>1, <1>2, <1>3, ClientFacts
<1> QED
  BY <1>1, <1>2, <1>3, <1>4, <1>5, <1>6, <1>7, <1>8, <1>9, <1>10,
     OneMessage, ClientMove DEF sockets

LEMMA TerminateStep ==
    ASSUME LoopInv, NEW c \in Conns, Terminate(c)
    PROVE  LoopInv'
<1>1. /\ phase[c] = "idle" /\ inbox[c] = << >> /\ outbox[c] = << >>
      /\ broken[c] = "open"
  BY ClientFacts, OneMessage DEF Terminate, Box, Holds
<1>2. /\ phase' = [phase EXCEPT ![c] = "closing"]
      /\ inbox' = [inbox EXCEPT ![c] = <<"terminate">>]
      /\ Raise(c) /\ UNCHANGED <<server, fdOf, backlog, outbox, broken, polite>>
  BY <1>1, ClientFacts, OneMessage DEF Terminate, Send
<1>3. /\ phase'[c] = "closing" /\ inbox'[c] = <<"terminate">>
      /\ outbox'[c] = << >> /\ broken'[c] = "open"
  BY <1>1, <1>2, ClientFacts
<1>4. Box(c)'
  BY <1>3 DEF Box, Holds
<1>5. \A fd \in Fds : fdOf[fd] = c => ~Acknowledged(fd)
  BY <1>1 DEF Acknowledged, Holds
<1>6. \A fd \in Fds :
          fdOf[fd] = c /\ polite' /\ InStep(fd) => InStep(fd)'
  BY <1>1, <1>2, <1>3, OneMessage DEF InStep, StateOf, server
<1>7. "closing" \in Phases \ {"free"}
  BY DEF Phases
<1>8. c \notin ToSet(backlog)
  BY <1>1, ClientFacts
<1>9. /\ <<"terminate">> \in Seq({"ssl", "startup", "query", "terminate"})
      /\ << >> \in Seq({"N", "ready", "answer"})
      /\ "open" \in {"open", "fin", "reset"}
      /\ inbox' = [inbox EXCEPT ![c] = <<"terminate">>]
      /\ outbox' = [outbox EXCEPT ![c] = << >>]
      /\ broken' = [broken EXCEPT ![c] = "open"]
  BY <1>1, <1>2, <1>3, ClientFacts
<1>10. polite' \in BOOLEAN /\ (polite' => polite)
  BY <1>2, <1>3, ClientFacts
<1> QED
  BY <1>1, <1>2, <1>3, <1>4, <1>5, <1>6, <1>7, <1>8, <1>9, <1>10,
     OneMessage, ClientMove DEF sockets

LEMMA HangUpStep ==
    ASSUME LoopInv, NEW c \in Conns, HangUp(c)
    PROVE  LoopInv'
<1>1. /\ phase[c] = "closing" /\ inbox[c] = <<"terminate">> /\ outbox[c] = << >>
  BY ClientFacts DEF HangUp, Box, Holds
<1>2. /\ phase' = [phase EXCEPT ![c] = "gone"]
      /\ broken' = [broken EXCEPT ![c] = "fin"]
      /\ Raise(c) /\ UNCHANGED <<server, fdOf, backlog, inbox, outbox, polite>>
  BY DEF HangUp
<1>3. /\ phase'[c] = "gone" /\ inbox'[c] = <<"terminate">>
      /\ outbox'[c] = << >> /\ broken'[c] = "fin"
  BY <1>1, <1>2, ClientFacts
<1>4. Box(c)'
  BY <1>3 DEF Box, Holds
<1>5. \A fd \in Fds : fdOf[fd] = c => ~Acknowledged(fd)
  BY <1>1 DEF Acknowledged, Holds
<1>6. \A fd \in Fds :
          fdOf[fd] = c /\ polite' /\ InStep(fd) => InStep(fd)'
  BY <1>1, <1>2, <1>3, OneMessage DEF InStep, StateOf, server
<1>7. "gone" \in Phases \ {"free"}
  BY DEF Phases
<1>8. c \notin ToSet(backlog)
  BY <1>1, ClientFacts
<1>9. /\ <<"terminate">> \in Seq({"ssl", "startup", "query", "terminate"})
      /\ << >> \in Seq({"N", "ready", "answer"})
      /\ "fin" \in {"open", "fin", "reset"}
      /\ inbox' = [inbox EXCEPT ![c] = <<"terminate">>]
      /\ outbox' = [outbox EXCEPT ![c] = << >>]
      /\ broken' = [broken EXCEPT ![c] = "fin"]
  BY <1>1, <1>2, <1>3, ClientFacts
<1>10. polite' \in BOOLEAN /\ (polite' => polite)
  BY <1>2, <1>3, ClientFacts
<1> QED
  BY <1>1, <1>2, <1>3, <1>4, <1>5, <1>6, <1>7, <1>8, <1>9, <1>10,
     OneMessage, ClientMove DEF sockets

LEMMA VanishStep ==
    ASSUME LoopInv, NEW c \in Conns, Vanish(c)
    PROVE  LoopInv'
<1> DEFINE b == IF outbox[c] = << >> THEN "fin" ELSE "reset"
<1>1. phase[c] \in {"connected", "ssl", "startup", "idle", "query"}
  BY AbruptAssumption DEF Vanish
<1>2. inbox[c] = << >> \/ \E m : inbox[c] = <<m>>
  BY <1>1, ClientFacts DEF Box, Holds
<1>3. /\ phase' = [phase EXCEPT ![c] = "gone"]
      /\ broken' = [broken EXCEPT ![c] = b]
      /\ outbox' = [outbox EXCEPT ![c] = << >>]
      /\ polite' = FALSE
      /\ Raise(c) /\ UNCHANGED <<server, fdOf, backlog, inbox>>
  BY DEF Vanish
<1>4. b \in {"fin", "reset"}
  OBVIOUS
<1> HIDE DEF b
<1>5. /\ phase'[c] = "gone" /\ inbox'[c] = inbox[c]
      /\ outbox'[c] = << >> /\ broken'[c] = b
  BY <1>3, ClientFacts
<1>6. Box(c)'
  BY <1>2, <1>4, <1>5 DEF Box, Holds
<1>7. \A fd \in Fds : fdOf[fd] = c /\ Acknowledged(fd) => Acknowledged(fd)'
  BY <1>3, <1>5 DEF Acknowledged
<1>8. "gone" \in Phases \ {"free"}
  BY DEF Phases
<1>9. /\ inbox[c] \in Seq({"ssl", "startup", "query", "terminate"})
      /\ inbox' = [inbox EXCEPT ![c] = inbox[c]]
  BY <1>3, ClientFacts
<1>10. polite' \in BOOLEAN /\ ~polite'
  BY <1>3
<1>11. << >> \in Seq({"N", "ready", "answer"})
  OBVIOUS
<1> QED
  BY <1>1, <1>3, <1>4, <1>6, <1>7, <1>8, <1>9, <1>10, <1>11, ClientMove

LEMMA ConnectStep ==
    ASSUME LoopInv, NEW c \in Conns, Connect(c)
    PROVE  LoopInv'
<1> USE DEF server, sockets, network
<1>1. /\ TypeOK /\ Places /\ Batches /\ Boxes /\ BacklogWaits
      /\ Acknowledgements /\ Events
      /\ EventsAreForOpenSockets /\ NoLostWakeup
      /\ NoStaleStates /\ NobodyVanished /\ Agreement /\ OnlyQueriesEndTheServer
  BY DEF LoopInv
<1>2. /\ phase[c] = "free" /\ phase'[c] = "connected"
      /\ \A d \in Conns \ {c} : phase'[d] = phase[d]
      /\ phase' \in [Conns -> Phases]
      /\ backlog' = Append(backlog, c) /\ backlog \in Seq(Conns)
      /\ UNCHANGED <<server, fdOf, ready, inbox, outbox, broken, polite>>
  BY <1>1 DEF TypeOK, Connect, Phases
<1>3. /\ inbox[c] = << >> /\ outbox[c] = << >> /\ broken[c] = "open"
  BY <1>2, ClientFacts DEF Box, Holds
<1>4. /\ fdOf \in [Fds -> Conns \cup {None}]
      /\ OpenFds' = OpenFds /\ OpenFds \subseteq Fds
      /\ \A fd \in OpenFds : fdOf[fd] \in Conns
      /\ \A fd \in Fds : StateOf(fd)' = StateOf(fd)
  BY <1>1, <1>2 DEF TypeOK, OpenFds, StateOf
<1>5. /\ c \notin ToSet(backlog) /\ \A fd \in Fds : fdOf[fd] # c
      /\ ToSet(backlog) \subseteq Conns
      /\ ToSet(backlog') = ToSet(backlog) \cup {c}
  <2>1. ToSet(backlog) \subseteq Conns
    BY <1>2 DEF ToSet
  <2> QED
    BY <2>1, <1>1, <1>2, AppendIsASet DEF TypeOK, IsAccepted
<1>6. TypeOK'
  <2>1. backlog' \in Seq(Conns)
    BY <1>2
  <2>2. \A d \in Conns :
            phase'[d] = "free" <=> ~IsAccepted(d)' /\ d \notin ToSet(backlog')
    <3>1. \A d \in Conns : IsAccepted(d)' <=> IsAccepted(d)
      BY <1>2 DEF IsAccepted
    <3>2. \A d \in Conns :
              phase[d] = "free" <=> ~IsAccepted(d) /\ d \notin ToSet(backlog)
      BY <1>1 DEF TypeOK
    <3> QED
      BY <1>2, <1>5, <3>1, <3>2
  <2> QED
    BY <1>1, <1>2, <2>1, <2>2 DEF TypeOK
<1>7. Places'
  <2>1. \A i, j \in DOMAIN backlog' : backlog'[i] = backlog'[j] => i = j
    <3>1. /\ DOMAIN backlog = 1 .. Len(backlog) /\ Len(backlog) \in Nat
          /\ DOMAIN backlog' = 1 .. Len(backlog) + 1
          /\ \A i \in 1 .. Len(backlog) : backlog'[i] = backlog[i]
          /\ backlog'[Len(backlog) + 1] = c
      BY <1>2, AppendIsASet
    <3>2. \A i \in 1 .. Len(backlog) + 1 :
              i \in 1 .. Len(backlog) \/ i = Len(backlog) + 1
      BY <3>1
    <3>3. \A i \in DOMAIN backlog : backlog[i] # c
      BY <1>5 DEF ToSet
    <3> QED
      BY <3>1, <3>2, <3>3, <1>1 DEF Places
  <2>2. \A fd \in Fds : fdOf'[fd] \notin ToSet(backlog')
    BY <1>1, <1>2, <1>5 DEF Places
  <2> QED
    BY <2>1, <2>2, <1>1, <1>2 DEF Places
<1>8. Batches'
  BY <1>1, <1>2 DEF Batches
<1>9. Boxes'
  BY <1>1, <1>2, <1>3 DEF Boxes, Box, Holds
<1>10. BacklogWaits' /\ NobodyVanished'
  BY <1>1, <1>2, <1>3, <1>5 DEF BacklogWaits, NobodyVanished
<1>11. Acknowledgements'
  BY <1>1, <1>2, <1>4, <1>5 DEF Acknowledgements, Acknowledged, Holds
<1>12. Events'
  BY <1>1, <1>2, <1>4, <1>5 DEF Events
<1>13. EventsAreForOpenSockets' /\ NoLostWakeup'
  BY <1>1, <1>2, <1>4 DEF EventsAreForOpenSockets, NoLostWakeup
<1>14. NoStaleStates' /\ OnlyQueriesEndTheServer'
  BY <1>1, <1>2, <1>4 DEF NoStaleStates, OnlyQueriesEndTheServer
<1>15. Agreement'
  <2>1. \A fd \in OpenFds : InStep(fd) => InStep(fd)'
    BY <1>2, <1>4, <1>5 DEF InStep
  <2> QED
    BY <2>1, <1>1, <1>2, <1>4 DEF Agreement
<1> QED
  BY <1>6, <1>7, <1>8, <1>9, <1>10, <1>11, <1>12, <1>13, <1>14, <1>15 DEF LoopInv

-----------------------------------------------------------------------------
(* A step of the server.                                                   *)

\* The steps of the loop itself only move events from the epoll set to the
\* batch.
LEMMA LoopMove ==
    ASSUME LoopInv, UNCHANGED <<states, fdOf, backlog, network, polite>>,
           loop' \in {"top", "waiting", "handling", "stopped", loop},
           loop \in {"exited", "killed"} => loop' = loop,
           stop' \in BOOLEAN, ready' \subseteq Fds,
           batch' \subseteq Fds \cup {ListenFd}, Batches',
           (ready' \cup batch') \ {ListenFd} = (ready \cup batch) \ {ListenFd},
           ready' \cap batch' \subseteq ready \cap batch
    PROVE  LoopInv'
<1> USE DEF server, sockets, network
<1>1. /\ TypeOK /\ Places /\ Batches /\ Boxes /\ BacklogWaits
      /\ Acknowledgements /\ Events
      /\ EventsAreForOpenSockets /\ NoLostWakeup
      /\ NoStaleStates /\ NobodyVanished /\ Agreement /\ OnlyQueriesEndTheServer
  BY DEF LoopInv
<1>2. OpenFds' = OpenFds /\ \A fd \in Fds : fd # ListenFd
  BY DEF OpenFds
<1>3. TypeOK'
  BY <1>1 DEF TypeOK, IsAccepted
<1>4. Places' /\ BacklogWaits' /\ NobodyVanished'
  BY <1>1 DEF Places, BacklogWaits, NobodyVanished
<1>5. Boxes'
  BY <1>1 DEF Boxes, Box, Holds
<1>6. Acknowledgements'
  BY <1>1 DEF Acknowledgements, Acknowledged, Holds
<1>7. \A fd \in Fds : fd \in ready' \cup batch' <=> fd \in ready \cup batch
  BY <1>2
<1>8. Events' /\ NoLostWakeup'
  BY <1>1, <1>2, <1>7 DEF Events, NoLostWakeup, OpenFds
<1>9. EventsAreForOpenSockets'
  BY <1>1, <1>2 DEF EventsAreForOpenSockets
<1>10. NoStaleStates' /\ OnlyQueriesEndTheServer'
  BY <1>1, <1>2 DEF NoStaleStates, OnlyQueriesEndTheServer
<1>11. Agreement'
  <2>1. \A fd \in OpenFds : InStep(fd) => InStep(fd)'
    BY DEF InStep, StateOf
  <2> QED
    BY <2>1, <1>1, <1>2 DEF Agreement
<1> QED
  BY <1>1, <1>3, <1>4, <1>5, <1>6, <1>8, <1>9, <1>10, <1>11 DEF LoopInv

LEMMA LoopSteps ==
    ASSUME LoopInv,
           \/ LoopTop \/ Wait \/ WaitTimeout \/ BatchDone \/ AcceptFails
           \/ StopServer \/ UNCHANGED vars
    PROVE  LoopInv'
<1> USE DEF server, sockets, network
<1>1. /\ ready \subseteq Fds /\ batch \subseteq Fds \cup {ListenFd}
      /\ stop \in BOOLEAN /\ Batches
  BY DEF LoopInv, TypeOK
<1>2. CASE LoopTop
  BY <1>1, <1>2, LoopMove DEF LoopTop, Batches
<1>3. CASE Wait
  <2>1. /\ batch = {} /\ ready' = {} /\ loop = "waiting" /\ loop' = "handling"
        /\ batch' = ready \cup (IF backlog = << >> THEN {} ELSE {ListenFd})
        /\ UNCHANGED <<stop, states, fdOf, backlog, network, polite>>
    BY <1>1, <1>3 DEF Wait, Batches
  <2>2. Batches'
    BY <2>1, <1>1 DEF Batches
  <2> QED
    BY <2>1, <2>2, <1>1, LoopMove
<1>4. CASE WaitTimeout
  BY <1>1, <1>4, LoopMove DEF WaitTimeout, Batches
<1>5. CASE BatchDone
  BY <1>1, <1>5, LoopMove DEF BatchDone, Batches
<1>6. CASE AcceptFails
  BY <1>1, <1>6, LoopMove DEF AcceptFails, Handling, Batches
<1>7. CASE StopServer
  BY <1>1, <1>7, LoopMove DEF StopServer, Batches
<1>8. CASE UNCHANGED vars
  BY <1>1, <1>8, LoopMove DEF vars, Batches
<1> QED
  BY <1>2, <1>3, <1>4, <1>5, <1>6, <1>7, <1>8

LEMMA AcceptStep ==
    ASSUME LoopInv, Accept
    PROVE  LoopInv'
<1> USE DEF network
<1>1. /\ TypeOK /\ Places /\ Batches /\ Boxes /\ BacklogWaits
      /\ Acknowledgements /\ Events
      /\ EventsAreForOpenSockets /\ NoLostWakeup
      /\ NoStaleStates /\ NobodyVanished /\ Agreement /\ OnlyQueriesEndTheServer
  BY DEF LoopInv
<1>2. /\ loop = "handling" /\ ListenFd \in batch /\ batch' = batch \ {ListenFd}
      /\ FreeFds # {} /\ backlog' = Tail(backlog)
      /\ UNCHANGED <<loop, stop, states, network, polite>>
  BY DEF Accept, Handling
<1>3. PICK fd \in Fds : fd = Min(FreeFds) /\ fdOf[fd] = None /\ fd # ListenFd
  BY <1>2, LowestFreeFd DEF FreeFds, OpenFds
<1>4. backlog # << >> /\ backlog \in Seq(Conns)
  BY <1>1, <1>2 DEF Batches, TypeOK
<1>5. PICK c \in Conns :
      /\ backlog' \in Seq(Conns) /\ c = Head(backlog)
      /\ ToSet(backlog) = ToSet(backlog') \cup {c}
      /\ c = backlog[1]
      /\ DOMAIN backlog' = 1 .. Len(backlog) - 1
      /\ \A i \in DOMAIN backlog' :
            i + 1 \in DOMAIN backlog /\ backlog'[i] = backlog[i + 1]
  BY <1>2, <1>4, TailIsASet
<1>6. /\ fdOf' = [fdOf EXCEPT ![fd] = c]
       /\ ready' = IF Readable(c) THEN ready \cup {fd} ELSE ready
  BY <1>3, <1>5 DEF Accept
<1>7. c \notin ToSet(backlog')
  <2>1. 1 \in DOMAIN backlog
    BY <1>4
  <2>2. \A i \in DOMAIN backlog' : i \in Nat \ {0}
    BY <1>4, <1>5
  <2>3. \A i \in DOMAIN backlog' : i + 1 # 1
    BY <2>2
  <2>4. \A i \in DOMAIN backlog' : backlog'[i] # c
    BY <2>1, <2>3, <1>1, <1>5 DEF Places
  <2> QED
    BY <2>4 DEF ToSet
<1>8. /\ c \in ToSet(backlog) /\ \A f \in Fds : fdOf[f] # c
      /\ phase[c] \in {"connected", "ssl", "gone"} /\ outbox[c] = << >>
      /\ c # None /\ phase[c] # "free"
      /\ polite => phase[c] # "gone"
  BY <1>1, <1>5 DEF Places, BacklogWaits, NobodyVanished
<1>9. /\ fdOf \in [Fds -> Conns \cup {None}]
      /\ fdOf' \in [Fds -> Conns \cup {None}]
      /\ fdOf'[fd] = c
      /\ \A f \in Fds \ {fd} : fdOf'[f] = fdOf[f]
      /\ OpenFds' = OpenFds \cup {fd} /\ fd \notin OpenFds
      /\ OpenFds \subseteq Fds
      /\ \A f \in Fds : StateOf(f)' = StateOf(f)
  BY <1>1, <1>2, <1>6, <1>3, <1>5, <1>8 DEF TypeOK, OpenFds, StateOf
<1>10. fd \notin ready \cup batch
  BY <1>1, <1>3, <1>9 DEF EventsAreForOpenSockets
<1>11. TypeOK'
  <2>1. ready' \subseteq Fds /\ batch' \subseteq Fds \cup {ListenFd}
    BY <1>1, <1>2, <1>6, <1>3 DEF TypeOK
  <2>2. \A d \in Conns : IsAccepted(d)' <=> IsAccepted(d) \/ d = c
    BY <1>3, <1>9, <1>5 DEF IsAccepted
  <2>3. \A d \in Conns :
            phase'[d] = "free" <=> ~IsAccepted(d)' /\ d \notin ToSet(backlog')
    BY <1>1, <1>2, <1>6, <1>5, <1>7, <1>8, <2>2 DEF TypeOK
  <2> QED
    BY <1>1, <1>2, <1>6, <1>5, <1>9, <2>1, <2>3 DEF TypeOK
<1>12. Places'
  <2>1. \A f, g \in Fds : fdOf'[f] = fdOf'[g] /\ fdOf'[f] # None => f = g
    BY <1>1, <1>8, <1>9 DEF Places
  <2>2. \A f \in Fds : fdOf'[f] \notin ToSet(backlog')
    BY <1>1, <1>5, <1>7, <1>9 DEF Places
  <2>3. \A i, j \in DOMAIN backlog' : backlog'[i] = backlog'[j] => i = j
    <3>1. \A i, j \in DOMAIN backlog' : backlog'[i] = backlog'[j] => i + 1 = j + 1
      BY <1>1, <1>5 DEF Places
    <3>2. \A i \in DOMAIN backlog' : i \in Nat
      BY <1>4, <1>5
    <3> QED
      BY <3>1, <3>2
  <2> QED
    BY <2>1, <2>2, <2>3 DEF Places
<1>13. Batches'
  BY <1>2 DEF Batches
<1>14. Boxes'
  BY <1>1, <1>2 DEF Boxes, Box, Holds
<1>15. BacklogWaits' /\ NobodyVanished'
  BY <1>1, <1>2, <1>6, <1>5 DEF BacklogWaits, NobodyVanished
<1>16. Acknowledgements'
  <2>1. states[fd] # "NoSSLAcknowledged"
    BY <1>1, <1>3 DEF Acknowledgements, Acknowledged
  <2> QED
    BY <2>1, <1>1, <1>2, <1>6, <1>9 DEF Acknowledgements, Acknowledged, Holds
<1>17. Readable(c) <=> inbox[c] # << >> \/ broken[c] # "open"
  BY DEF Readable
<1>18. phase[c] # "gone" => broken[c] = "open"
  BY <1>5, ClientFacts DEF Box
<1>19. Events'
  <2> SUFFICES ASSUME NEW f \in OpenFds', phase[fdOf'[f]] # "gone"
               PROVE  /\ f \in ready' \cup batch' => inbox[fdOf'[f]] # << >>
                      /\ ~(f \in ready' /\ f \in batch')
    BY <1>2 DEF Events
  <2>1. CASE f = fd
    BY <2>1, <1>2, <1>6, <1>9, <1>10, <1>17, <1>18
  <2>2. CASE f # fd
    BY <2>2, <1>1, <1>2, <1>6, <1>9 DEF Events
  <2> QED
    BY <2>1, <2>2
<1>20. EventsAreForOpenSockets'
  BY <1>1, <1>2, <1>6, <1>9 DEF EventsAreForOpenSockets
<1>21. NoLostWakeup'
  <2> SUFFICES ASSUME NEW f \in OpenFds', inbox[fdOf'[f]] # << >>
               PROVE  f \in ready' \cup batch'
    BY <1>2 DEF NoLostWakeup
  <2>1. CASE f = fd
    BY <2>1, <1>2, <1>6, <1>9, <1>17
  <2>2. CASE f # fd
    <3>1. f \in ready \cup batch /\ f # ListenFd
      BY <2>2, <1>1, <1>2, <1>6, <1>9 DEF NoLostWakeup
    <3> QED
      BY <3>1, <1>2, <1>6
  <2> QED
    BY <2>1, <2>2
<1>22. NoStaleStates' /\ OnlyQueriesEndTheServer'
  BY <1>1, <1>2, <1>6, <1>9 DEF NoStaleStates, OnlyQueriesEndTheServer
<1>23. Agreement'
  <2>1. \A f \in OpenFds : InStep(f) => InStep(f)'
    BY <1>2, <1>6, <1>9 DEF InStep
  <2>2. polite => InStep(fd)'
    <3> SUFFICES ASSUME polite PROVE InStep(fd)'
      OBVIOUS
    <3>1. StateOf(fd)' = "StartUp"
      BY <1>1, <1>3, <1>9 DEF NoStaleStates, StateOf
    <3>2. \/ phase[c] = "connected" /\ inbox[c] = << >>
          \/ phase[c] = "ssl" /\ inbox[c] = <<"ssl">>
      <4>1. Box(c) /\ phase[c] \in {"connected", "ssl"} /\ outbox[c] = << >>
        BY <1>8, ClientFacts
      <4> QED
        BY <4>1, OneMessage DEF Box, Holds
    <3> QED
      BY <3>1, <3>2, <1>2, <1>6, <1>8, <1>9 DEF InStep
  <2> QED
    BY <2>1, <2>2, <1>1, <1>2, <1>6, <1>9 DEF Agreement
<1> QED
  BY <1>11, <1>12, <1>13, <1>14, <1>15, <1>16, <1>19, <1>20, <1>21, <1>22, <1>23
     DEF LoopInv

\* What a handler knows of the connection it handles.
LEMMA HandledFacts ==
    ASSUME LoopInv, NEW fd \in OpenFds, Handling(fd)
    PROVE  /\ fd \in Fds /\ fd # ListenFd /\ fdOf[fd] \in Conns
           /\ fdOf[fd] # None /\ fdOf[fd] \notin ToSet(backlog)
           /\ \A f \in Fds : f # fd => fdOf[f] # fdOf[fd]
           /\ phase[fdOf[fd]] # "gone" =>
                 inbox[fdOf[fd]] # << >> /\ fd \notin ready
           /\ polite => InStep(fd)
           /\ states[fd] = "NoSSLAcknowledged" => Acknowledged(fd)
           /\ states[fd] \in SocketState \cup {None}
           /\ loop = "handling"
<1>1. fd \in Fds /\ fd # ListenFd /\ fdOf[fd] \in Conns /\ fdOf[fd] # None
  BY DEF OpenFds, LoopInv, TypeOK
<1>2. fd \in batch /\ loop = "handling"
  BY DEF Handling
<1> QED
  BY <1>1, <1>2 DEF LoopInv, Places, Events, Agreement, Acknowledgements, TypeOK

\* A handler that leaves the connection open.
LEMMA ServeMove ==
    ASSUME LoopInv, NEW fd \in OpenFds, Handling(fd),
           UNCHANGED <<stop, fdOf, backlog, phase, polite>>,
           NEW c \in Conns, c = fdOf[fd],
           NEW st \in SocketState \cup {None},
           NEW i \in Seq({"ssl", "startup", "query", "terminate"}),
           NEW o \in Seq({"N", "ready", "answer"}),
           NEW b \in {"open", "fin", "reset"},
           states' = [states EXCEPT ![fd] = st],
           inbox' = [inbox EXCEPT ![c] = i],
           outbox' = [outbox EXCEPT ![c] = o],
           broken' = [broken EXCEPT ![c] = b],
           loop' \in {loop, "exited", "killed"},
           i = << >> \/ loop' \in {"exited", "killed"},
           \/ ready' = ready
           \/ ready' = ready \cup {fd} /\ phase[c] = "gone",
           Box(c)',
           st = "NoSSLAcknowledged" => Acknowledged(fd)',
           polite => InStep(fd)' /\ loop' # "exited"
    PROVE  LoopInv'
<1>1. /\ TypeOK /\ Places /\ Batches /\ Boxes /\ BacklogWaits
      /\ Acknowledgements /\ Events
      /\ EventsAreForOpenSockets /\ NoLostWakeup
      /\ NoStaleStates /\ NobodyVanished /\ Agreement /\ OnlyQueriesEndTheServer
  BY DEF LoopInv
<1>2. /\ fd \in Fds /\ fd # ListenFd /\ c # None /\ c \notin ToSet(backlog)
      /\ \A f \in Fds : f # fd => fdOf[f] # c
      /\ phase[c] # "gone" => fd \notin ready
      /\ loop = "handling" /\ fd \in batch /\ batch' = batch \ {fd}
  BY HandledFacts DEF Handling
<1>3. /\ states'[fd] = st /\ inbox'[c] = i /\ outbox'[c] = o /\ broken'[c] = b
      /\ \A f \in Fds \ {fd} : states'[f] = states[f]
      /\ \A d \in Conns \ {c} :
            /\ phase'[d] = phase[d] /\ inbox'[d] = inbox[d]
            /\ outbox'[d] = outbox[d] /\ broken'[d] = broken[d]
  BY <1>1, <1>2 DEF TypeOK
<1>4. /\ fdOf \in [Fds -> Conns \cup {None}]
      /\ OpenFds' = OpenFds /\ OpenFds \subseteq Fds
      /\ \A f \in OpenFds : fdOf[f] \in Conns
      /\ \A f \in Fds \ {fd} : StateOf(f)' = StateOf(f)
  BY <1>1, <1>3 DEF TypeOK, OpenFds, StateOf
<1>5. ToSet(backlog) \subseteq Conns \ {c}
  BY <1>1, <1>2 DEF TypeOK, ToSet
<1>6. TypeOK'
  <2>1. \A d \in Conns : IsAccepted(d)' <=> IsAccepted(d)
    BY DEF IsAccepted
  <2>2. /\ loop' \in {"top", "waiting", "handling", "stopped", "exited", "killed"}
        /\ states' \in [Fds -> SocketState \cup {None}]
        /\ ready' \subseteq Fds
        /\ batch' \subseteq Fds \cup {ListenFd}
    BY <1>1, <1>2 DEF TypeOK
  <2>3. /\ inbox' \in [Conns -> Seq({"ssl", "startup", "query", "terminate"})]
        /\ outbox' \in [Conns -> Seq({"N", "ready", "answer"})]
        /\ broken' \in [Conns -> {"open", "fin", "reset"}]
    BY <1>1 DEF TypeOK
  <2> QED
    BY <1>1, <2>1, <2>2, <2>3 DEF TypeOK
<1>7. Places'
  BY <1>1 DEF Places
<1>8. Batches'
  BY <1>1, <1>2 DEF Batches
<1>9. Boxes'
  BY <1>1, <1>3 DEF Boxes, Box, Holds
<1>10. BacklogWaits' /\ NobodyVanished'
  BY <1>1, <1>3, <1>5 DEF BacklogWaits, NobodyVanished
<1>11. Acknowledgements'
  <2>1. \A f \in Fds \ {fd} : Acknowledged(f) => Acknowledged(f)'
    BY <1>1, <1>2, <1>3, <1>4 DEF Acknowledged, Holds
  <2> QED
    BY <2>1, <1>1, <1>3 DEF Acknowledgements
<1>12. Events'
  <2> SUFFICES ASSUME NEW f \in OpenFds, phase[fdOf[f]] # "gone"
               PROVE  /\ f \in ready' \cup batch' => inbox'[fdOf[f]] # << >>
                      /\ ~(f \in ready' /\ f \in batch')
    BY <1>4 DEF Events
  <2>1. CASE f = fd
    BY <2>1, <1>2
  <2>2. CASE f # fd
    BY <2>2, <1>1, <1>2, <1>3, <1>4 DEF Events
  <2> QED
    BY <2>1, <2>2
<1>13. EventsAreForOpenSockets'
  BY <1>1, <1>2, <1>4 DEF EventsAreForOpenSockets
<1>14. NoLostWakeup'
  <2> SUFFICES ASSUME loop' \notin {"exited", "killed"}, NEW f \in OpenFds,
                      inbox'[fdOf[f]] # << >>
               PROVE  f \in ready' \cup batch'
    BY <1>4 DEF NoLostWakeup
  <2>1. CASE f = fd
    BY <2>1, <1>3
  <2>2. CASE f # fd
    BY <2>2, <1>1, <1>2, <1>3, <1>4 DEF NoLostWakeup
  <2> QED
    BY <2>1, <2>2
<1>15. NoStaleStates' /\ OnlyQueriesEndTheServer'
  BY <1>1, <1>2, <1>3, <1>4 DEF NoStaleStates, OnlyQueriesEndTheServer
<1>16. Agreement'
  <2>1. \A f \in OpenFds \ {fd} : InStep(f) => InStep(f)'
    BY <1>2, <1>3, <1>4 DEF InStep
  <2> QED
    BY <2>1, <1>1, <1>4 DEF Agreement
<1> QED
  BY <1>6, <1>7, <1>8, <1>9, <1>10, <1>11, <1>12, <1>13, <1>14, <1>15, <1>16
     DEF LoopInv

\* A handler that closes the connection.
LEMMA CloseMove ==
    ASSUME LoopInv, NEW fd \in OpenFds, Handling(fd), Close(fd),
           UNCHANGED <<loop, stop, backlog, polite>>,
           NEW st \in SocketState \cup {None},
           states' = [states EXCEPT ![fd] = st],
           st # "NoSSLAcknowledged", polite => st = None
    PROVE  LoopInv'
<1>1. /\ TypeOK /\ Places /\ Batches /\ Boxes /\ BacklogWaits
      /\ Acknowledgements /\ Events
      /\ EventsAreForOpenSockets /\ NoLostWakeup
      /\ NoStaleStates /\ NobodyVanished /\ Agreement /\ OnlyQueriesEndTheServer
  BY DEF LoopInv
<1>2. PICK c \in Conns :
      /\ c = fdOf[fd]
      /\ fd \in Fds /\ fd # ListenFd /\ c # None /\ c \notin ToSet(backlog)
      /\ \A f \in Fds : f # fd => fdOf[f] # c
      /\ loop = "handling" /\ fd \in batch /\ batch' = batch \ {fd}
  BY HandledFacts DEF Handling
<1>3. /\ fdOf' = [fdOf EXCEPT ![fd] = None]
      /\ ready' = ready \ {fd}
      /\ phase' = [phase EXCEPT ![c] = "free"]
      /\ inbox' = [inbox EXCEPT ![c] = << >>]
      /\ outbox' = [outbox EXCEPT ![c] = << >>]
      /\ broken' = [broken EXCEPT ![c] = "open"]
  BY <1>2 DEF Close
<1>4. /\ states'[fd] = st /\ phase'[c] = "free" /\ inbox'[c] = << >>
      /\ outbox'[c] = << >> /\ broken'[c] = "open"
      /\ \A f \in Fds \ {fd} : states'[f] = states[f]
      /\ \A d \in Conns \ {c} :
            /\ phase'[d] = phase[d] /\ inbox'[d] = inbox[d]
            /\ outbox'[d] = outbox[d] /\ broken'[d] = broken[d]
  BY <1>1, <1>2, <1>3 DEF TypeOK
<1>5. /\ fdOf \in [Fds -> Conns \cup {None}]
      /\ fdOf' \in [Fds -> Conns \cup {None}]
      /\ fdOf'[fd] = None
      /\ \A f \in Fds \ {fd} : fdOf'[f] = fdOf[f]
      /\ OpenFds' = OpenFds \ {fd} /\ OpenFds \subseteq Fds
      /\ \A f \in OpenFds : fdOf[f] \in Conns
      /\ \A f \in Fds \ {fd} : StateOf(f)' = StateOf(f)
  BY <1>1, <1>2, <1>3, <1>4 DEF TypeOK, OpenFds, StateOf
<1>6. ToSet(backlog) \subseteq Conns \ {c}
  BY <1>1, <1>2 DEF TypeOK, ToSet
<1>7. TypeOK'
  <2>1. \A d \in Conns : IsAccepted(d)' <=> IsAccepted(d) /\ d # c
    BY <1>2, <1>5 DEF IsAccepted
  <2>2. /\ states' \in [Fds -> SocketState \cup {None}]
        /\ ready' \subseteq Fds
        /\ batch' \subseteq Fds \cup {ListenFd}
    BY <1>1, <1>2, <1>3 DEF TypeOK
  <2>3. /\ inbox' \in [Conns -> Seq({"ssl", "startup", "query", "terminate"})]
        /\ outbox' \in [Conns -> Seq({"N", "ready", "answer"})]
        /\ broken' \in [Conns -> {"open", "fin", "reset"}]
    BY <1>1, <1>3 DEF TypeOK
  <2>4. phase' \in [Conns -> Phases]
    BY <1>1, <1>3 DEF TypeOK, Phases
  <2>5. \A d \in Conns :
            phase'[d] = "free" <=> ~IsAccepted(d)' /\ d \notin ToSet(backlog')
    <3>1. /\ IsAccepted(c) /\ backlog' = backlog
          /\ \A d \in Conns :
                phase[d] = "free" <=> ~IsAccepted(d) /\ d \notin ToSet(backlog)
      BY <1>1, <1>2 DEF TypeOK, IsAccepted
    <3> QED
      BY <1>2, <1>4, <2>1, <3>1
  <2>6. /\ loop' \in {"top", "waiting", "handling", "stopped", "exited", "killed"}
        /\ stop' \in BOOLEAN /\ polite' \in BOOLEAN /\ backlog' \in Seq(Conns)
    BY <1>1 DEF TypeOK
  <2> QED
    BY <1>5, <2>2, <2>3, <2>4, <2>5, <2>6 DEF TypeOK
<1>8. Places'
  BY <1>1, <1>2, <1>5, <1>6 DEF Places
<1>9. Batches'
  BY <1>1, <1>2 DEF Batches
<1>10. Boxes'
  BY <1>1, <1>4 DEF Boxes, Box, Holds
<1>11. BacklogWaits' /\ NobodyVanished'
  BY <1>1, <1>4, <1>6 DEF BacklogWaits, NobodyVanished
<1>12. Acknowledgements'
  <2>1. \A f \in Fds \ {fd} : Acknowledged(f) => Acknowledged(f)'
    BY <1>1, <1>2, <1>4, <1>5 DEF Acknowledged, Holds
  <2> QED
    BY <2>1, <1>1, <1>4 DEF Acknowledgements
<1>13. Events' /\ NoLostWakeup'
  BY <1>1, <1>2, <1>3, <1>4, <1>5 DEF Events, NoLostWakeup
<1>14. EventsAreForOpenSockets'
  BY <1>1, <1>2, <1>3, <1>5 DEF EventsAreForOpenSockets
<1>15. NoStaleStates' /\ OnlyQueriesEndTheServer'
  BY <1>1, <1>2, <1>4, <1>5 DEF NoStaleStates, OnlyQueriesEndTheServer
<1>16. Agreement'
  <2>1. \A f \in OpenFds \ {fd} : InStep(f) => InStep(f)'
    BY <1>2, <1>4, <1>5 DEF InStep
  <2> QED
    BY <2>1, <1>1, <1>5 DEF Agreement
<1> QED
  BY <1>7, <1>8, <1>9, <1>10, <1>11, <1>12, <1>13, <1>14, <1>15, <1>16 DEF LoopInv

\* A client that is there gets the reply; one that is gone may cost the server
\* its life, and gets nothing.
Answered(fd, c, msg, o, b) ==
    /\ outbox' = [outbox EXCEPT ![c] = o]
    /\ broken' = [broken EXCEPT ![c] = b]
    /\ loop' \in {loop, "exited"}
    /\ \/ ready' = ready
       \/ ready' = ready \cup {fd} /\ phase[c] = "gone"
    /\ phase[c] # "gone" =>
          o = Append(outbox[c], msg) /\ b = "open" /\ loop' = loop
    /\ phase[c] = "gone" => o = << >> /\ b # "open"

LEMMA ReplyOutcome ==
    ASSUME LoopInv, NEW fd \in OpenFds, NEW c \in Conns, c = fdOf[fd],
           NEW msg \in {"N", "ready", "answer"}, Reply(c, msg)
    PROVE  \E o \in Seq({"N", "ready", "answer"}), b \in {"open", "fin", "reset"} :
              Answered(fd, c, msg, o, b)
<1> USE DEF Answered
<1>1. /\ Box(c)
      /\ outbox[c] \in Seq({"N", "ready", "answer"})
      /\ broken[c] \in {"open", "fin", "reset"}
      /\ outbox = [outbox EXCEPT ![c] = outbox[c]]
      /\ broken = [broken EXCEPT ![c] = broken[c]]
  BY ClientFacts
<1>2. /\ phase[c] # "gone" => broken[c] = "open"
      /\ phase[c] = "gone" => outbox[c] = << >> /\ broken[c] # "open"
  BY <1>1 DEF Box, Holds
<1>3. Watched(c) = {fd}
  BY DEF LoopInv, Places, Watched, OpenFds
<1>4. CASE broken[c] = "open"
  <2>1. Append(outbox[c], msg) \in Seq({"N", "ready", "answer"})
    BY <1>1
  <2>2. /\ outbox' = [outbox EXCEPT ![c] = Append(outbox[c], msg)]
        /\ broken' = [broken EXCEPT ![c] = "open"]
        /\ ready' = ready /\ loop' = loop
    BY <1>4, <1>1 DEF Reply
  <2>3. phase[c] # "gone"
    BY <1>4, <1>2
  <2> QED
    BY <2>1, <2>2, <2>3
<1>5. CASE broken[c] = "fin"
  <2>1. /\ outbox' = [outbox EXCEPT ![c] = outbox[c]]
        /\ broken' = [broken EXCEPT ![c] = "reset"]
        /\ ready' = ready \cup {fd} /\ loop' = loop
    BY <1>5, <1>1, <1>3 DEF Reply, Raise
  <2>2. phase[c] = "gone" /\ outbox[c] = << >>
    BY <1>5, <1>2
  <2> QED
    BY <1>1, <2>1, <2>2
<1>6. CASE broken[c] = "reset"
  <2>1. /\ outbox' = [outbox EXCEPT ![c] = outbox[c]]
        /\ broken' = [broken EXCEPT ![c] = broken[c]]
        /\ ready' = ready /\ loop' = "exited"
    BY <1>6, <1>1 DEF Reply
  <2>2. phase[c] = "gone" /\ outbox[c] = << >>
    BY <1>6, <1>2
  <2> QED
    BY <1>1, <1>6, <2>1, <2>2
<1> QED
  BY <1>1, <1>4, <1>5, <1>6

\* A handler that changes nothing but, perhaps, the state it keeps.
LEMMA LeaveMove ==
    ASSUME LoopInv, NEW fd \in OpenFds, Handling(fd),
           UNCHANGED <<stop, fdOf, backlog, ready, phase, polite>>,
           UNCHANGED <<inbox, outbox, broken>>,
           NEW st \in SocketState \cup {None},
           states' = [states EXCEPT ![fd] = st],
           loop' \in {loop, "exited", "killed"},
           inbox[fdOf[fd]] = << >> \/ loop' \in {"exited", "killed"},
           st = "NoSSLAcknowledged" => Acknowledged(fd),
           polite => loop' # "exited" /\ states' = states
    PROVE  LoopInv'
<1>1. PICK c \in Conns : c = fdOf[fd]
  BY HandledFacts
<1>2. /\ Box(c)
      /\ inbox[c] \in Seq({"ssl", "startup", "query", "terminate"})
      /\ outbox[c] \in Seq({"N", "ready", "answer"})
      /\ broken[c] \in {"open", "fin", "reset"}
      /\ inbox' = [inbox EXCEPT ![c] = inbox[c]]
      /\ outbox' = [outbox EXCEPT ![c] = outbox[c]]
      /\ broken' = [broken EXCEPT ![c] = broken[c]]
  BY ClientFacts
<1>3. Box(c)'
  BY <1>2 DEF Box, Holds
<1>4. st = "NoSSLAcknowledged" => Acknowledged(fd)'
  BY DEF Acknowledged, Holds
<1>5. /\ inbox[c] = << >> \/ loop' \in {"exited", "killed"}
      /\ polite => InStep(fd)' /\ loop' # "exited"
  BY <1>1, HandledFacts DEF InStep, StateOf
<1> DEFINE i == inbox[c]
           o == outbox[c]
           b == broken[c]
<1>6. /\ i \in Seq({"ssl", "startup", "query", "terminate"})
      /\ o \in Seq({"N", "ready", "answer"})
      /\ b \in {"open", "fin", "reset"}
      /\ inbox' = [inbox EXCEPT ![c] = i]
      /\ outbox' = [outbox EXCEPT ![c] = o]
      /\ broken' = [broken EXCEPT ![c] = b]
      /\ i = << >> \/ loop' \in {"exited", "killed"}
  BY <1>2, <1>5
<1> HIDE DEF i, o, b
<1> QED
  BY <1>1, <1>3, <1>4, <1>5, <1>6, ServeMove

LEMMA HandleStartUpStep ==
    ASSUME LoopInv, NEW fd \in OpenFds, HandleStartUp(fd)
    PROVE  LoopInv'
<1> USE DEF Answered
<1>1. PICK c \in Conns : c = fdOf[fd]
  BY HandledFacts DEF HandleStartUp
<1>2. /\ Handling(fd) /\ StateOf(fd) = "StartUp"
      /\ UNCHANGED <<stop, fdOf, backlog, phase, polite>>
  BY DEF HandleStartUp
<1>3. /\ Box(c) /\ fdOf[fd] # None
      /\ phase[c] # "gone" => inbox[c] # << >>
      /\ polite => InStep(fd)
  BY <1>1, <1>2, HandledFacts, ClientFacts
<1>4. polite => phase[c] = "ssl" /\ inbox[c] = <<"ssl">>
  BY <1>1, <1>2, <1>3 DEF InStep
<1>5. CASE FirstMessage(c) = "ssl"
  <2>1. /\ inbox' = [inbox EXCEPT ![c] = Tail(inbox[c])]
        /\ Reply(c, "N")
        /\ states' = [states EXCEPT ![fd] = "NoSSLAcknowledged"]
    BY <1>1, <1>5, ClientFacts DEF HandleStartUp
  <2>2. inbox[c] # << >> /\ Head(inbox[c]) = "ssl"
    BY <1>5 DEF FirstMessage
  <2>3. /\ phase[c] = "gone" \/ (phase[c] = "ssl" /\ outbox[c] = << >>)
        /\ Tail(inbox[c]) = << >>
    <3>1. CASE phase[c] = "gone"
      <4>1. PICK m : inbox[c] = <<m>>
        BY <2>2, <1>3, <3>1 DEF Box, Holds
      <4> QED
        BY <3>1, <4>1, OneMessage
    <3>2. CASE phase[c] # "gone"
      <4>1. \A m \in {"startup", "query", "terminate"} :
                inbox[c] # <<m>>
        BY <2>2, OneMessage
      <4>2. Holds(c, "ssl", <<"ssl">>, << >>)
        BY <2>2, <1>3, <3>2, <4>1 DEF Box, Holds
      <4> QED
        BY <4>2, OneMessage DEF Holds
    <3> QED
      BY <3>1, <3>2
  <2>4. PICK o \in Seq({"N", "ready", "answer"}), b \in {"open", "fin", "reset"} :
            Answered(fd, c, "N", o, b)
    BY <1>1, <2>1, ReplyOutcome
  <2>5. phase[c] # "gone" => o = <<"N">>
    BY <2>3, <2>4, OneMessage
  <2>6. /\ phase'[c] = phase[c] /\ inbox'[c] = << >> /\ outbox'[c] = o
        /\ broken'[c] = b /\ inbox' = [inbox EXCEPT ![c] = << >>]
        /\ StateOf(fd)' = "NoSSLAcknowledged"
    BY <1>2, <2>1, <2>3, <2>4, ClientFacts DEF StateOf, LoopInv, TypeOK, OpenFds, SocketState
  <2>7. Box(c)'
    BY <2>3, <2>4, <2>5, <2>6 DEF Box, Holds
  <2>8. Acknowledged(fd)'
    BY <1>1, <1>2, <1>3, <2>3, <2>5, <2>6 DEF Acknowledged, Holds
  <2>9. polite => InStep(fd)' /\ loop' # "exited"
    <3>1. polite => phase[c] # "gone" /\ loop' = "handling"
      BY <1>2, <1>4, <2>4, HandledFacts
    <3> QED
      BY <3>1, <1>1, <1>2, <2>3, <2>5, <2>6 DEF InStep
  <2>10. << >> \in Seq({"ssl", "startup", "query", "terminate"})
    OBVIOUS
  <2>11. "NoSSLAcknowledged" \in SocketState \cup {None}
    BY DEF SocketState
  <2> QED
    BY <1>1, <1>2, <2>1, <2>4, <2>6, <2>7, <2>8, <2>9, <2>10, <2>11, ServeMove
<1>6. CASE FirstMessage(c) # "ssl"
  <2>1. /\ loop' = "exited" /\ states' = [states EXCEPT ![fd] = "StartUp"]
        /\ UNCHANGED <<inbox, outbox, broken, ready>>
    BY <1>1, <1>6 DEF HandleStartUp
  <2>2. ~polite
    BY <1>4, <1>6, OneMessage DEF FirstMessage
  <2>3. "StartUp" \in SocketState \cup {None}
    BY DEF SocketState
  <2> QED
    BY <1>2, <2>1, <2>2, <2>3, LeaveMove
<1> QED
  BY <1>5, <1>6

LEMMA HandleNoSSLStep ==
    ASSUME LoopInv, NEW fd \in OpenFds, HandleNoSSL(fd)
    PROVE  LoopInv'
<1> USE DEF Answered
<1>1. PICK c \in Conns : c = fdOf[fd]
  BY HandledFacts DEF HandleNoSSL
<1>2. /\ Handling(fd) /\ states[fd] = "NoSSLAcknowledged"
      /\ UNCHANGED <<stop, fdOf, backlog, phase, polite>>
  BY DEF HandleNoSSL
<1>3. /\ Box(c) /\ fdOf[fd] # None /\ fd \in Fds
      /\ phase[c] # "gone" => inbox[c] # << >>
      /\ polite => InStep(fd)
      /\ Acknowledged(fd)
  BY <1>1, <1>2, HandledFacts, ClientFacts
<1>4. StateOf(fd) = "NoSSLAcknowledged"
  BY <1>2 DEF StateOf, SocketState
<1>5. /\ \/ phase[c] = "gone"
         \/ phase[c] = "startup" /\ inbox[c] = <<"startup">> /\ outbox[c] = << >>
      /\ polite => phase[c] # "gone"
  BY <1>1, <1>3, <1>4 DEF Acknowledged, Holds, InStep
<1>6. CASE inbox[c] = << >> /\ broken[c] # "fin"
            /\ UNCHANGED <<loop, states, ready, inbox, outbox, broken>>
  <2>1. phase[c] = "gone" /\ ~polite
    BY <1>5, <1>6, OneMessage
  <2>2. /\ states' = [states EXCEPT ![fd] = "NoSSLAcknowledged"]
        /\ "NoSSLAcknowledged" \in SocketState \cup {None}
    BY <1>2, <1>6 DEF LoopInv, TypeOK, SocketState
  <2>3. inbox[fdOf[fd]] = << >> /\ loop' = loop
    BY <1>1, <1>6
  <2> QED
    BY <1>2, <1>3, <1>6, <2>1, <2>2, <2>3, LeaveMove
<1>7. CASE /\ inbox' = [inbox EXCEPT ![c] = << >>]
           /\ Reply(c, "ready")
           /\ states' = [states EXCEPT ![fd] = "ReadyForQuery"]
  <2>1. PICK o \in Seq({"N", "ready", "answer"}), b \in {"open", "fin", "reset"} :
            Answered(fd, c, "ready", o, b)
    BY <1>1, <1>7, ReplyOutcome
  <2>2. phase[c] # "gone" => phase[c] = "startup" /\ o = <<"ready">>
    BY <1>5, <2>1, OneMessage
  <2>3. /\ phase'[c] = phase[c] /\ inbox'[c] = << >> /\ outbox'[c] = o
        /\ broken'[c] = b
    BY <1>2, <1>7, <2>1, ClientFacts
  <2>4. StateOf(fd)' = "ReadyForQuery"
    BY <1>3, <1>7 DEF StateOf, LoopInv, TypeOK, SocketState
  <2>5. Box(c)'
    BY <2>1, <2>2, <2>3 DEF Box, Holds
  <2>6. polite => InStep(fd)' /\ loop' # "exited"
    <3>1. polite => phase[c] # "gone" /\ loop' = "handling"
      BY <1>2, <1>5, <2>1, HandledFacts
    <3> QED
      BY <3>1, <1>1, <1>2, <2>2, <2>3, <2>4 DEF InStep
  <2>7. /\ << >> \in Seq({"ssl", "startup", "query", "terminate"})
        /\ "ReadyForQuery" \in SocketState \cup {None}
        /\ "ReadyForQuery" # "NoSSLAcknowledged"
    BY DEF SocketState
  <2> QED
    BY <1>1, <1>2, <1>7, <2>1, <2>5, <2>6, <2>7, ServeMove
<1> QED
  BY <1>1, <1>6, <1>7 DEF HandleNoSSL

\* A query that is answered.
LEMMA AnswerStep ==
    ASSUME LoopInv, NEW fd \in OpenFds, HandleQuery(fd), loop' # "killed"
    PROVE  LoopInv'
<1> USE DEF Answered
<1>1. PICK c \in Conns : c = fdOf[fd]
  BY HandledFacts DEF HandleQuery
<1>2. /\ Handling(fd) /\ states[fd] = "ReadyForQuery"
      /\ inbox' = [inbox EXCEPT ![c] = << >>]
      /\ Reply(c, "answer")
      /\ UNCHANGED <<stop, states, fdOf, backlog, phase, polite>>
  BY <1>1 DEF HandleQuery
<1>3. /\ Box(c) /\ polite => InStep(fd)
  BY <1>1, <1>2, HandledFacts, ClientFacts
<1>4. StateOf(fd) = "ReadyForQuery" /\ StateOf(fd)' = "ReadyForQuery"
  BY <1>2 DEF StateOf, SocketState
<1>5. inbox[c] # << >> /\ Head(inbox[c]) = "query"
  BY <1>1 DEF HandleQuery, FirstMessage
<1>6. Box(c)
  BY ClientFacts
<1>7. phase[c] = "gone" \/ (phase[c] = "query" /\ outbox[c] = << >>)
  BY <1>5, <1>6, OneMessage DEF Box, Holds
<1>8. polite => phase[c] # "gone"
  <2>1. polite => InStep(fd)
    BY <1>2, HandledFacts
  <2> QED
    BY <2>1, <1>1, <1>4, <1>5, OneMessage DEF InStep
<1>9. PICK o \in Seq({"N", "ready", "answer"}), b \in {"open", "fin", "reset"} :
            Answered(fd, c, "answer", o, b)
  BY <1>1, <1>2, ReplyOutcome
<1>10. phase[c] # "gone" => phase[c] = "query" /\ o = <<"answer">>
  BY <1>7, <1>9, OneMessage
<1>11. /\ phase'[c] = phase[c] /\ inbox'[c] = << >> /\ outbox'[c] = o
       /\ broken'[c] = b
  BY <1>2, <1>9, ClientFacts
<1>12. Box(c)'
  BY <1>9, <1>10, <1>11 DEF Box, Holds
<1>13. polite => InStep(fd)' /\ loop' # "exited"
  <2>1. polite => phase[c] # "gone" /\ loop' = "handling"
    BY <1>2, <1>8, <1>9, HandledFacts
  <2> QED
    BY <2>1, <1>1, <1>2, <1>4, <1>10, <1>11 DEF InStep
<1>14. /\ << >> \in Seq({"ssl", "startup", "query", "terminate"})
       /\ "ReadyForQuery" \in SocketState \cup {None}
       /\ "ReadyForQuery" # "NoSSLAcknowledged"
       /\ states' = [states EXCEPT ![fd] = "ReadyForQuery"]
  BY <1>2 DEF SocketState, LoopInv, TypeOK
<1> QED
  BY <1>1, <1>2, <1>9, <1>12, <1>13, <1>14, ServeMove

\* A query that ends the process.
LEMMA KillStep ==
    ASSUME LoopInv, NEW fd \in OpenFds, HandleQuery(fd), loop' = "killed"
    PROVE  LoopInv'
<1>1. Handling(fd) /\ states[fd] = "ReadyForQuery" /\ loop = "handling"
  BY DEF HandleQuery, Handling
<1>2. PICK c \in Conns : c = fdOf[fd]
  BY <1>1, HandledFacts
<1>3. ~Reply(c, "answer")
  BY <1>1 DEF Reply
<1>4. UNCHANGED <<stop, states, fdOf, backlog, ready, phase, polite,
                  inbox, outbox, broken>>
  BY <1>2, <1>3 DEF HandleQuery
<1>5. /\ states' = [states EXCEPT ![fd] = "ReadyForQuery"]
      /\ "ReadyForQuery" \in SocketState \cup {None}
      /\ "ReadyForQuery" # "NoSSLAcknowledged"
  BY <1>1, <1>4 DEF SocketState, LoopInv, TypeOK
<1> QED
  BY <1>1, <1>4, <1>5, LeaveMove

LEMMA HandleQueryStep ==
    ASSUME LoopInv, NEW fd \in OpenFds, HandleQuery(fd)
    PROVE  LoopInv'
  BY AnswerStep, KillStep

LEMMA HandleTerminateStep ==
    ASSUME LoopInv, NEW fd \in OpenFds, HandleTerminate(fd)
    PROVE  LoopInv'
<1>1. /\ Handling(fd) /\ Close(fd) /\ states' = [states EXCEPT ![fd] = None]
      /\ UNCHANGED <<loop, stop, backlog, polite>>
  BY DEF HandleTerminate
<1>2. None # "NoSSLAcknowledged"
  BY DEF SocketState
<1> QED
  BY <1>1, <1>2, CloseMove

LEMMA HandleClosedStep ==
    ASSUME LoopInv, NEW fd \in OpenFds, HandleClosed(fd)
    PROVE  LoopInv' /\ phase[fdOf[fd]] = "gone"
<1>1. PICK c \in Conns : c = fdOf[fd]
  BY HandledFacts DEF HandleClosed
<1>2. /\ Handling(fd) /\ Close(fd) /\ states[fd] = "ReadyForQuery"
      /\ UNCHANGED <<loop, stop, states, backlog, polite>>
      /\ FirstMessage(c) = "nothing"
  BY <1>1 DEF HandleClosed
<1>3. /\ phase[c] # "gone" => inbox[c] # << >>
      /\ polite => InStep(fd)
      /\ Box(c)
  BY <1>1, <1>2, HandledFacts, ClientFacts
<1>4. inbox[c] \in Seq({"ssl", "startup", "query", "terminate"})
  BY ClientFacts
<1>5. inbox[c] = << >>
  <2>1. ASSUME inbox[c] # << >> PROVE FALSE
    <3>1. Head(inbox[c]) \in {"ssl", "startup", "query", "terminate"}
      BY <2>1, <1>4
    <3> QED
      BY <2>1, <3>1, <1>2 DEF FirstMessage
  <2> QED
    BY <2>1
<1>6. phase[c] = "gone"
  BY <1>3, <1>5
<1>7. StateOf(fd) = "ReadyForQuery"
  BY <1>2 DEF StateOf, SocketState
<1>8. ~polite
  BY <1>1, <1>3, <1>5, <1>6, <1>7, OneMessage DEF InStep
<1>9. /\ states' = [states EXCEPT ![fd] = "ReadyForQuery"]
      /\ "ReadyForQuery" \in SocketState \cup {None}
      /\ "ReadyForQuery" # "NoSSLAcknowledged"
  BY <1>2 DEF SocketState, LoopInv, TypeOK
<1> QED
  BY <1>1, <1>2, <1>6, <1>8, <1>9, CloseMove

LEMMA HandleUnknownStep ==
    ASSUME LoopInv, NEW fd \in OpenFds, HandleUnknown(fd)
    PROVE  LoopInv'
<1>1. PICK c \in Conns : c = fdOf[fd]
  BY HandledFacts DEF HandleUnknown
<1>2. /\ Handling(fd) /\ states[fd] = "ReadyForQuery" /\ loop' = "exited"
      /\ UNCHANGED <<stop, states, sockets, network, polite>>
      /\ FirstMessage(c) \notin {"query", "terminate", "nothing"}
  BY <1>1 DEF HandleUnknown
<1>3. polite => InStep(fd)
  BY <1>2, HandledFacts
<1>4. phase[c] # "gone" => inbox[c] # << >>
  BY <1>1, <1>2, HandledFacts
<1>5. StateOf(fd) = "ReadyForQuery"
  BY <1>2 DEF StateOf, SocketState
<1>6. /\ inbox[c] # << >>
      /\ inbox[c] # <<"query">> /\ inbox[c] # <<"terminate">>
  BY <1>2, OneMessage DEF FirstMessage
<1>7. ~polite
  BY <1>1, <1>3, <1>5, <1>6 DEF InStep
<1>8. /\ states' = [states EXCEPT ![fd] = "ReadyForQuery"]
      /\ "ReadyForQuery" \in SocketState \cup {None}
      /\ "ReadyForQuery" # "NoSSLAcknowledged"
  BY <1>2 DEF SocketState, LoopInv, TypeOK
<1> QED
  BY <1>2, <1>7, <1>8, LeaveMove DEF sockets, network

-----------------------------------------------------------------------------
(* The invariant.                                                          *)

LEMMA LoopInvInit == Init => LoopInv
<1> SUFFICES ASSUME Init PROVE LoopInv
  OBVIOUS
<1> USE DEF Init
<1>1. OpenFds = {} /\ ToSet(backlog) = {}
  BY DEF OpenFds, ToSet
<1>2. TypeOK
  <2>1. \A c \in Conns : ~IsAccepted(c)
    BY DEF IsAccepted
  <2>2. << >> \in Seq({"ssl", "startup", "query", "terminate"})
    OBVIOUS
  <2>3. << >> \in Seq({"N", "ready", "answer"}) /\ << >> \in Seq(Conns)
    OBVIOUS
  <2> QED
    BY <1>1, <2>1, <2>2, <2>3 DEF TypeOK, Phases
<1>3. Places
  BY <1>1 DEF Places
<1>4. Batches /\ BacklogWaits
  BY <1>1 DEF Batches, BacklogWaits
<1>5. Boxes
  BY DEF Boxes, Box, Holds
<1>6. Acknowledgements
  BY DEF Acknowledgements, SocketState
<1>7. Events /\ EventsAreForOpenSockets /\ NoLostWakeup
  BY <1>1 DEF Events, EventsAreForOpenSockets, NoLostWakeup
<1>8. NoStaleStates /\ NobodyVanished /\ Agreement /\ OnlyQueriesEndTheServer
  BY <1>1 DEF NoStaleStates, NobodyVanished, Agreement, OnlyQueriesEndTheServer
<1> QED
  BY <1>2, <1>3, <1>4, <1>5, <1>6, <1>7, <1>8 DEF LoopInv

LEMMA LoopInvNext == LoopInv /\ [Next]_vars => LoopInv'
<1> SUFFICES ASSUME LoopInv, [Next]_vars PROVE LoopInv'
  OBVIOUS
<1>1. CASE LoopTop \/ Wait \/ WaitTimeout \/ BatchDone \/ AcceptFails
           \/ StopServer \/ UNCHANGED vars
  BY <1>1, LoopSteps
<1>2. CASE Accept
  BY <1>2, AcceptStep
<1>3. ASSUME NEW fd \in OpenFds, HandleConnection(fd)
      PROVE  LoopInv'
  BY <1>3, HandleStartUpStep, HandleNoSSLStep, HandleQueryStep,
     HandleTerminateStep, HandleClosedStep, HandleUnknownStep DEF HandleConnection
<1>4. ASSUME NEW c \in Conns, ClientStep(c)
      PROVE  LoopInv'
  BY <1>4, ConnectStep, RequestSSLStep, StartUpStep, ReadStep, AskStep,
     TerminateStep, HangUpStep, VanishStep DEF ClientStep, ClientReads
<1> QED
  BY <1>1, <1>2, <1>3, <1>4 DEF Next, ServerStep

LEMMA LoopInvHolds == Spec => []LoopInv
  BY LoopInvInit, LoopInvNext, PTL DEF Spec

\* Every connection is in one place: not there, once in the backlog or open on
\* one descriptor, with the types the loop and its clients rely on.
THEOREM LoopTypes == Spec => []TypeOK
<1>1. LoopInv => TypeOK
  BY DEF LoopInv
<1> QED
  BY <1>1, LoopInvHolds, PTL

\* While clients keep to the protocol the SocketsManager is in step with each of
\* them and sends it exactly the message it waits for.
THEOREM ServerKeepsInStep == Spec => []Agreement
<1>1. LoopInv => Agreement
  BY DEF LoopInv
<1> QED
  BY <1>1, LoopInvHolds, PTL

\* While clients keep to the protocol, the process ends only inside handle_query:
\* neither the start-up, nor a message type, nor a send to a client that is gone
\* ends it.
THEOREM OnlyQueriesKill == Spec => []OnlyQueriesEndTheServer
<1>1. LoopInv => OnlyQueriesEndTheServer
  BY DEF LoopInv
<1> QED
  BY <1>1, LoopInvHolds, PTL

\* One recv per edge is enough: no message stays in a receive buffer without an
\* event that will have it read, whatever clients do.
THEOREM EveryMessageHasItsEvent == Spec => []NoLostWakeup
<1>1. LoopInv => NoLostWakeup
  BY DEF LoopInv
<1> QED
  BY <1>1, LoopInvHolds, PTL

\* Descriptors are closed and reused while a batch is handled, and still no event
\* of the batch is for a descriptor that is closed.
THEOREM EventsStayOnOpenSockets == Spec => []EventsAreForOpenSockets
<1>1. LoopInv => EventsAreForOpenSockets
  BY DEF LoopInv
<1> QED
  BY <1>1, LoopInvHolds, PTL

LEMMA OnlyGoneAreClosedNext ==
    ASSUME LoopInv, [Next]_vars, NEW c \in Conns, IsAccepted(c), ~IsAccepted(c)'
    PROVE  phase[c] \in {"closing", "gone"}
<1>1. PICK fd \in Fds : fdOf[fd] = c /\ fdOf'[fd] # c
  BY DEF IsAccepted
<1>2. /\ fd \in OpenFds /\ fdOf' # fdOf
      /\ fdOf \in [Fds -> Conns \cup {None}]
  BY <1>1 DEF OpenFds, LoopInv, TypeOK
<1>3. ASSUME Accept PROVE FALSE
  <2>1. FreeFds # {} /\ fdOf' = [fdOf EXCEPT ![Min(FreeFds)] = Head(backlog)]
    BY <1>3 DEF Accept
  <2>2. fd # Min(FreeFds)
    BY <1>2, <2>1, LowestFreeFd DEF FreeFds
  <2> QED
    BY <1>1, <1>2, <2>1, <2>2
<1>4. PICK g \in OpenFds : HandleTerminate(g) \/ HandleClosed(g)
  <2>1. \A d \in Conns : ~ClientStep(d)
    BY <1>2 DEF ClientStep, Connect, RequestSSL, ClientReads, StartUp, BecomeReady,
                ReadAnswer, Ask, Terminate, HangUp, Vanish, server, sockets
  <2>2. ~(LoopTop \/ Wait \/ WaitTimeout \/ BatchDone \/ AcceptFails
          \/ StopServer \/ UNCHANGED vars)
    BY <1>2 DEF LoopTop, Wait, WaitTimeout, BatchDone, AcceptFails, StopServer,
                vars, sockets
  <2>3. \A g \in OpenFds : ~(HandleStartUp(g) \/ HandleNoSSL(g) \/ HandleQuery(g)
                              \/ HandleUnknown(g))
    BY <1>2 DEF HandleStartUp, HandleNoSSL, HandleQuery, HandleUnknown, sockets
  <2> QED
    BY <1>3, <2>1, <2>2, <2>3 DEF Next, ServerStep, HandleConnection
<1>5. g \in Fds /\ fdOf' = [fdOf EXCEPT ![g] = None]
  BY <1>4 DEF HandleTerminate, HandleClosed, Close, OpenFds
<1>6. g = fd
  BY <1>1, <1>2, <1>5
<1>7. CASE HandleTerminate(g)
  <2>1. FirstMessage(c) = "terminate" /\ Box(c)
    BY <1>1, <1>6, <1>7, ClientFacts DEF HandleTerminate
  <2>2. inbox[c] # << >> /\ Head(inbox[c]) = "terminate"
    BY <2>1 DEF FirstMessage
  <2> QED
    BY <2>1, <2>2, OneMessage DEF Box, Holds
<1>8. CASE HandleClosed(g)
  BY <1>1, <1>6, <1>8, HandledFacts, HandleClosedStep
<1> QED
  BY <1>4, <1>7, <1>8

\* The server closes only connections of clients that are gone or leaving: an
\* event of an old connection is never taken for one of the connection that got
\* its descriptor.
THEOREM ServerClosesTheGone == Spec => OnlyGoneClientsAreClosed
<1>1. LoopInv /\ [Next]_vars =>
          [\A c \in Conns : IsAccepted(c) /\ ~IsAccepted(c)'
              => phase[c] \in {"closing", "gone"}]_vars
  BY OnlyGoneAreClosedNext
<1> QED
  BY <1>1, LoopInvHolds, PTL DEF Spec, OnlyGoneClientsAreClosed
=============================================================================

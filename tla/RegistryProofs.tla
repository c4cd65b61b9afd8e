--------------------------- MODULE RegistryProofs ---------------------------
(***************************************************************************)
(* Registry, proved for any set of servers, any arguments and any number   *)
(* of retries, crashes and lost calls.                                     *)
(*                                                                         *)
(* RegistryInv is inductive.  Beside the properties it says where the      *)
(* requests and the answers on their way come from, and what the state of  *)
(* a caller tells of them.  There is one lemma for each action; a process  *)
(* that ends is Die, with or without the bound of Crash.                   *)
(***************************************************************************)
EXTENDS Registry, FiniteSetTheorems, TLAPS

\* A request on its way was made by its sender to the address it was told,
\* and the process it is on its way to is the one it was made to.
RequestsAreMade ==
    \A c \in calls :
        c.to = Peer[c.from] /\ c.number <= sent[c.from] /\ Up(c.to)

\* An answer is of the running process of the peer, which lists the call.
AnswersAreBacked ==
    \A r \in replies :
        /\ r.call.to = Peer[r.call.from] /\ Up(r.call.to)
        /\ r.epoch = epoch[r.call.to]
        /\ \E i \in DOMAIN peers[r.call.to] : peers[r.call.to][i] = r.call

\* An acknowledgement is of a run of the peer that there was.
AcksAreOfARun ==
    \A s \in Servers :
        client[s] = "ok" =>
            Peer[s] \in Servers /\ ackedIn[s] <= epoch[Peer[s]]

\* Only a running server has called, and only one that joins waits for an
\* answer; as long as no call was lost the answer or the request is there when
\* the peer is the server itself.
WaitersJoin ==
    \A s \in Servers :
        /\ client[s] # "none" => phase[s] # "down"
        /\ client[s] = "waiting" => phase[s] = "joining"

OwnCallsArrive ==
    \A s \in Servers :
        Peer[s] = s /\ losses = 0 /\ client[s] = "waiting" => ~Lost(s)

\* As long as nothing went wrong, all there is of a server is its last call.
LastCallOnly ==
    losses = 0 /\ crashes = 0 =>
        \A s \in Servers :
            /\ \A c \in calls :
                  c.from = s => client[s] = "waiting" /\ c.number = sent[s]
            /\ \A r \in replies :
                  r.call.from = s =>
                      client[s] = "waiting" /\ r.call.number = sent[s]
            /\ \A t \in Servers : \A i \in DOMAIN peers[t] :
                  peers[t][i].from = s =>
                      /\ peers[t][i].number = sent[s]
                      /\ \/ client[s] = "ok"
                         \/ /\ client[s] = "waiting"
                            /\ \E r \in replies : r.call = peers[t][i]
            /\ client[s] = "ok" =>
                  Up(Peer[s]) /\ epoch[Peer[s]] = ackedIn[s]

CallsInv ==
    TypeOK /\ RequestsAreMade /\ AnswersAreBacked /\ EntriesAreDistinctCalls

AcksInv == AcksAreOfARun /\ AcknowledgedJoinsAreListed

OwnInv == WaitersJoin /\ OwnCallsArrive /\ SelfJoinSucceeds

RegistryInv == CallsInv /\ AcksInv /\ OwnInv /\ LastCallOnly

USE ArgsAssumption, BoundAssumption

-----------------------------------------------------------------------------
(* Types, and what the actions do to them.                                 *)

LEMMA InitTypes == Init => TypeOK
<1> SUFFICES ASSUME Init PROVE TypeOK
  OBVIOUS
<1>1. attempt \in [Servers -> 0 .. MaxRetries] /\ losses \in 0 .. MaxLosses
  BY DEF Init
<1>2. peers \in [Servers -> Seq(Call)]
  BY DEF Init
<1>3. QED
  BY <1>1, <1>2 DEF Init, TypeOK, Phases

LEMMA StartTypes ==
    ASSUME TypeOK, NEW s \in Servers, Start(s)
    PROVE  TypeOK'
<1>1. phase' \in [Servers -> Phases] /\ epoch' \in [Servers -> Nat]
  BY DEF TypeOK, Start, Phases
<1>2. QED
  BY <1>1 DEF TypeOK, Start, joinVars, net

LEMMA SendRegisterTypes ==
    ASSUME TypeOK, NEW s \in Servers, SendRegister(s)
    PROVE  TypeOK'
<1>1. calls' \subseteq Call
  <2>1. calls \subseteq Call /\ sent[s] + 1 \in Nat
    BY DEF TypeOK
  <2>2. CASE ~Up(Peer[s])
    BY <2>1, <2>2 DEF SendRegister
  <2>3. CASE Up(Peer[s])
    <3>1. Peer[s] \in Servers
      BY <2>3 DEF Up
    <3> DEFINE call == [from |-> s, to |-> Peer[s], number |-> sent[s] + 1]
    <3>2. call \in Call
      BY <2>1, <3>1 DEF Call
    <3>3. calls' = calls \cup {call}
      BY <2>3 DEF SendRegister
    <3> QED
      BY <2>1, <3>2, <3>3
  <2> QED
    BY <2>2, <2>3
<1>2. attempt' \in [Servers -> 0 .. MaxRetries]
  BY DEF TypeOK, SendRegister, TriesAgain
<1>3. sent' \in [Servers -> Nat] /\ client' \in [Servers -> {"none", "waiting", "ok", "failed"}]
  BY DEF TypeOK, SendRegister
<1>4. QED
  BY <1>1, <1>2, <1>3 DEF TypeOK, SendRegister

LEMMA RegisterTypes ==
    ASSUME TypeOK, NEW c \in calls, Register(c)
    PROVE  TypeOK'
<1>1. c \in Call /\ c.to \in Servers
  BY DEF TypeOK, Call
<1>2. peers' \in [Servers -> Seq(Call)]
  BY <1>1 DEF TypeOK, Register, Add
<1>3. replies' \subseteq [call : Call, epoch : Nat]
  BY <1>1 DEF TypeOK, Register
<1>4. QED
  BY <1>2, <1>3 DEF TypeOK, Register, joinVars

LEMMA GetReplyTypes ==
    ASSUME TypeOK, NEW s \in Servers, GetReply(s)
    PROVE  TypeOK'
BY DEF TypeOK, GetReply

LEMMA CallFailsTypes ==
    ASSUME TypeOK, NEW s \in Servers, CallFails(s)
    PROVE  TypeOK'
BY DEF TypeOK, CallFails, net

LEMMA ServeTypes ==
    ASSUME TypeOK, NEW s \in Servers, Serve(s)
    PROVE  TypeOK'
BY DEF TypeOK, Serve, joinVars, net, Phases

LEMMA DieTypes ==
    ASSUME TypeOK, NEW s \in Servers, Die(s)
    PROVE  TypeOK'
BY DEF TypeOK, Die, Phases

LEMMA ListedCalls ==
    ASSUME TypeOK
    PROVE  \A t \in Servers : \A i \in DOMAIN peers[t] : peers[t][i] \in Call
<1> TAKE t \in Servers
<1>1. peers[t] \in Seq(Call)
  BY DEF TypeOK
<1>2. QED
  BY <1>1

\* The list longer is list with c behind it.
IsLonger(list, c, longer) ==
    /\ DOMAIN list \subseteq DOMAIN longer
    /\ \A i \in DOMAIN list : longer[i] = list[i]
    /\ \E n \in DOMAIN longer \ DOMAIN list :
          /\ longer[n] = c
          /\ \A i \in DOMAIN longer : i \in DOMAIN list \/ i = n

LEMMA AppendIsLonger ==
    ASSUME NEW list \in Seq(Call), NEW c \in Call
    PROVE  IsLonger(list, c, Append(list, c))
<1>1. Len(list) + 1 \in DOMAIN Append(list, c) \ DOMAIN list
  OBVIOUS
<1>2. QED
  BY <1>1 DEF IsLonger

\* A call is its caller, its peer and its number.
LEMMA SameCall ==
    ASSUME NEW b \in Call, NEW c \in Call,
           b.from = c.from, b.to = c.to, b.number = c.number
    PROVE  b = c
BY DEF Call

\* Register puts the call at the end of one list and touches no other.
LEMMA RegisterAppends ==
    ASSUME TypeOK, NEW c \in calls, Register(c)
    PROVE  /\ c.to \in Servers /\ c.from \in Servers
           /\ IsLonger(peers[c.to], c, peers'[c.to])
           /\ \A t \in Servers : t # c.to => peers'[t] = peers[t]
<1>1. c \in Call /\ c.to \in Servers /\ c.from \in Servers
  BY DEF TypeOK, Call
<1>2. peers[c.to] \in Seq(Call) /\ peers'[c.to] = Append(peers[c.to], c)
  BY <1>1 DEF TypeOK, Register, Add
<1>3. IsLonger(peers[c.to], c, peers'[c.to])
  BY <1>1, <1>2, AppendIsLonger
<1>4. \A t \in Servers : t # c.to => peers'[t] = peers[t]
  BY <1>1 DEF TypeOK, Register
<1>5. QED
  BY <1>1, <1>3, <1>4

-----------------------------------------------------------------------------
(* The calls.                                                              *)

LEMMA InitCalls == Init => CallsInv
BY InitTypes DEF Init, CallsInv, RequestsAreMade, AnswersAreBacked,
    EntriesAreDistinctCalls

LEMMA StartCalls ==
    ASSUME CallsInv, NEW s \in Servers, Start(s)
    PROVE  CallsInv'
<1>1. TypeOK'
  BY StartTypes DEF CallsInv
<1>2. \A t : Up(t) => Up(t)' /\ (t \in Servers => epoch'[t] = epoch[t])
  BY DEF CallsInv, TypeOK, Start, Up
<1>3. RequestsAreMade'
  BY <1>2 DEF CallsInv, RequestsAreMade, Start, joinVars, net
<1>4. AnswersAreBacked'
  BY <1>2 DEF CallsInv, AnswersAreBacked, Start, net, Up
<1>5. EntriesAreDistinctCalls'
  BY DEF CallsInv, EntriesAreDistinctCalls, Start, joinVars, net
<1>6. QED
  BY <1>1, <1>3, <1>4, <1>5 DEF CallsInv

LEMMA SendRegisterCalls ==
    ASSUME CallsInv, NEW s \in Servers, SendRegister(s)
    PROVE  CallsInv'
<1> DEFINE c == [from |-> s, to |-> Peer[s], number |-> sent[s] + 1]
<1>1. TypeOK'
  BY SendRegisterTypes DEF CallsInv
<1>2. /\ sent'[s] = sent[s] + 1
      /\ \A t \in Servers :
            sent[t] \in Nat /\ sent'[t] \in Nat /\ sent[t] <= sent'[t]
  BY DEF CallsInv, TypeOK, SendRegister
<1>3. c.from = s /\ c.to = Peer[s] /\ c.number = sent[s] + 1
  OBVIOUS
<1> HIDE DEF c
<1>4. calls' \subseteq calls \cup {c} /\ (c \in calls' => c \in calls \/ Up(Peer[s]))
  BY DEF SendRegister, c
<1>5. \A t : Up(t) <=> Up(t)'
  BY DEF SendRegister, Up
<1>6. \A b \in calls : b.from \in Servers /\ b.number \in Nat
  BY DEF CallsInv, TypeOK, Call
<1>7. RequestsAreMade'
  <2> SUFFICES ASSUME NEW b \in calls'
               PROVE  b.to = Peer[b.from] /\ b.number <= sent'[b.from] /\ Up(b.to)'
    BY DEF RequestsAreMade
  <2>1. CASE b \in calls
    BY <1>2, <1>5, <1>6, <2>1 DEF CallsInv, RequestsAreMade, TypeOK
  <2>2. CASE b = c /\ b \notin calls
    BY <1>2, <1>3, <1>4, <1>5, <2>2
  <2>3. QED
    BY <1>4, <2>1, <2>2
<1>8. AnswersAreBacked'
  BY <1>5 DEF CallsInv, AnswersAreBacked, SendRegister
<1>9. \A t \in Servers : \A i \in DOMAIN peers[t] :
          peers[t][i].from \in Servers /\ peers[t][i].number \in Nat
  BY ListedCalls DEF CallsInv, Call
<1>10. \A t \in Servers : \A i \in DOMAIN peers[t] : peers[t][i] # c
  BY <1>2, <1>3, <1>9 DEF CallsInv, EntriesAreDistinctCalls
<1>11. EntriesAreDistinctCalls'
  BY <1>2, <1>4, <1>9, <1>10 DEF CallsInv, EntriesAreDistinctCalls, SendRegister
<1>12. QED
  BY <1>1, <1>7, <1>8, <1>11 DEF CallsInv

LEMMA RegisterCalls ==
    ASSUME CallsInv, NEW c \in calls, Register(c)
    PROVE  CallsInv'
<1>1. TypeOK'
  BY RegisterTypes DEF CallsInv
<1>2. /\ c.to \in Servers /\ c.from \in Servers
      /\ IsLonger(peers[c.to], c, peers'[c.to])
      /\ \A t \in Servers : t # c.to => peers'[t] = peers[t]
  BY RegisterAppends DEF CallsInv
<1>3. UNCHANGED <<phase, epoch, sent>> /\ calls' = calls \ {c}
  BY DEF Register, joinVars
<1>4. RequestsAreMade'
  BY <1>3 DEF CallsInv, RequestsAreMade, Up
<1>5. AnswersAreBacked'
  <2> SUFFICES ASSUME NEW r \in replies'
               PROVE  /\ r.call.to = Peer[r.call.from] /\ Up(r.call.to)
                      /\ r.epoch = epoch[r.call.to]
                      /\ \E i \in DOMAIN peers'[r.call.to] :
                            peers'[r.call.to][i] = r.call
    BY <1>3 DEF AnswersAreBacked, Up
  <2>1. CASE r \in replies
    <3>1. r.call.to \in Servers
      BY <2>1 DEF CallsInv, TypeOK, Call
    <3>2. QED
      BY <1>2, <2>1, <3>1 DEF CallsInv, AnswersAreBacked, IsLonger
  <2>2. CASE r = [call |-> c, epoch |-> epoch[c.to]]
    BY <1>2, <2>2 DEF CallsInv, RequestsAreMade, IsLonger
  <2>3. QED
    BY <2>1, <2>2 DEF Register
<1>6. EntriesAreDistinctCalls'
  <2> SUFFICES ASSUME NEW t \in Servers,
                      NEW i \in DOMAIN peers'[t], NEW j \in DOMAIN peers'[t]
               PROVE  /\ peers'[t][i].to = t
                      /\ peers'[t][i].number <= sent[peers'[t][i].from]
                      /\ peers'[t][i] = peers'[t][j] => i = j
                      /\ peers'[t][i] \notin calls'
    BY <1>3 DEF EntriesAreDistinctCalls
  <2>1. CASE t = c.to
    BY <1>2, <1>3, <2>1
    DEF CallsInv, RequestsAreMade, EntriesAreDistinctCalls, IsLonger
  <2>2. CASE t # c.to
    BY <1>2, <1>3, <2>2 DEF CallsInv, EntriesAreDistinctCalls
  <2>3. QED
    BY <2>1, <2>2
<1>7. QED
  BY <1>1, <1>4, <1>5, <1>6 DEF CallsInv

LEMMA GetReplyCalls ==
    ASSUME CallsInv, NEW s \in Servers, GetReply(s)
    PROVE  CallsInv'
<1>1. TypeOK'
  BY GetReplyTypes DEF CallsInv
<1>2. QED
  BY <1>1 DEF CallsInv, RequestsAreMade, AnswersAreBacked,
      EntriesAreDistinctCalls, GetReply, Up

LEMMA CallFailsCalls ==
    ASSUME CallsInv, NEW s \in Servers, CallFails(s)
    PROVE  CallsInv'
<1>1. TypeOK'
  BY CallFailsTypes DEF CallsInv
<1>2. calls' \subseteq calls /\ replies' \subseteq replies
  BY DEF CallFails, net
<1>3. QED
  BY <1>1, <1>2 DEF CallsInv, RequestsAreMade, AnswersAreBacked,
      EntriesAreDistinctCalls, CallFails, Up

LEMMA ServeCalls ==
    ASSUME CallsInv, NEW s \in Servers, Serve(s)
    PROVE  CallsInv'
<1>1. TypeOK'
  BY ServeTypes DEF CallsInv
<1>2. \A t : Up(t) <=> Up(t)'
  BY DEF CallsInv, TypeOK, Serve, Up
<1>3. QED
  BY <1>1, <1>2 DEF CallsInv, RequestsAreMade, AnswersAreBacked,
      EntriesAreDistinctCalls, Serve, joinVars, net

\* The requests to the process that ended and the answers from it end with it,
\* so what is left is about processes that run.
LEMMA DieCalls ==
    ASSUME CallsInv, NEW s \in Servers, Die(s)
    PROVE  CallsInv'
<1>1. TypeOK'
  BY DieTypes DEF CallsInv
<1>2. \A t : t # s => (Up(t) <=> Up(t)')
  BY DEF CallsInv, TypeOK, Die, Up
<1>3. RequestsAreMade'
  BY <1>2 DEF CallsInv, RequestsAreMade, Die
<1>4. /\ peers'[s] = << >>
      /\ \A t \in Servers : t # s => peers'[t] = peers[t]
  BY DEF CallsInv, TypeOK, Die
<1>5. AnswersAreBacked'
  <2> SUFFICES ASSUME NEW r \in replies'
               PROVE  /\ r.call.to = Peer[r.call.from] /\ Up(r.call.to)'
                      /\ r.epoch = epoch'[r.call.to]
                      /\ \E i \in DOMAIN peers'[r.call.to] :
                            peers'[r.call.to][i] = r.call
    BY DEF AnswersAreBacked
  <2>1. r \in replies /\ r.call.to # s
    BY DEF Die
  <2>2. r.call.to \in Servers
    BY <2>1 DEF CallsInv, TypeOK, Call
  <2>3. QED
    BY <1>2, <1>4, <2>1, <2>2 DEF CallsInv, AnswersAreBacked, Die
<1>6. EntriesAreDistinctCalls'
  BY <1>4 DEF CallsInv, EntriesAreDistinctCalls, Die
<1>7. QED
  BY <1>1, <1>3, <1>5, <1>6 DEF CallsInv

-----------------------------------------------------------------------------
(* The acknowledgements.                                                   *)

LEMMA InitAcks == Init => AcksInv
BY DEF Init, AcksInv, AcksAreOfARun, AcknowledgedJoinsAreListed

\* A peer that starts again has another epoch than it had for any caller.
LEMMA StartAcks ==
    ASSUME CallsInv, AcksInv, NEW s \in Servers, Start(s)
    PROVE  AcksInv'
<1>1. /\ \A t \in Servers : epoch[t] \in Nat /\ epoch'[t] \in Nat /\ ackedIn[t] \in Nat
      /\ epoch'[s] = epoch[s] + 1
      /\ \A t \in Servers : t # s => epoch'[t] = epoch[t] /\ (Up(t) <=> Up(t)')
  BY DEF CallsInv, TypeOK, Start, Up
<1>2. UNCHANGED <<client, ackedIn, sent, peers>>
  BY DEF Start, joinVars
<1>3. AcksAreOfARun'
  BY <1>1, <1>2 DEF AcksInv, AcksAreOfARun
<1>4. AcknowledgedJoinsAreListed'
  BY <1>1, <1>2 DEF AcksInv, AcksAreOfARun, AcknowledgedJoinsAreListed, Entries, Up
<1>5. QED
  BY <1>3, <1>4 DEF AcksInv

LEMMA SendRegisterAcks ==
    ASSUME CallsInv, AcksInv, NEW s \in Servers, SendRegister(s)
    PROVE  AcksInv'
<1>1. /\ client'[s] = "waiting"
      /\ \A t \in Servers :
            t # s => client'[t] = client[t] /\ sent'[t] = sent[t]
  BY DEF CallsInv, TypeOK, SendRegister
<1>2. UNCHANGED <<phase, epoch, ackedIn, peers>>
  BY DEF SendRegister
<1>3. QED
  BY <1>1, <1>2 DEF AcksInv, AcksAreOfARun, AcknowledgedJoinsAreListed, Entries, Up

LEMMA RegisterAcks ==
    ASSUME CallsInv, AcksInv, NEW c \in calls, Register(c)
    PROVE  AcksInv'
<1>1. /\ c.to \in Servers
      /\ IsLonger(peers[c.to], c, peers'[c.to])
      /\ \A t \in Servers : t # c.to => peers'[t] = peers[t]
  BY RegisterAppends DEF CallsInv
<1>2. UNCHANGED <<phase, epoch, client, ackedIn, sent>>
  BY DEF Register, joinVars
<1>3. \A t \in Servers : \A i \in DOMAIN peers[t] :
          i \in DOMAIN peers'[t] /\ peers'[t][i] = peers[t][i]
  BY <1>1 DEF IsLonger
<1>4. QED
  BY <1>2, <1>3 DEF AcksInv, AcksAreOfARun, AcknowledgedJoinsAreListed, Entries, Up

LEMMA GetReplyAcks ==
    ASSUME CallsInv, AcksInv, NEW s \in Servers, GetReply(s)
    PROVE  AcksInv'
<1>1. PICK r \in replies :
          /\ Current(s, r.call)
          /\ client' = [client EXCEPT ![s] = "ok"]
          /\ ackedIn' = [ackedIn EXCEPT ![s] = r.epoch]
  BY DEF GetReply
<1>2. UNCHANGED <<phase, epoch, sent, peers>>
  BY DEF GetReply
<1>3. /\ r.call.to = Peer[s] /\ r.call.to \in Servers
      /\ r.epoch = epoch[Peer[s]] /\ r.epoch \in Nat
      /\ r.call.from = s /\ r.call.number = sent[s]
      /\ \E i \in DOMAIN peers[Peer[s]] : peers[Peer[s]][i] = r.call
  <2>1. r.call \in Call /\ r.call.to \in Servers /\ r.epoch \in Nat
    BY DEF CallsInv, TypeOK, Call
  <2>2. r.call.from = s /\ r.call.number = sent[s]
    BY <1>1 DEF Current
  <2>3. QED
    BY <2>1, <2>2 DEF CallsInv, AnswersAreBacked
<1>4. /\ client'[s] = "ok" /\ ackedIn'[s] = r.epoch
      /\ \A t \in Servers :
            t # s => client'[t] = client[t] /\ ackedIn'[t] = ackedIn[t]
  BY <1>1 DEF CallsInv, TypeOK
<1>5. AcksAreOfARun'
  BY <1>2, <1>3, <1>4 DEF AcksInv, AcksAreOfARun
<1>6. AcknowledgedJoinsAreListed'
  BY <1>2, <1>3, <1>4 DEF AcksInv, AcknowledgedJoinsAreListed, Entries, Up
<1>7. QED
  BY <1>5, <1>6 DEF AcksInv

LEMMA CallFailsAcks ==
    ASSUME CallsInv, AcksInv, NEW s \in Servers, CallFails(s)
    PROVE  AcksInv'
<1>1. /\ client'[s] = "failed"
      /\ \A t \in Servers : t # s => client'[t] = client[t]
      /\ UNCHANGED <<phase, epoch, sent, peers, ackedIn>>
  BY DEF CallsInv, TypeOK, CallFails
<1>2. QED
  BY <1>1 DEF AcksInv, AcksAreOfARun, AcknowledgedJoinsAreListed, Entries, Up

LEMMA ServeAcks ==
    ASSUME CallsInv, AcksInv, NEW s \in Servers, Serve(s)
    PROVE  AcksInv'
<1>1. \A t : Up(t) <=> Up(t)'
  BY DEF CallsInv, TypeOK, Serve, Up
<1>2. UNCHANGED <<epoch, client, ackedIn, sent, peers>>
  BY DEF Serve, joinVars
<1>3. QED
  BY <1>1, <1>2 DEF AcksInv, AcksAreOfARun, AcknowledgedJoinsAreListed, Entries

LEMMA DieAcks ==
    ASSUME CallsInv, AcksInv, NEW s \in Servers, Die(s)
    PROVE  AcksInv'
<1>1. /\ client'[s] = "none" /\ ~Up(s)'
      /\ \A t \in Servers :
            t # s => /\ client'[t] = client[t] /\ ackedIn'[t] = ackedIn[t]
                     /\ peers'[t] = peers[t]
                     /\ Up(t) <=> Up(t)'
      /\ UNCHANGED <<epoch, sent>>
  BY DEF CallsInv, TypeOK, Die, Up
<1>2. AcksAreOfARun'
  BY <1>1 DEF AcksInv, AcksAreOfARun
<1>3. AcknowledgedJoinsAreListed'
  <2> SUFFICES ASSUME NEW t \in Servers, client'[t] = "ok", Up(Peer[t])',
                      epoch'[Peer[t]] = ackedIn'[t]
               PROVE  \E i \in DOMAIN peers'[Peer[t]] :
                          /\ peers'[Peer[t]][i].from = t
                          /\ peers'[Peer[t]][i].number = sent'[t]
    BY DEF AcknowledgedJoinsAreListed, Entries
  <2>1. t # s /\ Peer[t] # s /\ Peer[t] \in Servers /\ Up(Peer[t])
    BY <1>1 DEF Up
  <2>2. QED
    BY <1>1, <2>1 DEF AcksInv, AcknowledgedJoinsAreListed, Entries
<1>4. QED
  BY <1>2, <1>3 DEF AcksInv

-----------------------------------------------------------------------------
(* A server that joins itself.                                             *)

LEMMA InitOwn == Init => OwnInv
BY DEF Init, OwnInv, WaitersJoin, OwnCallsArrive, SelfJoinSucceeds

LEMMA StartOwn ==
    ASSUME CallsInv, OwnInv, NEW s \in Servers, Start(s)
    PROVE  OwnInv'
<1>1. WaitersJoin'
  BY DEF CallsInv, TypeOK, OwnInv, WaitersJoin, Start, joinVars
<1>2. QED
  BY <1>1 DEF OwnInv, OwnCallsArrive, SelfJoinSucceeds, Start,
      joinVars, net, Lost, Current

\* The port of the caller itself is open, so the request leaves.
LEMMA SendRegisterOwn ==
    ASSUME CallsInv, OwnInv, NEW s \in Servers, SendRegister(s)
    PROVE  OwnInv'
<1>1. /\ client'[s] = "waiting" /\ sent'[s] = sent[s] + 1
      /\ \A t \in Servers :
            t # s => client'[t] = client[t] /\ sent'[t] = sent[t]
      /\ UNCHANGED <<phase, replies, losses>>
      /\ phase[s] = "joining" /\ calls \subseteq calls'
  BY DEF CallsInv, TypeOK, SendRegister
<1>2. WaitersJoin'
  BY <1>1 DEF OwnInv, WaitersJoin
<1>3. OwnCallsArrive'
  <2> SUFFICES ASSUME NEW t \in Servers, Peer[t] = t, losses = 0,
                      client'[t] = "waiting"
               PROVE  ~Lost(t)'
    BY <1>1 DEF OwnCallsArrive
  <2>1. CASE t = s
    <3>1. Up(Peer[s])
      BY <1>1, <2>1 DEF Up
    <3> DEFINE new == [from |-> s, to |-> Peer[s], number |-> sent[s] + 1]
    <3>2. new \in calls' /\ new.from = s /\ new.number = sent[s] + 1
      BY <3>1 DEF SendRegister
    <3> HIDE DEF new
    <3>3. \E b \in calls' : Current(s, b)'
      BY <1>1, <3>2 DEF Current
    <3>4. QED
      BY <2>1, <3>3 DEF Lost
  <2>2. CASE t # s
    BY <1>1, <2>2 DEF OwnInv, OwnCallsArrive, Lost, Current
  <2>3. QED
    BY <2>1, <2>2
<1>4. SelfJoinSucceeds'
  BY <1>1 DEF OwnInv, SelfJoinSucceeds
<1>5. QED
  BY <1>2, <1>3, <1>4 DEF OwnInv

LEMMA RegisterOwn ==
    ASSUME CallsInv, OwnInv, NEW c \in calls, Register(c)
    PROVE  OwnInv'
<1>1. UNCHANGED <<phase, client, sent, losses>>
  BY DEF Register, joinVars
<1>2. \A t \in Servers : ~Lost(t) => ~Lost(t)'
  <2> TAKE t \in Servers
  <2> HAVE ~Lost(t)
  <2> DEFINE r == [call |-> c, epoch |-> epoch[c.to]]
  <2>1. r \in replies' /\ r.call = c /\ replies \subseteq replies'
    BY DEF Register
  <2>2. \A b \in calls : b = c \/ b \in calls'
    BY DEF Register
  <2>3. QED
    BY <1>1, <2>1, <2>2 DEF Lost, Current
<1>3. QED
  BY <1>1, <1>2 DEF OwnInv, WaitersJoin, OwnCallsArrive, SelfJoinSucceeds

LEMMA GetReplyOwn ==
    ASSUME CallsInv, OwnInv, NEW s \in Servers, GetReply(s)
    PROVE  OwnInv'
<1>1. /\ client[s] = "waiting" /\ client'[s] = "ok"
      /\ \A t \in Servers : t # s => client'[t] = client[t]
      /\ UNCHANGED <<phase, sent, calls, losses>>
  BY DEF CallsInv, TypeOK, GetReply
<1>2. \A t \in Servers : t # s => (~Lost(t) => ~Lost(t)')
  BY <1>1 DEF Lost, Current, GetReply
<1>3. QED
  BY <1>1, <1>2 DEF OwnInv, WaitersJoin, OwnCallsArrive, SelfJoinSucceeds

LEMMA CallFailsOwn ==
    ASSUME CallsInv, OwnInv, NEW s \in Servers, CallFails(s)
    PROVE  OwnInv'
<1>1. /\ client[s] = "waiting" /\ client'[s] = "failed"
      /\ \A t \in Servers : t # s => client'[t] = client[t]
      /\ UNCHANGED <<phase, sent>>
  BY DEF CallsInv, TypeOK, CallFails
<1>2. WaitersJoin'
  BY <1>1 DEF OwnInv, WaitersJoin
<1>3. CASE Lost(s) /\ UNCHANGED net
  BY <1>1, <1>2, <1>3
  DEF OwnInv, OwnCallsArrive, SelfJoinSucceeds, net, Lost, Current
<1>4. CASE losses' = losses + 1
  <2>1. losses' # 0
    BY <1>4 DEF CallsInv, TypeOK
  <2>2. QED
    BY <1>2, <2>1 DEF OwnInv, OwnCallsArrive, SelfJoinSucceeds
<1>5. QED
  BY <1>3, <1>4 DEF CallFails

LEMMA ServeOwn ==
    ASSUME CallsInv, OwnInv, NEW s \in Servers, Serve(s)
    PROVE  OwnInv'
<1>1. /\ client[s] # "waiting" /\ phase'[s] = "serving"
      /\ \A t \in Servers : t # s => phase'[t] = phase[t]
      /\ UNCHANGED <<client, sent, calls, replies, losses>>
  BY DEF CallsInv, TypeOK, Serve, LeavesLoop, joinVars, net
<1>2. QED
  BY <1>1 DEF OwnInv, WaitersJoin, OwnCallsArrive, SelfJoinSucceeds, Lost, Current

LEMMA DieOwn ==
    ASSUME CallsInv, OwnInv, NEW s \in Servers, Die(s)
    PROVE  OwnInv'
<1>1. /\ client'[s] = "none"
      /\ \A t \in Servers :
            t # s => client'[t] = client[t] /\ phase'[t] = phase[t]
      /\ UNCHANGED <<sent, losses>>
      /\ calls' = {c \in calls : c.to # s}
      /\ replies' = {r \in replies : s \notin {r.call.to, r.call.from}}
  BY DEF CallsInv, TypeOK, Die
<1>2. \A t \in Servers : t # s /\ Peer[t] = t => (~Lost(t) => ~Lost(t)')
  BY <1>1 DEF CallsInv, RequestsAreMade, AnswersAreBacked, Lost, Current
<1>3. QED
  BY <1>1, <1>2 DEF OwnInv, WaitersJoin, OwnCallsArrive, SelfJoinSucceeds

-----------------------------------------------------------------------------
(* As long as nothing went wrong.                                          *)

LEMMA InitLast == Init => LastCallOnly
BY DEF Init, LastCallOnly

LEMMA StartLast ==
    ASSUME CallsInv, LastCallOnly, NEW s \in Servers, Start(s)
    PROVE  LastCallOnly'
<1>1. /\ \A t : t # s => (Up(t) <=> Up(t)')
      /\ \A t \in Servers : t # s => epoch'[t] = epoch[t]
      /\ ~Up(s)
  BY DEF CallsInv, TypeOK, Start, Up
<1>2. UNCHANGED <<client, sent, ackedIn, calls, replies, losses, peers, crashes>>
  BY DEF Start, joinVars, net
<1>3. \A t : Up(t) => t # s /\ t \in Servers
  BY <1>1 DEF Up
<1>4. QED
  BY <1>1, <1>2, <1>3 DEF LastCallOnly

\* A server that tries again has nothing left of an earlier call.
LEMMA SendRegisterLast ==
    ASSUME CallsInv, LastCallOnly, NEW s \in Servers, SendRegister(s)
    PROVE  LastCallOnly'
<1>1. /\ client[s] \in {"none", "failed"} /\ client'[s] = "waiting"
      /\ sent'[s] = sent[s] + 1
      /\ \A t \in Servers :
            t # s => client'[t] = client[t] /\ sent'[t] = sent[t]
      /\ UNCHANGED <<phase, epoch, replies, losses, peers, ackedIn, crashes>>
  BY DEF CallsInv, TypeOK, SendRegister, TriesAgain
<1>2. \A c \in calls' : c \in calls \/ (c.from = s /\ c.number = sent[s] + 1)
  BY DEF SendRegister
<1>3. \A t : Up(t) <=> Up(t)'
  BY <1>1 DEF Up
<1>4. SUFFICES ASSUME losses = 0, crashes = 0, NEW t \in Servers
      PROVE  /\ \A c \in calls' :
                   c.from = t => client'[t] = "waiting" /\ c.number = sent'[t]
             /\ \A r \in replies :
                   r.call.from = t =>
                       client'[t] = "waiting" /\ r.call.number = sent'[t]
             /\ \A u \in Servers : \A i \in DOMAIN peers[u] :
                   peers[u][i].from = t =>
                       /\ peers[u][i].number = sent'[t]
                       /\ \/ client'[t] = "ok"
                          \/ /\ client'[t] = "waiting"
                             /\ \E r \in replies : r.call = peers[u][i]
             /\ client'[t] = "ok" =>
                   Up(Peer[t]) /\ epoch[Peer[t]] = ackedIn[t]
  BY <1>1, <1>3 DEF LastCallOnly
<1>5. CASE t = s
  BY <1>1, <1>2, <1>4, <1>5 DEF LastCallOnly
<1>6. CASE t # s
  BY <1>1, <1>2, <1>4, <1>6 DEF LastCallOnly
<1>7. QED
  BY <1>5, <1>6

LEMMA RegisterLast ==
    ASSUME CallsInv, LastCallOnly, NEW c \in calls, Register(c)
    PROVE  LastCallOnly'
<1>1. /\ c.to \in Servers /\ c.from \in Servers
      /\ IsLonger(peers[c.to], c, peers'[c.to])
      /\ \A t \in Servers : t # c.to => peers'[t] = peers[t]
  BY RegisterAppends DEF CallsInv
<1>2. UNCHANGED <<phase, epoch, client, ackedIn, sent, losses, crashes>>
  BY DEF Register, joinVars
<1>3. \A t : Up(t) <=> Up(t)'
  BY <1>2 DEF Up
<1>4. calls' \subseteq calls
  BY DEF Register
<1>5. /\ \A r \in replies' : r \in replies \/ r.call = c
      /\ replies \subseteq replies'
      /\ \E r \in replies' : r.call = c
  <2> DEFINE new == [call |-> c, epoch |-> epoch[c.to]]
  <2>1. replies' = replies \cup {new} /\ new.call = c
    BY DEF Register
  <2> HIDE DEF new
  <2>2. QED
    BY <2>1
<1>6. \A t \in Servers : \A i \in DOMAIN peers'[t] :
          \/ i \in DOMAIN peers[t] /\ peers'[t][i] = peers[t][i]
          \/ peers'[t][i] = c
  BY <1>1 DEF IsLonger
<1>7. SUFFICES ASSUME losses = 0, crashes = 0, NEW s \in Servers
      PROVE  /\ \A b \in calls' :
                   b.from = s => client[s] = "waiting" /\ b.number = sent[s]
             /\ \A r \in replies' :
                   r.call.from = s =>
                       client[s] = "waiting" /\ r.call.number = sent[s]
             /\ \A t \in Servers : \A i \in DOMAIN peers'[t] :
                   peers'[t][i].from = s =>
                       /\ peers'[t][i].number = sent[s]
                       /\ \/ client[s] = "ok"
                          \/ /\ client[s] = "waiting"
                             /\ \E r \in replies' : r.call = peers'[t][i]
             /\ client[s] = "ok" =>
                   Up(Peer[s]) /\ epoch[Peer[s]] = ackedIn[s]
  BY <1>2, <1>3 DEF LastCallOnly
<1>8. c.from = s => client[s] = "waiting" /\ c.number = sent[s]
  BY <1>7 DEF LastCallOnly
<1>9. ASSUME NEW t \in Servers, NEW i \in DOMAIN peers'[t], peers'[t][i].from = s
      PROVE  /\ peers'[t][i].number = sent[s]
             /\ \/ client[s] = "ok"
                \/ /\ client[s] = "waiting"
                   /\ \E r \in replies' : r.call = peers'[t][i]
  <2>1. CASE peers'[t][i] = c
    BY <1>5, <1>8, <1>9, <2>1
  <2>2. CASE i \in DOMAIN peers[t] /\ peers'[t][i] = peers[t][i]
    BY <1>5, <1>7, <1>9, <2>2 DEF LastCallOnly
  <2>3. QED
    BY <1>6, <2>1, <2>2
<1>10. QED
  BY <1>4, <1>5, <1>7, <1>8, <1>9 DEF LastCallOnly

\* The answer that is taken was the only one, and the request it answers is
\* listed, so it is no longer on its way.
LEMMA GetReplyLast ==
    ASSUME CallsInv, LastCallOnly, NEW s \in Servers, GetReply(s)
    PROVE  LastCallOnly'
<1>1. PICK r \in replies :
          /\ Current(s, r.call)
          /\ client' = [client EXCEPT ![s] = "ok"]
          /\ ackedIn' = [ackedIn EXCEPT ![s] = r.epoch]
          /\ replies' = replies \ {r}
  BY DEF GetReply
<1>2. /\ UNCHANGED <<phase, epoch, sent, calls, peers, crashes, losses>>
      /\ client'[s] = "ok" /\ ackedIn'[s] = r.epoch
      /\ \A t \in Servers :
            t # s => client'[t] = client[t] /\ ackedIn'[t] = ackedIn[t]
  BY <1>1 DEF CallsInv, TypeOK, GetReply
<1>3. /\ r.call.from = s /\ r.call.number = sent[s]
      /\ r.call.to = Peer[s] /\ Up(Peer[s]) /\ r.epoch = epoch[Peer[s]]
      /\ Peer[s] \in Servers
      /\ \E i \in DOMAIN peers[Peer[s]] : peers[Peer[s]][i] = r.call
  BY <1>1 DEF CallsInv, AnswersAreBacked, Current, Up
<1>4. r.call \notin calls
  BY <1>3 DEF CallsInv, EntriesAreDistinctCalls
<1>5. \A t : Up(t) <=> Up(t)'
  BY <1>2 DEF Up
<1>6. SUFFICES ASSUME losses = 0, crashes = 0, NEW t \in Servers
      PROVE  /\ \A c \in calls :
                   c.from = t => client'[t] = "waiting" /\ c.number = sent[t]
             /\ \A q \in replies' :
                   q.call.from = t =>
                       client'[t] = "waiting" /\ q.call.number = sent[t]
             /\ \A u \in Servers : \A i \in DOMAIN peers[u] :
                   peers[u][i].from = t =>
                       /\ peers[u][i].number = sent[t]
                       /\ \/ client'[t] = "ok"
                          \/ /\ client'[t] = "waiting"
                             /\ \E q \in replies' : q.call = peers[u][i]
             /\ client'[t] = "ok" =>
                   Up(Peer[t]) /\ epoch[Peer[t]] = ackedIn'[t]
  BY <1>2, <1>5 DEF LastCallOnly
<1>7. CASE t = s
  <2>1. \A c \in Call :
            c.from = s /\ c.number = sent[s] /\ c.to = Peer[s] => c = r.call
    <3>1. r.call \in Call
      BY DEF CallsInv, TypeOK
    <3>2. QED
      BY <1>3, <3>1, SameCall
  <2>2. ASSUME NEW c \in calls, c.from = s
        PROVE  FALSE
    <3>1. c.number = sent[s]
      BY <1>6, <2>2 DEF LastCallOnly
    <3>2. c.to = Peer[s] /\ c \in Call
      BY <2>2 DEF CallsInv, TypeOK, RequestsAreMade
    <3>3. QED
      BY <1>4, <2>1, <2>2, <3>1, <3>2
  <2>3. ASSUME NEW q \in replies', q.call.from = s
        PROVE  FALSE
    <3>1. q \in replies /\ q # r
      BY <1>1
    <3>2. q.call.number = sent[s]
      BY <1>6, <2>3, <3>1 DEF LastCallOnly
    <3>3. q.call.to = Peer[s] /\ q.call \in Call /\ q.epoch = r.epoch
      <4>1. q.call \in Call
        BY <3>1 DEF CallsInv, TypeOK
      <4>2. q.call.to = Peer[q.call.from] /\ q.epoch = epoch[q.call.to]
        BY <3>1 DEF CallsInv, AnswersAreBacked
      <4>3. QED
        BY <1>3, <2>3, <4>1, <4>2
    <3>4. q.call = r.call
      BY <2>1, <2>3, <3>2, <3>3
    <3>5. q \in [call : Call, epoch : Nat] /\ r \in [call : Call, epoch : Nat]
      BY <3>1 DEF CallsInv, TypeOK
    <3>6. QED
      BY <3>1, <3>3, <3>4, <3>5
  <2>4. \A u \in Servers : \A i \in DOMAIN peers[u] :
            peers[u][i].from = s => peers[u][i].number = sent[s]
    BY <1>6 DEF LastCallOnly
  <2>5. QED
    BY <1>2, <1>3, <1>7, <2>2, <2>3, <2>4
<1>8. CASE t # s
  <2>1. \A q \in replies : q.call.from = t => q \in replies'
    BY <1>1, <1>3, <1>8
  <2>2. \A u \in Servers : \A i \in DOMAIN peers[u] : \A q \in replies :
            peers[u][i].from = t /\ q.call = peers[u][i] => q \in replies'
    BY <2>1
  <2>3. QED
    BY <1>1, <1>2, <1>6, <1>8, <2>2 DEF LastCallOnly
<1>9. QED
  BY <1>7, <1>8

\* A call that fails without being lost never left.
LEMMA CallFailsLast ==
    ASSUME CallsInv, LastCallOnly, NEW s \in Servers, CallFails(s)
    PROVE  LastCallOnly'
<1>1. /\ client[s] = "waiting" /\ client'[s] = "failed"
      /\ \A t \in Servers : t # s => client'[t] = client[t]
      /\ UNCHANGED <<phase, epoch, sent, peers, ackedIn, crashes>>
  BY DEF CallsInv, TypeOK, CallFails
<1>2. \A t : Up(t) <=> Up(t)'
  BY <1>1 DEF Up
<1>3. CASE Lost(s) /\ UNCHANGED net
  <2>1. /\ \A c \in calls : c.from = s => c.number # sent[s]
        /\ \A r \in replies : r.call.from = s => r.call.number # sent[s]
    BY <1>3 DEF Lost, Current
  <2>2. UNCHANGED <<calls, replies, losses>>
    BY <1>3 DEF net
  <2>3. SUFFICES ASSUME losses = 0, crashes = 0, NEW t \in Servers
        PROVE  /\ \A c \in calls :
                     c.from = t => client'[t] = "waiting" /\ c.number = sent[t]
               /\ \A r \in replies :
                     r.call.from = t =>
                         client'[t] = "waiting" /\ r.call.number = sent[t]
               /\ \A u \in Servers : \A i \in DOMAIN peers[u] :
                     peers[u][i].from = t =>
                         /\ peers[u][i].number = sent[t]
                         /\ \/ client'[t] = "ok"
                            \/ /\ client'[t] = "waiting"
                               /\ \E r \in replies : r.call = peers[u][i]
               /\ client'[t] = "ok" =>
                     Up(Peer[t]) /\ epoch[Peer[t]] = ackedIn[t]
    BY <1>1, <1>2, <2>2 DEF LastCallOnly
  <2>4. CASE t = s
    BY <1>1, <2>1, <2>3, <2>4 DEF LastCallOnly
  <2>5. CASE t # s
    BY <1>1, <2>3, <2>5 DEF LastCallOnly
  <2>6. QED
    BY <2>4, <2>5
<1>4. CASE losses' = losses + 1
  <2>1. losses' # 0
    BY <1>4 DEF CallsInv, TypeOK
  <2>2. QED
    BY <2>1 DEF LastCallOnly
<1>5. QED
  BY <1>3, <1>4 DEF CallFails

LEMMA ServeLast ==
    ASSUME CallsInv, LastCallOnly, NEW s \in Servers, Serve(s)
    PROVE  LastCallOnly'
<1>1. \A t : Up(t) <=> Up(t)'
  BY DEF CallsInv, TypeOK, Serve, Up
<1>2. UNCHANGED <<epoch, client, sent, ackedIn, calls, replies, losses, peers, crashes>>
  BY DEF Serve, joinVars, net
<1>3. QED
  BY <1>1, <1>2 DEF LastCallOnly

LEMMA DieLast ==
    ASSUME CallsInv, NEW s \in Servers, Die(s)
    PROVE  LastCallOnly'
<1>1. crashes' # 0
  BY DEF CallsInv, TypeOK, Die
<1>2. QED
  BY <1>1 DEF LastCallOnly

-----------------------------------------------------------------------------
(* The theorems.                                                           *)

LEMMA InitRegistry == Init => RegistryInv
BY InitCalls, InitAcks, InitOwn, InitLast DEF RegistryInv

LEMMA JoinStep ==
    ASSUME RegistryInv, NEW s \in Servers, Start(s) \/ Join(s)
    PROVE  RegistryInv'
<1>1. CASE Start(s)
  BY <1>1, StartCalls, StartAcks, StartOwn, StartLast DEF RegistryInv
<1>2. CASE SendRegister(s)
  BY <1>2, SendRegisterCalls, SendRegisterAcks, SendRegisterOwn, SendRegisterLast
  DEF RegistryInv
<1>3. CASE GetReply(s)
  BY <1>3, GetReplyCalls, GetReplyAcks, GetReplyOwn, GetReplyLast DEF RegistryInv
<1>4. CASE CallFails(s)
  BY <1>4, CallFailsCalls, CallFailsAcks, CallFailsOwn, CallFailsLast DEF RegistryInv
<1>5. CASE Serve(s)
  BY <1>5, ServeCalls, ServeAcks, ServeOwn, ServeLast DEF RegistryInv
<1>6. QED
  BY <1>1, <1>2, <1>3, <1>4, <1>5 DEF Join

LEMMA RegisterStep ==
    ASSUME RegistryInv, NEW c \in calls, Register(c)
    PROVE  RegistryInv'
BY RegisterCalls, RegisterAcks, RegisterOwn, RegisterLast DEF RegistryInv

LEMMA DieStep ==
    ASSUME RegistryInv, NEW s \in Servers, Die(s)
    PROVE  RegistryInv'
BY DieCalls, DieAcks, DieOwn, DieLast DEF RegistryInv

LEMMA RegistryStutters ==
    ASSUME RegistryInv, UNCHANGED registryVars
    PROVE  RegistryInv'
<1>1. CallsInv'
  BY DEF RegistryInv, CallsInv, TypeOK, RequestsAreMade, AnswersAreBacked,
      EntriesAreDistinctCalls, Up, registryVars
<1>2. AcksInv'
  BY DEF RegistryInv, AcksInv, AcksAreOfARun, AcknowledgedJoinsAreListed,
      Entries, Up, registryVars
<1>3. OwnInv'
  BY DEF RegistryInv, OwnInv, WaitersJoin, OwnCallsArrive, SelfJoinSucceeds,
      Lost, Current, registryVars
<1>4. LastCallOnly'
  BY DEF RegistryInv, LastCallOnly, Up, registryVars
<1>5. QED
  BY <1>1, <1>2, <1>3, <1>4 DEF RegistryInv

LEMMA RegistryInductive == Spec => []RegistryInv
<1>1. RegistryInv /\ [Next]_registryVars => RegistryInv'
  <2> SUFFICES ASSUME RegistryInv, [Next]_registryVars
               PROVE  RegistryInv'
    OBVIOUS
  <2>1. CASE \E s \in Servers : Start(s) \/ Join(s)
    BY <2>1, JoinStep
  <2>2. CASE \E c \in calls : Register(c)
    BY <2>2, RegisterStep
  <2>3. CASE \E s \in Servers : Crash(s)
    BY <2>3, DieStep DEF Crash
  <2>4. CASE UNCHANGED registryVars
    BY <2>4, RegistryStutters
  <2>5. QED
    BY <2>1, <2>2, <2>3, <2>4 DEF Next, RegistryNext
<1>2. QED
  BY InitRegistry, <1>1, PTL DEF Spec

\* Every reachable state is well typed: among others, a server never calls
\* more often than max_retries, and every registry holds calls of servers.
THEOREM RegistryTypes == Spec => []TypeOK
<1>1. RegistryInv => TypeOK
  BY DEF RegistryInv, CallsInv
<1>2. QED
  BY RegistryInductive, <1>1, PTL

\* One call makes at most one entry, in the registry it was sent to, however
\* many servers join, retry, die and start again (Register, Peers::add).
THEOREM EntriesStayDistinct == Spec => []EntriesAreDistinctCalls
<1>1. RegistryInv => EntriesAreDistinctCalls
  BY DEF RegistryInv, CallsInv
<1>2. QED
  BY RegistryInductive, <1>1, PTL

\* A server whose registration was acknowledged is listed by its peer until
\* that process ends; a peer that was restarted has another epoch than the
\* acknowledgement (join(), Peers::add).
THEOREM AcknowledgedServersAreListed == Spec => []AcknowledgedJoinsAreListed
<1>1. RegistryInv => AcknowledgedJoinsAreListed
  BY DEF RegistryInv, AcksInv
<1>2. QED
  BY RegistryInductive, <1>1, PTL

\* A server told to join nobody is never refused by itself, because its port
\* is open before it joins: as long as no call is lost on the way, one it made
\* to itself is there to be served or answered (RunServer's order).
THEOREM ServersJoinThemselves == Spec => []SelfJoinSucceeds
<1>1. RegistryInv => SelfJoinSucceeds
  BY DEF RegistryInv, OwnInv
<1>2. QED
  BY RegistryInductive, <1>1, PTL

\* All entries of a server in one registry are its last call, so there is but
\* one; and there is one when its join succeeded.
LEMMA OneEntry ==
    ASSUME RegistryInv, losses = 0, crashes = 0,
           NEW s \in Servers, NEW t \in Servers
    PROVE  /\ \A i, j \in Entries(s, t) : i = j
           /\ t = Peer[s] /\ client[s] = "ok" => Entries(s, t) # {}
<1>1. \A i \in Entries(s, t) :
          /\ peers[t][i] \in Call
          /\ peers[t][i].from = s /\ peers[t][i].to = t
          /\ peers[t][i].number = sent[s]
  <2>1. \A i \in DOMAIN peers[t] : peers[t][i] \in Call
    BY ListedCalls DEF RegistryInv, CallsInv
  <2>2. QED
    BY <2>1 DEF RegistryInv, CallsInv, EntriesAreDistinctCalls, LastCallOnly, Entries
<1>2. \A i, j \in Entries(s, t) : peers[t][i] = peers[t][j]
  BY <1>1, SameCall
<1>3. \A i, j \in Entries(s, t) : i = j
  BY <1>2 DEF RegistryInv, CallsInv, EntriesAreDistinctCalls, Entries
<1>4. t = Peer[s] /\ client[s] = "ok" => Up(t) /\ epoch[t] = ackedIn[s]
  BY DEF RegistryInv, LastCallOnly
<1>5. t = Peer[s] /\ client[s] = "ok" => Entries(s, t) # {}
  BY <1>4 DEF RegistryInv, AcksInv, AcknowledgedJoinsAreListed
<1>6. QED
  BY <1>3, <1>5

\* Without faults no server is listed twice, whatever calls were refused and
\* repeated before the peer was up: a refused call leaves nothing behind.
THEOREM RetriesListOnce == Spec => []ListedOnceWithoutFaults
<1>1. RegistryInv => ListedOnceWithoutFaults
  <2> SUFFICES ASSUME RegistryInv, losses = 0, crashes = 0,
                      NEW s \in Servers, NEW t \in Servers
               PROVE  /\ Cardinality(Entries(s, t)) <= 1
                      /\ t = Peer[s] /\ client[s] = "ok"
                            => Cardinality(Entries(s, t)) = 1
    BY DEF ListedOnceWithoutFaults
  <2>1. CASE Entries(s, t) = {}
    <3>1. Cardinality(Entries(s, t)) = 0
      BY <2>1, FS_EmptySet
    <3>2. QED
      BY <2>1, <3>1, OneEntry
  <2>2. CASE Entries(s, t) # {}
    <3>1. PICK i \in Entries(s, t) : TRUE
      BY <2>2
    <3>2. Entries(s, t) = {i}
      BY <3>1, OneEntry
    <3>3. Cardinality(Entries(s, t)) = 1
      BY <3>2, FS_Singleton
    <3>4. QED
      BY <3>3
  <2>3. QED
    BY <2>1, <2>2
<1>2. QED
  BY RegistryInductive, <1>1, PTL
=============================================================================

------------------------------ MODULE Registry ------------------------------
(***************************************************************************)
(* The server registry (src/peers/server_registry.cc).  A starting server  *)
(* opens its gRPC port, then registers itself at the server its arguments  *)
(* name (itself if they name none) with a call it repeats up to five times, *)
(* and only then listens for SQL clients (RunServer).  The arguments are    *)
(* those of a caller of RunServer, like the integration test's; main() is  *)
(* not modelled, because the gRPC address it passes on has no value.       *)
(*                                                                         *)
(* A registry lives in the memory of one process.  Register runs on a gRPC *)
(* thread of the peer under the lock of the registry.                      *)
(***************************************************************************)
EXTENDS Naturals, Sequences, FiniteSets, SequencesExt

CONSTANTS
    Servers,
    Args,         \* Args[s]: the ImmutableInfo RunServer of s is called with
    Empty,        \* the empty string
    MaxRetries,   \* max_retries, 5 in the code
    MaxCrashes,   \* bound: processes that are killed
    MaxLosses     \* bound: calls that fail although the peer is up

ASSUME ArgsAssumption ==
    Empty \notin Servers /\ \A s \in Servers : Args[s].grpc_addr = s

ASSUME BoundAssumption ==
    MaxRetries \in Nat \ {0} /\ MaxCrashes \in Nat /\ MaxLosses \in Nat

VARIABLES
    phase,     \* "down", "joining" (in join()) or "serving"
    epoch,     \* how often each server was started
    attempt,   \* `attempt' of the loop in join()
    client,    \* status of the last call: none yet, "waiting", "ok", "failed"
    sent,      \* Register calls each server has made, over all its runs
    calls,     \* requests on their way to a handler
    replies,   \* answers on their way back
    peers,     \* Peers::peers of each server, a list of the calls it holds
    ackedIn,   \* history: the run of the peer that answered "ok"
    crashes,   \* processes ended so far
    losses     \* calls that failed although the peer was up

joinVars == <<attempt, client, sent, ackedIn>>
net == <<calls, replies, losses>>
registryVars == <<phase, epoch, attempt, client, sent, calls, replies, peers,
                  ackedIn, crashes, losses>>

-----------------------------------------------------------------------------
(* Data.                                                                   *)

\* A server is known by its gRPC address.
ImmutableInfo(sql_addr, grpc_addr, data_dir, region, join) ==
    [sql_addr |-> sql_addr, grpc_addr |-> grpc_addr, data_dir |-> data_dir,
     region |-> region, join |-> join]

\* Where join() calls Register: at oneself, or at what the arguments say,
\* which need not be the address of a server.
Peer == [s \in Servers |->
            IF Args[s].join = Empty THEN Args[s].grpc_addr ELSE Args[s].join]

Region == [s \in Servers |-> Args[s].region]

\* A Register request: who sent it to whom, and the how manieth it is.
Call == [from : Servers, to : Servers, number : Nat]

\* Mutant: the gRPC server is started after join().
UpWhenServing(s) == phase[s] = "serving"

\* The gRPC port is open before join() starts.
Up(s) == s \in Servers /\ phase[s] # "down"

AddTwice(list, c) == list \o <<c, c>>   \* mutant

AddOverwriting(list, c) == <<c>>        \* mutant

\* Peers::add appends, whatever is there.
Add(list, c) == Append(list, c)

-----------------------------------------------------------------------------
Init ==
    /\ phase = [s \in Servers |-> "down"]
    /\ epoch = [s \in Servers |-> 0]
    /\ attempt = [s \in Servers |-> 0]
    /\ client = [s \in Servers |-> "none"]
    /\ sent = [s \in Servers |-> 0]
    /\ calls = {}
    /\ replies = {}
    /\ peers = [s \in Servers |-> << >>]
    /\ ackedIn = [s \in Servers |-> 0]
    /\ crashes = 0
    /\ losses = 0

\* RunServer up to the call of join().
Start(s) ==
    /\ phase[s] = "down"
    /\ phase' = [phase EXCEPT ![s] = "joining"]
    /\ epoch' = [epoch EXCEPT ![s] = @ + 1]
    /\ UNCHANGED <<joinVars, net, peers, crashes>>

\* Mutant: the loop of join() has no break.
TriesAfterSuccess(s) ==
    client[s] \in {"none", "ok", "failed"} /\ attempt[s] < MaxRetries

\* Mutant: the loop runs once too often.
TriesOnceMore(s) ==
    client[s] \in {"none", "failed"} /\ attempt[s] <= MaxRetries

\* The loop goes round again.
TriesAgain(s) == client[s] \in {"none", "failed"} /\ attempt[s] < MaxRetries

\* One round of the loop in join(): the request leaves if the peer is up.
SendRegister(s) ==
    /\ phase[s] = "joining"
    /\ TriesAgain(s)
    /\ attempt' = [attempt EXCEPT ![s] = @ + 1]
    /\ sent' = [sent EXCEPT ![s] = @ + 1]
    /\ client' = [client EXCEPT ![s] = "waiting"]
    /\ calls' = IF Up(Peer[s])
                THEN calls \cup {[from |-> s, to |-> Peer[s],
                                  number |-> sent[s] + 1]}
                ELSE calls
    /\ UNCHANGED <<phase, epoch, replies, losses, peers, ackedIn, crashes>>

\* RegistryService::Register and Peers::add on a gRPC thread.
Register(c) ==
    /\ c \in calls
    /\ peers' = [peers EXCEPT ![c.to] = Add(@, c)]
    /\ calls' = calls \ {c}
    /\ replies' = replies \cup {[call |-> c, epoch |-> epoch[c.to]]}
    /\ UNCHANGED <<phase, epoch, joinVars, crashes, losses>>

Current(s, c) == c.from = s /\ c.number = sent[s]

GetReply(s) ==
    /\ client[s] = "waiting"
    /\ \E r \in replies :
          /\ Current(s, r.call)
          /\ client' = [client EXCEPT ![s] = "ok"]
          /\ ackedIn' = [ackedIn EXCEPT ![s] = r.epoch]
          /\ replies' = replies \ {r}
    /\ UNCHANGED <<phase, epoch, attempt, sent, calls, peers, crashes,
                   losses>>

Lost(s) ==
    /\ ~\E c \in calls : Current(s, c)
    /\ ~\E r \in replies : Current(s, r.call)

\* The connection is refused or reset.  A request that reached the peer may
\* still be served after the client gave up on it.
CallFails(s) ==
    /\ client[s] = "waiting"
    /\ client' = [client EXCEPT ![s] = "failed"]
    /\ \/ Lost(s) /\ UNCHANGED net
       \/ /\ ~Lost(s)
          /\ losses < MaxLosses
          /\ losses' = losses + 1
          /\ replies' = {r \in replies : ~Current(s, r.call)}
          /\ \/ UNCHANGED calls
             \/ calls' = {c \in calls : ~Current(s, c)}
    /\ UNCHANGED <<phase, epoch, attempt, sent, peers, ackedIn, crashes>>

\* Mutant: the loop is left on success only.
LeavesWhenAccepted(s) == client[s] = "ok"

\* `break', after a success or the last attempt.
LeavesLoop(s) ==
    \/ client[s] = "ok"
    \/ client[s] = "failed" /\ attempt[s] = MaxRetries

\* join() returns OK whatever became of its calls.
Serve(s) ==
    /\ phase[s] = "joining"
    /\ LeavesLoop(s)
    /\ phase' = [phase EXCEPT ![s] = "serving"]
    /\ UNCHANGED <<epoch, joinVars, net, peers, crashes>>

\* The process ends: its memory is gone and its connections are reset.
Die(s) ==
    /\ Up(s)
    /\ crashes' = crashes + 1
    /\ phase' = [phase EXCEPT ![s] = "down"]
    /\ attempt' = [attempt EXCEPT ![s] = 0]
    /\ client' = [client EXCEPT ![s] = "none"]
    /\ ackedIn' = [ackedIn EXCEPT ![s] = 0]
    /\ calls' = {c \in calls : c.to # s}
    /\ replies' = {r \in replies : s \notin {r.call.to, r.call.from}}
    /\ peers' = [peers EXCEPT ![s] = << >>]
    /\ UNCHANGED <<epoch, sent, losses>>

Crash(s) == crashes < MaxCrashes /\ Die(s)

-----------------------------------------------------------------------------
Join(s) == SendRegister(s) \/ GetReply(s) \/ CallFails(s) \/ Serve(s)

RegistryNext ==
    \/ \E s \in Servers : Start(s) \/ Join(s)
    \/ \E c \in calls : Register(c)

Next ==
    \/ RegistryNext
    \/ \E s \in Servers : Crash(s)

\* The starting thread goes on and gRPC threads serve what arrives; nobody has
\* to start a server or to crash.
RegistryFairness ==
    /\ \A s \in Servers : WF_registryVars(Join(s))
    /\ WF_registryVars(\E c \in calls : Register(c))

Spec == Init /\ [][Next]_registryVars

FairSpec == Spec /\ RegistryFairness

-----------------------------------------------------------------------------
(* Properties.                                                             *)

Phases == {"down", "joining", "serving"}

\* Every variable stays within its type and every registry holds calls that
\* were really made.
TypeOK ==
    /\ phase \in [Servers -> Phases]
    /\ epoch \in [Servers -> Nat]
    /\ attempt \in [Servers -> 0 .. MaxRetries]
    /\ client \in [Servers -> {"none", "waiting", "ok", "failed"}]
    /\ sent \in [Servers -> Nat]
    /\ calls \subseteq Call
    /\ replies \subseteq [call : Call, epoch : Nat]
    /\ peers \in [Servers -> Seq(Call)]
    /\ ackedIn \in [Servers -> Nat]
    /\ crashes \in Nat
    /\ losses \in 0 .. MaxLosses

Entries(s, t) == {i \in DOMAIN peers[t] : peers[t][i].from = s}

\* A server that was told its registration succeeded is in the registry of
\* its peer for as long as that process runs, whoever registers, retries or
\* looks servers up meanwhile (Register, Peers::add).
AcknowledgedJoinsAreListed ==
    \A s \in Servers :
        LET t == Peer[s]
        IN  client[s] = "ok" /\ Up(t) /\ epoch[t] = ackedIn[s]
                => \E i \in Entries(s, t) : peers[t][i].number = sent[s]

\* One call makes at most one entry, and only in the registry it was sent to:
\* lost answers and late requests never repeat a call by themselves.
EntriesAreDistinctCalls ==
    \A t \in Servers : \A i, j \in DOMAIN peers[t] :
        /\ peers[t][i].to = t
        /\ peers[t][i].number <= sent[peers[t][i].from]
        /\ peers[t][i] = peers[t][j] => i = j
        /\ peers[t][i] \notin calls

\* Retries alone do not repeat an entry: as long as no server was restarted
\* and no call to a live peer failed, a server is at most once in a registry
\* and exactly once in its peer's when its join succeeded (join()).
ListedOnceWithoutFaults ==
    losses = 0 /\ crashes = 0
        => \A s, t \in Servers :
              /\ Cardinality(Entries(s, t)) <= 1
              /\ t = Peer[s] /\ client[s] = "ok"
                    => Cardinality(Entries(s, t)) = 1

\* A server without a --join address registers with itself and must not be
\* refused: its own port is open before it joins (RunServer's order).
SelfJoinSucceeds ==
    \A s \in Servers :
        Peer[s] = s /\ losses = 0 => client[s] # "failed"

\* join() ends, whatever happens to its calls and to the peer.
JoinsEnd ==
    \A s \in Servers : phase[s] = "joining" ~> phase[s] # "joining"

\* Only a server that joined goes on to serve: RunServer stops with "failed
\* to join peer" otherwise.  Expected to be violated by a server that is started
\* before its peer.
ServingServersJoined ==
    \A s \in Servers : phase[s] = "serving" => client[s] = "ok"
=============================================================================

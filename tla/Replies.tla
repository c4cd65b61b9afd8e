------------------------------ MODULE Replies ------------------------------
(***************************************************************************)
(* The replies of a server to one client (src/pg_wire/pg_wire.cc): messages *)
(* encoded one after the other into a buffer that is sent with one call,   *)
(* and the client that cuts the bytes it receives into messages again by   *)
(* their length words.  Session says when which reply is sent.             *)
(*                                                                         *)
(* A byte is a number: the type of a message is its letter's code, a number *)
(* of several bytes is its value followed by dots, any other byte is a dot. *)
(* Texts are their lengths.                                                *)
(***************************************************************************)
EXTENDS Naturals, Integers, Sequences, SequencesExt

CONSTANTS
    Params,       \* run-time parameters: records of two lengths and a name
    Batches,      \* results: the lengths of column names, and of cells by row
    ErrorTexts,   \* lengths of error messages
    Rooms         \* free space the send buffer of the socket may have

ASSUME ParamAssumption ==
    /\ IsFiniteSet(Params)
    /\ \A param \in Params : param.key \in Nat /\ param.value \in Nat

\* Each row of a result has a cell for each of its columns.
ASSUME BatchAssumption ==
    \A batch \in Batches :
        /\ batch.names \in Seq(Nat) /\ batch.rows \in Seq(Seq(Nat))
        /\ batch.rows # << >>
        /\ \A i \in DOMAIN batch.rows :
              Len(batch.rows[i]) = Len(batch.names)

ASSUME LengthAssumption == ErrorTexts \subseteq Nat /\ Rooms \subseteq Nat

VARIABLES
    meant,      \* history: the messages encoded since the client asked
    wire,       \* bytes on their way
    inbox,      \* bytes the client has received and not understood yet
    seen,       \* messages the client has read since it asked
    cut         \* a call of send took only a part of the buffer

replyVars == <<meant, wire, inbox, seen, cut>>

-----------------------------------------------------------------------------
(* Encoders.                                                               *)

\* At most n bytes from the beginning.
Take(bytes, n) == SubSeq(bytes, 1, IF n < Len(bytes) THEN n ELSE Len(bytes))

Code == [R |-> 82, S |-> 83, K |-> 75, Z |-> 90, T |-> 84, D |-> 68, C |-> 67,
         I |-> 73, E |-> 69, M |-> 77, N |-> 78, Q |-> 81, X |-> 88]

Dot == 46

Bytes(n) == [i \in 1 .. n |-> Dot]

Int32(n) == <<n>> \o Bytes(3)
Int16(n) == <<n>> \o Bytes(1)
CString(n) == Bytes(n) \o <<0>>

\* Mutant: the length is counted from the type byte.
WithLengthOfAll(buffer, pre) ==
    [buffer EXCEPT ![pre + 1] = Len(buffer) - pre + 1]

\* write_int32 over the placeholder at offset pre.
WithLength(buffer, pre) == [buffer EXCEPT ![pre + 1] = Len(buffer) - pre]

AuthenticationOk(buffer) == buffer \o <<Code.R>> \o Int32(8) \o Int32(0)

EmptyQueryResponse(buffer) == buffer \o <<Code.I>> \o Int32(4)

\* One field of a row description: a string column.
Field(name) ==
    CString(name) \o Int32(0) \o Int16(0) \o Int32(25) \o Int16(-1)
        \o Int32(0) \o Int16(0)

RowDescription(buffer, names) ==
    LET head == buffer \o <<Code.T>>
    IN  WithLength(head \o Int32(0) \o Int16(Len(names))
                        \o FlattenSeq([i \in DOMAIN names |-> Field(names[i])]),
                   Len(head))

\* Mutant: the length word of an empty cell is left out.
CellUnlessEmpty(n) == IF n = 0 THEN << >> ELSE Int32(n) \o Bytes(n)

Cell(n) == Int32(n) \o Bytes(n)

\* One row of DataRowResponse.
DataRow(buffer, cells) ==
    LET head == buffer \o <<Code.D>>
    IN  WithLength(head \o Int32(0) \o Int16(Len(cells))
                        \o FlattenSeq([i \in DOMAIN cells |-> Cell(cells[i])]),
                   Len(head))

\* The tag is "SELECT 0".
CommandComplete(buffer) ==
    LET head == buffer \o <<Code.C>>
    IN  WithLength(head \o Int32(0) \o CString(8), Len(head))

\* 'S' "ERROR", 'M' and the text, and a zero byte.
ErrorResponse(buffer, text) ==
    LET severity == <<Code.S>> \o CString(5)
        message == <<Code.M>> \o CString(text)
    IN  buffer \o <<Code.E>> \o Int32(4 + Len(severity) + Len(message) + 1)
               \o severity \o message \o <<0>>

ParameterStatus(buffer, param) ==
    buffer \o <<Code.S>> \o Int32(4 + param.key + 1 + param.value + 1)
           \o CString(param.key) \o CString(param.value)

BackendKeyData(buffer) == buffer \o <<Code.K>> \o Int32(12) \o Int32(0) \o Int32(0)

ReadyForQuery(buffer) == buffer \o <<Code.Z>> \o Int32(5) \o <<Code.I>>

Encode(buffer, msg) ==
    CASE msg.kind = "auth" -> AuthenticationOk(buffer)
      [] msg.kind = "param" -> ParameterStatus(buffer, msg.param)
      [] msg.kind = "key" -> BackendKeyData(buffer)
      [] msg.kind = "ready" -> ReadyForQuery(buffer)
      [] msg.kind = "empty" -> EmptyQueryResponse(buffer)
      [] msg.kind = "fields" -> RowDescription(buffer, msg.names)
      [] msg.kind = "row" -> DataRow(buffer, msg.cells)
      [] msg.kind = "complete" -> CommandComplete(buffer)
      [] msg.kind = "error" -> ErrorResponse(buffer, msg.text)

Kind(kind) == [kind |-> kind]

\* NetworkPackage: what is encoded for the first n messages, for each n.
Package(messages) ==
    LET package[n \in 0 .. Len(messages)] ==
            IF n = 0 THEN << >> ELSE Encode(package[n - 1], messages[n])
    IN  package

\* The bytes of each message of a package.
Parts(messages) ==
    [n \in DOMAIN messages |->
        LET before == Len(Package(messages)[n - 1])
            all == Package(messages)[n]
        IN  SubSeq(all, before + 1, Len(all))]

-----------------------------------------------------------------------------
(* The server.                                                             *)

ReplyInit ==
    /\ meant = << >>
    /\ wire = << >>
    /\ inbox = << >>
    /\ seen = << >>
    /\ cut = FALSE

\* send() on a socket that does not block takes what fits; its result is
\* ignored.
SendAll(messages) ==
    LET buffer == Package(messages)[Len(messages)] IN
    /\ meant' = meant \o Parts(messages)
    /\ \E room \in Rooms :
          /\ wire' = wire \o Take(buffer, room)
          /\ cut' = (cut \/ room < Len(buffer))
    /\ UNCHANGED <<inbox, seen>>

\* The parameters are in an unordered_map.
SendReady ==
    \E order \in SetToSeqs(Params) :
        SendAll(<<Kind("auth")>>
                \o [i \in DOMAIN order |->
                      [kind |-> "param", param |-> order[i]]]
                \o <<Kind("key"), Kind("ready")>>)

\* What send_batch, send_empty_result and send_error encode.
Batch(batch) ==
    <<[kind |-> "fields", names |-> batch.names]>>
        \o [i \in DOMAIN batch.rows |-> [kind |-> "row", cells |-> batch.rows[i]]]
        \o <<Kind("complete"), Kind("ready")>>

EmptyResult == <<Kind("empty"), Kind("ready")>>

\* Mutant: no ReadyForQuery after an error.
ErrorOnly(text) == <<[kind |-> "error", text |-> text]>>

Error(text) == <<[kind |-> "error", text |-> text], Kind("ready")>>

\* 'N', no SSL: one byte that is no message.
SendNoSSL ==
    /\ wire' = Append(wire, Code.N)
    /\ UNCHANGED <<meant, inbox, seen, cut>>

-----------------------------------------------------------------------------
(* The client.                                                             *)

Arrive ==
    /\ wire # << >>
    /\ inbox' = Append(inbox, Head(wire))
    /\ wire' = Tail(wire)
    /\ UNCHANGED <<meant, seen, cut>>

ReadNoSSL ==
    /\ inbox = <<Code.N>>
    /\ inbox' = << >>
    /\ UNCHANGED <<meant, wire, seen, cut>>

\* A message is read once it is there as far as its length word says.
ReadMessage ==
    /\ Len(inbox) >= 5
    /\ Len(inbox) >= 1 + inbox[2]
    /\ seen' = Append(seen, SubSeq(inbox, 1, 1 + inbox[2]))
    /\ inbox' = SubSeq(inbox, 2 + inbox[2], Len(inbox))
    /\ UNCHANGED <<meant, wire, cut>>

ForgetReply ==
    /\ meant' = << >>
    /\ seen' = << >>
    /\ UNCHANGED <<wire, inbox, cut>>

-----------------------------------------------------------------------------
(* Properties.                                                             *)

\* Every message is cut from the stream where it was encoded to end, whatever
\* stands before it in the buffer and however the bytes arrive; also when the
\* end of the reply was lost in send() (the length words of all encoders).
MessagesAreFramed == IsPrefix(seen, meant)

\* Where the cells of a row lie: position of the k-th length word in it, 0 if
\* the row ends before.
CellStart(row) ==
    LET at[k \in 1 .. row[6] + 1] ==
            IF k = 1 THEN 8
            ELSE IF at[k - 1] \in DOMAIN row THEN at[k - 1] + 4 + row[at[k - 1]]
            ELSE 0
    IN  at

\* A row has as many cells as its description has fields, and they fill it to
\* the last byte.
RowsFitTheirDescription ==
    \A i \in DOMAIN seen :
        seen[i][1] = Code.D =>
            /\ seen[1][1] = Code.T
            /\ seen[i][6] = seen[1][6]
            /\ CellStart(seen[i])[seen[i][6] + 1] = Len(seen[i]) + 1
=============================================================================

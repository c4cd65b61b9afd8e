----------------------------- MODULE MCSession -----------------------------
(***************************************************************************)
(* An instance of Session for TLC.  The receive buffer is so short that one *)
(* query just fits and another does not; a query may hold the letters that *)
(* begin a message of their own; three of the five parameters of           *)
(* send_ready; the smallest results that differ in columns, rows and empty *)
(* cells.                                                                  *)
(***************************************************************************)
EXTENDS Session

Param(name, key, value) == [name |-> name, key |-> key, value |-> value]

ServerParams ==
    {Param("DateStyle", 9, 7), Param("integer_datetimes", 17, 2),
     Param("server_version", 14, 4)}

SmallBatches ==
    {[names |-> <<1>>, rows |-> <<<<0>>>>],
     [names |-> <<2, 0>>, rows |-> <<<<1, 0>>, <<0, 2>>>>],
     [names |-> <<1, 1>>, rows |-> <<<<2, 1>>>>]}

SmallTexts == {0, 3}

\* A full buffer, one that takes a part of most replies, and an empty one.
SomeRooms == {0, 20, 1000}

AskFor(text, statements) == [text |-> text, statements |-> statements]

\* "s"; ";", no statement; "XX", two statements; "iiQii", which just fits; and
\* "tttttQX", which does not.
SomeQueries ==
    {AskFor(<<115>>, <<"select">>),
     AskFor(<<59>>, << >>),
     AskFor(<<88, 88>>, <<"ddl", "select">>),
     AskFor(<<105, 105, 81, 105, 105>>, <<"insert">>),
     AskFor(<<116, 116, 116, 116, 116, 81, 88>>, <<"transaction">>)}

BufferSize == 11

ShortStartUp == <<117, 0>>

BehindTheBuffer == <<1>>
=============================================================================

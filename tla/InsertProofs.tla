---------------------------- MODULE InsertProofs ----------------------------
(***************************************************************************)
(* Insert, proved for any set of servers, any statements and constraints,  *)
(* and any number of INSERTs, crashes and lost calls.                      *)
(*                                                                         *)
(* HistoryInv is inductive.  It ties what is on its way and what a         *)
(* statement is doing to the rows handled so far: the request on its way,  *)
(* and there is at most one for an INSERT, is for the row that comes next. *)
(***************************************************************************)
EXTENDS Insert, RegistryProofs

USE InsertsAssumption, BoundAssumption

Numbers == 1 .. MaxInserts

RowCall ==
    [from : Servers, to : Servers, number : Numbers, row : Nat,
     wanted : {stmt.place[v] : stmt \in Statements, v \in Values}]

Running ==
    [step : Steps, number : Numbers, stmt : Statements, next : Nat,
     settled : BOOLEAN]

SqlTypeOK ==
    /\ inserts \in 0 .. MaxInserts
    /\ insert \in [Servers -> Running \cup {None}]
    /\ rowCalls \subseteq RowCall
    /\ rowReplies \subseteq RowCall
    /\ handled \in [Numbers -> Seq(RowCall)]
    /\ \A a \in answers :
          a.number \in Numbers /\ a.next \in Nat /\ a.status \in {"ok", "error"}

\* An INSERT is executed by one thread or was answered, never both, and has
\* no rows before it has begun.
NumbersAreUsedOnce ==
    /\ \A s \in Servers : insert[s] # None => insert[s].number <= inserts
    /\ \A s, t \in Servers :
          insert[s] # None /\ insert[t] # None
              /\ insert[s].number = insert[t].number => s = t
    /\ \A a \in answers :
          /\ a.number <= inserts
          /\ \A s \in Servers : insert[s] # None => insert[s].number # a.number
    /\ \A c \in rowCalls \cup rowReplies : c.number <= inserts
    /\ \A n \in Numbers : n > inserts => handled[n] = << >>

\* At most one row of an INSERT is on its way, the one after those handled.
OneRowAtATime ==
    /\ \A c \in rowCalls : c.row = Len(handled[c.number]) + 1
    /\ \A b, c \in rowCalls : b.number = c.number => b = c
    /\ \A c \in rowReplies : c.row <= Len(handled[c.number])

\* A statement has had all rows before the one it is at handled, and that one
\* only while it waits for the answer.
RunningMatchesRows ==
    \A s \in Servers :
        insert[s] # None =>
            LET number == insert[s].number
                next == insert[s].next
                count == Len(handled[number])
            IN  /\ next \in DOMAIN insert[s].stmt.rows
                /\ \/ count = next - 1
                   \/ count = next /\ insert[s].step = "wait"
                /\ \A c \in rowCalls :
                      c.number = number =>
                          insert[s].step = "wait" /\ c.row = next

\* After the answer only the row the INSERT failed at may still be handled.
AnsweredMatchesRows ==
    \A a \in answers :
        LET count == Len(handled[a.number])
        IN  /\ IF a.status = "ok" THEN count = Len(a.stmt.rows)
               ELSE count \in {a.next - 1, a.next}
            /\ \A c \in rowCalls :
                  c.number = a.number => a.status = "error" /\ c.row = a.next

\* A request goes to a server whose entry matches.
CallsMatch ==
    /\ \A c \in rowCalls : Matches(c.to, c.wanted)
    /\ \A n \in Numbers : \A i \in DOMAIN handled[n] :
          Matches(handled[n][i].to, handled[n][i].wanted)

InOrder ==
    \A n \in Numbers : \A i \in DOMAIN handled[n] : handled[n][i].row = i

\* Only a server that serves executes statements, and a copy is raced only
\* while it is made.
ThreadsServe ==
    /\ \A s \in Servers : insert[s] # None => phase[s] = "serving"
    /\ raced \subseteq {s \in Servers : In(s, "copy")}

HistoryInv ==
    /\ TypeOK /\ SqlTypeOK /\ ThreadsServe
    /\ NumbersAreUsedOnce /\ OneRowAtATime
    /\ RunningMatchesRows /\ AnsweredMatchesRows
    /\ CallsMatch /\ InOrder

-----------------------------------------------------------------------------
(* The registry.                                                           *)

LEMMA TypesStutter ==
    ASSUME TypeOK, UNCHANGED registryVars
    PROVE  TypeOK'
BY DEF TypeOK, registryVars

LEMMA JoinTypes ==
    ASSUME TypeOK, NEW s \in Servers, Start(s) \/ Join(s)
    PROVE  TypeOK'
BY StartTypes, SendRegisterTypes, GetReplyTypes, CallFailsTypes, ServeTypes
DEF Join

\* No server that serves leaves that phase by joining.
LEMMA JoinKeepsServing ==
    ASSUME TypeOK, NEW s \in Servers, Start(s) \/ Join(s),
           NEW t \in Servers, phase[t] = "serving"
    PROVE  phase'[t] = "serving"
<1>1. CASE Start(s)
  BY <1>1 DEF TypeOK, Start
<1>2. CASE Serve(s)
  BY <1>2 DEF TypeOK, Serve
<1>3. CASE SendRegister(s) \/ GetReply(s) \/ CallFails(s)
  BY <1>3 DEF SendRegister, GetReply, CallFails
<1>4. QED
  BY <1>1, <1>2, <1>3 DEF Join

-----------------------------------------------------------------------------
(* The statements.                                                         *)

LEMMA StatementFacts ==
    ASSUME NEW stmt \in Statements
    PROVE  /\ Len(stmt.rows) \in Nat
           /\ stmt.rows # << >> => Len(stmt.rows) > 0
           /\ stmt.rows = << >> => Len(stmt.rows) = 0
           /\ DOMAIN stmt.rows = 1 .. Len(stmt.rows)
           /\ \A i \in DOMAIN stmt.rows : stmt.rows[i].value \in Values
<1> DEFINE rows == stmt.rows
           KindOfRow == [value : Values, kind : RowKinds]
<1>1. rows \in Seq(KindOfRow)
  BY RowAssumption
<1>2. \A row \in KindOfRow : row.value \in Values
  OBVIOUS
<1> HIDE DEF rows, KindOfRow
<1>3. /\ Len(rows) \in Nat /\ DOMAIN rows = 1 .. Len(rows)
      /\ \A i \in 1 .. Len(rows) : rows[i] \in KindOfRow
  BY <1>1
<1>4. Len(rows) = 0 <=> rows = << >>
  BY <1>1
<1>5. QED
  BY <1>2, <1>3, <1>4 DEF rows

LEMMA HandledFacts ==
    ASSUME SqlTypeOK, NEW n \in Numbers
    PROVE  /\ handled[n] \in Seq(RowCall) /\ Len(handled[n]) \in Nat
           /\ DOMAIN handled[n] = 1 .. Len(handled[n])
<1>1. handled[n] \in Seq(RowCall)
  BY DEF SqlTypeOK
<1>2. QED
  BY <1>1

LEMMA InitHistory == InsertInit => HistoryInv
<1> SUFFICES ASSUME InsertInit PROVE HistoryInv
  OBVIOUS
<1>1. TypeOK
  BY InitTypes DEF InsertInit
<1>2. handled \in [Numbers -> Seq(RowCall)] /\ \A n \in Numbers : handled[n] = << >>
  BY DEF InsertInit, Numbers
<1>3. SqlTypeOK
  BY <1>2 DEF InsertInit, SqlTypeOK
<1>4. ThreadsServe
  BY DEF InsertInit, ThreadsServe
<1>5. NumbersAreUsedOnce /\ OneRowAtATime
  BY <1>2 DEF InsertInit, NumbersAreUsedOnce, OneRowAtATime
<1>6. RunningMatchesRows /\ AnsweredMatchesRows
  BY DEF InsertInit, RunningMatchesRows, AnsweredMatchesRows
<1>7. CallsMatch /\ InOrder
  BY <1>2 DEF InsertInit, CallsMatch, InOrder
<1>8. QED
  BY <1>1, <1>3, <1>4, <1>5, <1>6, <1>7 DEF HistoryInv

\* A new statement takes a number nothing has been done for.
LEMMA BeginHistory ==
    ASSUME HistoryInv, NEW s \in Servers, NEW stmt \in Statements,
           BeginInsert(s, stmt)
    PROVE  HistoryInv'
<1> DEFINE n == inserts + 1
           new == [step |-> "route", number |-> n, stmt |-> stmt,
                   next |-> 1, settled |-> Settled(s)]
<1>1. /\ inserts \in Nat /\ n \in Numbers /\ inserts' = n
      /\ insert[s] = None
  BY DEF HistoryInv, SqlTypeOK, BeginInsert, Numbers
<1>2. Settled(s) \in BOOLEAN
  BY DEF Settled
<1>3. /\ new \in Running /\ new.step = "route" /\ new.number = n
      /\ new.stmt = stmt /\ new.next = 1
  BY <1>1, <1>2 DEF Running, Steps
<1>4. insert' = [insert EXCEPT ![s] = new]
  BY DEF BeginInsert
<1> HIDE DEF new
<1>5. /\ insert'[s] = new
      /\ \A t \in Servers : t # s => insert'[t] = insert[t]
      /\ insert' \in [Servers -> Running \cup {None}]
  BY <1>3, <1>4 DEF HistoryInv, SqlTypeOK
<1>6. /\ UNCHANGED <<raced, rowCalls, rowReplies, handled, answers>>
      /\ UNCHANGED phase /\ UNCHANGED registryVars
  BY DEF BeginInsert, registryVars
<1>7. /\ handled[n] = << >> /\ Len(handled[n]) = 0
      /\ \A c \in rowCalls \cup rowReplies : c.number # n /\ c.number \in Numbers
      /\ \A a \in answers : a.number # n /\ a.number \in Numbers
      /\ \A t \in Servers : insert[t] # None => insert[t].number # n /\ insert[t].number \in Numbers
  BY <1>1 DEF HistoryInv, SqlTypeOK, NumbersAreUsedOnce, RowCall, Running, Numbers
<1>8. TypeOK'
  BY <1>6, TypesStutter DEF HistoryInv
<1>9. SqlTypeOK'
  BY <1>1, <1>5, <1>6 DEF HistoryInv, SqlTypeOK, Numbers
<1>10. ThreadsServe'
  BY <1>1, <1>5, <1>6 DEF HistoryInv, ThreadsServe, In, BeginInsert
<1>11. NumbersAreUsedOnce'
  <2>1. \A t \in Servers : insert'[t] # None => insert'[t].number <= n
    BY <1>1, <1>3, <1>5, <1>7 DEF HistoryInv, NumbersAreUsedOnce, Numbers
  <2>2. \A t, u \in Servers :
            insert'[t] # None /\ insert'[u] # None
                /\ insert'[t].number = insert'[u].number => t = u
    BY <1>3, <1>5, <1>7 DEF HistoryInv, NumbersAreUsedOnce
  <2>3. \A a \in answers :
            /\ a.number <= n
            /\ \A t \in Servers : insert'[t] # None => insert'[t].number # a.number
    BY <1>1, <1>3, <1>5, <1>7 DEF HistoryInv, NumbersAreUsedOnce, Numbers
  <2>4. \A c \in rowCalls \cup rowReplies : c.number <= n
    BY <1>1, <1>7 DEF HistoryInv, NumbersAreUsedOnce, Numbers
  <2>5. \A m \in Numbers : m > n => handled[m] = << >>
    BY <1>1 DEF HistoryInv, NumbersAreUsedOnce, Numbers
  <2>6. QED
    BY <1>1, <1>6, <2>1, <2>2, <2>3, <2>4, <2>5 DEF NumbersAreUsedOnce
<1>12. OneRowAtATime' /\ CallsMatch' /\ InOrder'
  BY <1>6 DEF HistoryInv, OneRowAtATime, CallsMatch, InOrder
<1>13. RunningMatchesRows'
  <2>1. 1 \in DOMAIN stmt.rows
    BY StatementFacts DEF BeginInsert
  <2>2. QED
    BY <1>1, <1>3, <1>5, <1>6, <1>7, <2>1 DEF HistoryInv, RunningMatchesRows
<1>14. AnsweredMatchesRows'
  BY <1>6 DEF HistoryInv, AnsweredMatchesRows
<1>15. QED
  BY <1>8, <1>9, <1>10, <1>11, <1>12, <1>13, <1>14 DEF HistoryInv

\* What becomes of everybody else when a thread answers.
LEMMA ReplyFacts ==
    ASSUME HistoryInv, NEW s \in Servers, insert[s] # None,
           NEW status \in {"ok", "error"}, Reply(s, status)
    PROVE  /\ insert' \in [Servers -> Running \cup {None}]
           /\ insert'[s] = None
           /\ \A t \in Servers : t # s => insert'[t] = insert[t]
           /\ insert[s] \in Running /\ insert[s].number \in Numbers
           /\ insert[s].number <= inserts
           /\ \E a \in answers' :
                 /\ answers' = answers \cup {a}
                 /\ a.number = insert[s].number /\ a.status = status
                 /\ a.stmt = insert[s].stmt /\ a.next = insert[s].next
                 /\ a.settled = insert[s].settled
<1>1. insert[s] \in Running /\ insert[s].number \in Numbers
  BY DEF HistoryInv, SqlTypeOK, Running
<1>2. insert[s].number <= inserts
  BY DEF HistoryInv, NumbersAreUsedOnce
<1>3. insert' = [insert EXCEPT ![s] = None]
  BY DEF Reply
<1>4. /\ insert' \in [Servers -> Running \cup {None}]
      /\ insert'[s] = None
      /\ \A t \in Servers : t # s => insert'[t] = insert[t]
  BY <1>3 DEF HistoryInv, SqlTypeOK
<1> DEFINE new == [number |-> insert[s].number, status |-> status,
                   stmt |-> insert[s].stmt,
                   next |-> insert[s].next, settled |-> insert[s].settled]
<1>5. /\ answers' = answers \cup {new}
      /\ new.number = insert[s].number /\ new.status = status
      /\ new.stmt = insert[s].stmt /\ new.next = insert[s].next
      /\ new.settled = insert[s].settled
  BY DEF Reply
<1> HIDE DEF new
<1>6. QED
  BY <1>1, <1>2, <1>4, <1>5

\* A statement that ends leaves its number to its answer.  What is asked of
\* the caller is that the answer is true: count is right, and no row of the
\* statement is on its way unless it failed at that row.
LEMMA ReplyHistory ==
    ASSUME HistoryInv, NEW s \in Servers, insert[s] # None,
           NEW status \in {"ok", "error"}, Reply(s, status),
           TypeOK',
           \A t \in Servers : phase[t] = "serving" => phase'[t] = "serving",
           inserts' = inserts, handled' = handled,
           raced' \subseteq raced, s \notin raced',
           rowCalls' \subseteq rowCalls, rowReplies' \subseteq rowReplies,
           status = "ok" =>
               /\ Len(handled[insert[s].number]) = Len(insert[s].stmt.rows)
               /\ \A c \in rowCalls' : c.number # insert[s].number
    PROVE  HistoryInv'
<1> DEFINE n == insert[s].number
<1>1. /\ insert' \in [Servers -> Running \cup {None}]
      /\ insert'[s] = None
      /\ \A t \in Servers : t # s => insert'[t] = insert[t]
      /\ insert[s] \in Running /\ n \in Numbers /\ n <= inserts
  BY ReplyFacts
<1>2. PICK a \in answers' :
          /\ answers' = answers \cup {a}
          /\ a.number = n /\ a.status = status
          /\ a.stmt = insert[s].stmt /\ a.next = insert[s].next
  BY ReplyFacts
<1> HIDE DEF n
<1>3. insert[s].next \in Nat
  BY <1>1 DEF Running
<1>4. SqlTypeOK'
  BY <1>1, <1>2, <1>3 DEF HistoryInv, SqlTypeOK
<1>5. ThreadsServe'
  BY <1>1 DEF HistoryInv, ThreadsServe, In
<1>6. NumbersAreUsedOnce'
  <2>1. \A t \in Servers : insert'[t] # None => t # s /\ insert[t] # None
    BY <1>1
  <2>2. \A b \in answers' :
            /\ b.number <= inserts
            /\ \A t \in Servers : insert'[t] # None => insert'[t].number # b.number
    BY <1>1, <1>2, <2>1 DEF HistoryInv, NumbersAreUsedOnce, n
  <2>3. QED
    BY <1>1, <2>1, <2>2 DEF HistoryInv, NumbersAreUsedOnce
<1>7. OneRowAtATime' /\ CallsMatch' /\ InOrder'
  BY DEF HistoryInv, OneRowAtATime, CallsMatch, InOrder
<1>8. RunningMatchesRows'
  BY <1>1 DEF HistoryInv, RunningMatchesRows
<1>9. AnsweredMatchesRows'
  <2>1. /\ IF status = "ok" THEN Len(handled[n]) = Len(insert[s].stmt.rows)
           ELSE Len(handled[n]) \in {insert[s].next - 1, insert[s].next}
        /\ \A c \in rowCalls' :
              c.number = n => status = "error" /\ c.row = insert[s].next
    BY DEF HistoryInv, RunningMatchesRows, n
  <2>2. QED
    BY <1>2, <2>1 DEF HistoryInv, AnsweredMatchesRows
<1>10. QED
  BY <1>4, <1>5, <1>6, <1>7, <1>8, <1>9 DEF HistoryInv

\* A statement answered at once has a number of its own, and no row handled.
LEMMA AnswerHistory ==
    ASSUME HistoryInv, inserts < MaxInserts, inserts' = inserts + 1,
           NEW new, answers' = answers \cup {new}, new.number = inserts + 1,
           new.status \in {"ok", "error"}, new.next \in {0, 1},
           new.status = "ok" => Len(new.stmt.rows) = 0,
           UNCHANGED <<insert, raced, rowCalls, rowReplies, handled>>,
           UNCHANGED registryVars
    PROVE  HistoryInv'
<1> DEFINE n == inserts + 1
<1>1. /\ inserts \in Nat /\ n \in Numbers /\ inserts' = n
  BY DEF HistoryInv, SqlTypeOK, Numbers
<1>2. /\ answers' = answers \cup {new} /\ new.number = n
      /\ new.status \in {"ok", "error"} /\ new.next \in {0, 1}
      /\ new.status = "ok" => Len(new.stmt.rows) = 0
  OBVIOUS
<1>3. UNCHANGED <<insert, raced, rowCalls, rowReplies, handled, phase, registryVars>>
  BY DEF registryVars
<1>4. /\ Len(handled[n]) = 0
      /\ \A c \in rowCalls : c.number # n
      /\ \A t \in Servers : insert[t] # None => insert[t].number # n
  BY <1>1 DEF HistoryInv, SqlTypeOK, NumbersAreUsedOnce, RowCall, Running, Numbers
<1>5. TypeOK'
  BY <1>3, TypesStutter DEF HistoryInv
<1>6. SqlTypeOK'
  BY <1>1, <1>2, <1>3 DEF HistoryInv, SqlTypeOK, Numbers
<1>7. ThreadsServe'
  BY <1>3 DEF HistoryInv, ThreadsServe, In
<1>8. NumbersAreUsedOnce'
  <2>1. /\ \A t \in Servers : insert[t] # None => insert[t].number <= n
        /\ \A c \in rowCalls \cup rowReplies : c.number <= n
        /\ \A m \in Numbers : m > n => handled[m] = << >>
    BY <1>1
    DEF HistoryInv, SqlTypeOK, NumbersAreUsedOnce, RowCall, Running, Numbers
  <2>2. \A a \in answers' :
            /\ a.number <= n
            /\ \A t \in Servers : insert[t] # None => insert[t].number # a.number
    BY <1>1, <1>2, <1>4 DEF HistoryInv, SqlTypeOK, NumbersAreUsedOnce, Numbers
  <2>3. QED
    BY <1>1, <1>3, <2>1, <2>2 DEF HistoryInv, NumbersAreUsedOnce
<1>9. OneRowAtATime' /\ RunningMatchesRows' /\ CallsMatch' /\ InOrder'
  BY <1>3 DEF HistoryInv, OneRowAtATime, RunningMatchesRows, CallsMatch, InOrder
<1>10. AnsweredMatchesRows'
  BY <1>2, <1>3, <1>4 DEF HistoryInv, AnsweredMatchesRows
<1>11. QED
  BY <1>5, <1>6, <1>7, <1>8, <1>9, <1>10 DEF HistoryInv

LEMMA RefuseHistory ==
    ASSUME HistoryInv, NEW s \in Servers, Refuse(s)
    PROVE  HistoryInv'
<1> DEFINE new == [number |-> inserts + 1, status |-> "error", stmt |-> None,
                   next |-> 0, settled |-> FALSE]
<1>1. answers' = answers \cup {new}
  BY DEF Refuse
<1>2. new.number = inserts + 1 /\ new.status = "error" /\ new.next = 0
  OBVIOUS
<1> HIDE DEF new
<1>3. QED
  BY <1>1, <1>2, AnswerHistory DEF Refuse

LEMMA SelectHistory ==
    ASSUME HistoryInv, NEW s \in Servers, NEW stmt \in Statements,
           InsertSelect(s, stmt)
    PROVE  HistoryInv'
<1> DEFINE new == [number |-> inserts + 1, status |-> "ok", stmt |-> stmt,
                   next |-> 1, settled |-> Settled(s)]
<1>1. answers' = answers \cup {new}
  BY DEF InsertSelect
<1>2. /\ new.number = inserts + 1 /\ new.status = "ok" /\ new.next = 1
      /\ new.stmt = stmt
  OBVIOUS
<1> HIDE DEF new
<1>3. Len(stmt.rows) = 0
  BY StatementFacts DEF InsertSelect
<1>4. QED
  BY <1>1, <1>2, <1>3, AnswerHistory DEF InsertSelect

\* A statement goes on.  What is asked of the caller is that the rows handled
\* and the row on its way are those of the place it goes on at.
LEMMA MoveHistory ==
    ASSUME HistoryInv, NEW s \in Servers, insert[s] # None,
           NEW new \in Running, insert' = [insert EXCEPT ![s] = new],
           new.number = insert[s].number, new.stmt = insert[s].stmt,
           UNCHANGED registryVars, UNCHANGED <<inserts, handled, answers>>,
           raced' \subseteq raced, s \notin raced',
           rowReplies' \subseteq rowReplies, rowCalls' \subseteq RowCall,
           \A c \in rowCalls' :
               \/ c \in rowCalls /\ c.number # new.number
               \/ /\ c.number = new.number /\ c.row = new.next
                  /\ c.row = Len(handled[new.number]) + 1
                  /\ new.step = "wait" /\ Matches(c.to, c.wanted),
           \A b, c \in rowCalls' : b.number = c.number => b = c,
           new.next \in DOMAIN new.stmt.rows,
           \/ Len(handled[new.number]) = new.next - 1
           \/ Len(handled[new.number]) = new.next /\ new.step = "wait"
    PROVE  HistoryInv'
<1> DEFINE n == new.number
<1>1. /\ insert' \in [Servers -> Running \cup {None}]
      /\ insert'[s] = new
      /\ \A t \in Servers : t # s => insert'[t] = insert[t]
  BY DEF HistoryInv, SqlTypeOK
<1>2. /\ n \in Numbers /\ n <= inserts
      /\ \A t \in Servers : insert[t] # None /\ t # s => insert[t].number # n
      /\ \A a \in answers : a.number # n /\ a.number <= inserts
  BY DEF HistoryInv, Running, NumbersAreUsedOnce
<1>3. \A c \in rowCalls' : c \in rowCalls \/ c.number = n
  OBVIOUS
<1>4. TypeOK'
  BY TypesStutter DEF HistoryInv
<1>5. SqlTypeOK'
  BY <1>1 DEF HistoryInv, SqlTypeOK
<1>6. ThreadsServe'
  <2>1. UNCHANGED phase
    BY DEF registryVars
  <2>2. QED
    BY <1>1, <2>1 DEF HistoryInv, ThreadsServe, In
<1>7. NumbersAreUsedOnce'
  <2>1. \A t \in Servers : insert'[t] # None => insert'[t].number <= inserts
    BY <1>1, <1>2 DEF HistoryInv, NumbersAreUsedOnce
  <2>2. \A t, u \in Servers :
            insert'[t] # None /\ insert'[u] # None
                /\ insert'[t].number = insert'[u].number => t = u
    BY <1>1, <1>2 DEF HistoryInv, NumbersAreUsedOnce
  <2>3. \A a \in answers : \A t \in Servers :
            insert'[t] # None => insert'[t].number # a.number
    BY <1>1, <1>2 DEF HistoryInv, NumbersAreUsedOnce
  <2>4. \A c \in rowCalls' \cup rowReplies' : c.number <= inserts
    BY <1>2, <1>3 DEF HistoryInv, NumbersAreUsedOnce
  <2>5. QED
    BY <2>1, <2>2, <2>3, <2>4 DEF HistoryInv, NumbersAreUsedOnce
<1>8. OneRowAtATime'
  BY DEF HistoryInv, OneRowAtATime
<1>9. RunningMatchesRows'
  <2> SUFFICES ASSUME NEW t \in Servers, insert'[t] # None
               PROVE  /\ insert'[t].next \in DOMAIN insert'[t].stmt.rows
                      /\ \/ Len(handled[insert'[t].number]) = insert'[t].next - 1
                         \/ /\ Len(handled[insert'[t].number]) = insert'[t].next
                            /\ insert'[t].step = "wait"
                      /\ \A c \in rowCalls' :
                            c.number = insert'[t].number =>
                                insert'[t].step = "wait" /\ c.row = insert'[t].next
    BY DEF RunningMatchesRows
  <2>1. CASE t = s
    BY <1>1, <2>1
  <2>2. CASE t # s
    BY <1>1, <1>2, <1>3, <2>2 DEF HistoryInv, RunningMatchesRows
  <2>3. QED
    BY <2>1, <2>2
<1>10. AnsweredMatchesRows'
  BY <1>2, <1>3 DEF HistoryInv, AnsweredMatchesRows
<1>11. CallsMatch' /\ InOrder'
  BY DEF HistoryInv, CallsMatch, InOrder
<1>12. QED
  BY <1>4, <1>5, <1>6, <1>7, <1>8, <1>9, <1>10, <1>11 DEF HistoryInv

LEMMA RunningFacts ==
    ASSUME HistoryInv, NEW s \in Servers, insert[s] # None
    PROVE  /\ insert[s] \in Running /\ insert[s].number \in Numbers
           /\ insert[s].stmt \in Statements /\ insert[s].next \in Nat
           /\ insert[s].next \in DOMAIN insert[s].stmt.rows
           /\ Wanted(s) \in {stmt.place[v] : stmt \in Statements, v \in Values}
<1>1. /\ insert[s] \in Running /\ insert[s].number \in Numbers
      /\ insert[s].stmt \in Statements /\ insert[s].next \in Nat
      /\ insert[s].next \in DOMAIN insert[s].stmt.rows
  BY DEF HistoryInv, SqlTypeOK, Running, RunningMatchesRows
<1>2. Row(s).value \in Values
  BY <1>1, StatementFacts DEF Row
<1>3. QED
  BY <1>1, <1>2 DEF Wanted

LEMMA RouteHistory ==
    ASSUME HistoryInv, NEW s \in Servers, Route(s)
    PROVE  HistoryInv'
<1>1. insert[s] # None /\ insert[s].step = "route"
  BY DEF Route, In
<1>2. /\ UNCHANGED registryVars
      /\ UNCHANGED <<inserts, raced, rowCalls, rowReplies, handled>>
  BY DEF Route
<1>3. s \notin raced
  BY <1>1 DEF HistoryInv, ThreadsServe, In
<1>4. CASE Reply(s, "error")
  <2>1. TypeOK' /\ UNCHANGED phase
    BY <1>2, TypesStutter DEF HistoryInv, registryVars
  <2>2. QED
    BY <1>1, <1>2, <1>3, <1>4, <2>1, ReplyHistory
<1>5. CASE insert' = [insert EXCEPT ![s].step = "copy"] /\ UNCHANGED answers
  <2> DEFINE new == [insert[s] EXCEPT !.step = "copy"]
  <2>1. insert[s] \in Running
    BY <1>1, RunningFacts
  <2>2. /\ new \in Running /\ new.step = "copy" /\ new.number = insert[s].number
        /\ new.stmt = insert[s].stmt /\ new.next = insert[s].next
        /\ insert' = [insert EXCEPT ![s] = new]
    BY <1>5, <2>1 DEF Running, Steps
  <2> HIDE DEF new
  <2>3. /\ Len(handled[new.number]) = new.next - 1
        /\ \A c \in rowCalls : c.number # new.number
        /\ new.next \in DOMAIN new.stmt.rows
    BY <1>1, <2>2 DEF HistoryInv, RunningMatchesRows
  <2>4. rowCalls \subseteq RowCall /\ \A b, c \in rowCalls : b.number = c.number => b = c
    BY DEF HistoryInv, SqlTypeOK, OneRowAtATime
  <2>5. /\ raced' \subseteq raced /\ s \notin raced' /\ rowReplies' \subseteq rowReplies
        /\ rowCalls' \subseteq RowCall
        /\ \A c \in rowCalls' : c \in rowCalls /\ c.number # new.number
        /\ \A b, c \in rowCalls' : b.number = c.number => b = c
    BY <1>2, <1>3, <2>3, <2>4
  <2>6. QED
    BY <1>1, <1>2, <1>5, <2>2, <2>3, <2>5, MoveHistory
<1>6. QED
  BY <1>4, <1>5 DEF Route

\* The request that leaves is for the row the statement is at, to a server the
\* copy of the registry holds and that matches.
LEMMA SendHistory ==
    ASSUME HistoryInv, NEW s \in Servers, Send(s)
    PROVE  HistoryInv'
<1>1. insert[s] # None /\ insert[s].step = "copy"
  BY DEF Send, In
<1>2. /\ UNCHANGED registryVars
      /\ UNCHANGED <<inserts, rowReplies, handled>> /\ raced' = raced \ {s}
  BY DEF Send
<1>3. CASE Reply(s, "error") /\ UNCHANGED rowCalls
  <2>1. TypeOK' /\ UNCHANGED phase
    BY <1>2, TypesStutter DEF HistoryInv, registryVars
  <2>2. raced' \subseteq raced /\ s \notin raced'
    BY <1>2
  <2>3. QED
    BY <1>1, <1>2, <1>3, <2>1, <2>2, ReplyHistory
<1>4. ASSUME NEW server, CallInsert(s, server), Matches(server, Wanted(s)),
             UNCHANGED answers
      PROVE  HistoryInv'
  <2> DEFINE new == [insert[s] EXCEPT !.step = "wait"]
             call == [from |-> s, to |-> server, number |-> insert[s].number,
                      row |-> insert[s].next, wanted |-> Wanted(s)]
  <2>1. /\ insert[s] \in Running /\ insert[s].number \in Numbers
        /\ insert[s].next \in Nat
        /\ Wanted(s) \in {stmt.place[v] : stmt \in Statements, v \in Values}
    BY <1>1, RunningFacts
  <2>2. /\ new \in Running /\ new.step = "wait" /\ new.number = insert[s].number
        /\ new.stmt = insert[s].stmt /\ new.next = insert[s].next
        /\ insert' = [insert EXCEPT ![s] = new]
    BY <1>4, <2>1 DEF Running, Steps, CallInsert
  <2>3. Up(server) => call \in RowCall
    BY <2>1 DEF RowCall, Up
  <2>4. /\ call.number = new.number /\ call.row = new.next
        /\ Matches(call.to, call.wanted)
    BY <1>4, <2>2
  <2>5. \A c \in rowCalls' : c \in rowCalls \/ (c = call /\ call \in RowCall)
    BY <1>4, <2>3 DEF CallInsert
  <2> HIDE DEF new, call
  <2>6. /\ Len(handled[new.number]) = new.next - 1
        /\ \A c \in rowCalls : c.number # new.number
        /\ new.next \in DOMAIN new.stmt.rows
    BY <1>1, <2>2 DEF HistoryInv, RunningMatchesRows
  <2>7. rowCalls \subseteq RowCall /\ \A b, c \in rowCalls : b.number = c.number => b = c
    BY DEF HistoryInv, SqlTypeOK, OneRowAtATime
  <2>8. rowCalls' \subseteq RowCall
    BY <2>5, <2>7
  <2>9. call.row = Len(handled[new.number]) + 1
    BY <2>1, <2>2, <2>4, <2>6, HandledFacts DEF HistoryInv
  <2>10. \A c \in rowCalls' :
             \/ c \in rowCalls /\ c.number # new.number
             \/ /\ c.number = new.number /\ c.row = new.next
                /\ c.row = Len(handled[new.number]) + 1
                /\ new.step = "wait" /\ Matches(c.to, c.wanted)
    BY <2>2, <2>4, <2>5, <2>6, <2>9
  <2>11. \A b, c \in rowCalls' : b.number = c.number => b = c
    BY <2>4, <2>5, <2>6, <2>7
  <2>12. raced' \subseteq raced /\ s \notin raced' /\ rowReplies' \subseteq rowReplies
    BY <1>2
  <2>13. QED
    BY <1>1, <1>2, <1>4, <2>2, <2>6, <2>8, <2>10, <2>11, <2>12, MoveHistory
<1>5. QED
  BY <1>3, <1>4 DEF Send, GetServers

\* An answer says that the row the statement is at was handled.
LEMMA RowIsInHistory ==
    ASSUME HistoryInv, NEW s \in Servers, RowIsIn(s)
    PROVE  HistoryInv'
<1> DEFINE n == insert[s].number
<1>1. insert[s] # None /\ insert[s].step = "wait"
  BY DEF RowIsIn, In
<1>2. /\ UNCHANGED registryVars
      /\ UNCHANGED <<inserts, raced, rowCalls, handled>>
      /\ rowReplies' \subseteq rowReplies
      /\ s \notin raced
  BY <1>1 DEF RowIsIn, HistoryInv, ThreadsServe, In
<1>3. /\ insert[s] \in Running /\ n \in Numbers
      /\ insert[s].stmt \in Statements /\ insert[s].next \in Nat
      /\ insert[s].next \in DOMAIN insert[s].stmt.rows
  BY <1>1, RunningFacts
<1>4. Len(handled[n]) \in Nat
  BY <1>3, HandledFacts DEF HistoryInv
<1>5. Len(handled[n]) = insert[s].next
  <2>1. PICK c \in rowReplies : CallOf(s, c)
    BY DEF RowIsIn
  <2>2. insert[s].next <= Len(handled[n])
    BY <2>1 DEF HistoryInv, OneRowAtATime, CallOf
  <2>3. QED
    BY <1>1, <1>3, <1>4, <2>2 DEF HistoryInv, RunningMatchesRows
<1>6. \A c \in rowCalls : c.number # n
  BY <1>1, <1>3, <1>5 DEF HistoryInv, OneRowAtATime, RunningMatchesRows
<1>7. CASE insert[s].next = Len(insert[s].stmt.rows)
  <2>1. Reply(s, "ok")
    BY <1>7 DEF RowIsIn, NextRow
  <2>2. TypeOK' /\ UNCHANGED phase
    BY <1>2, TypesStutter DEF HistoryInv, registryVars
  <2>3. QED
    BY <1>1, <1>2, <1>5, <1>6, <1>7, <2>1, <2>2, ReplyHistory
<1>8. CASE insert[s].next # Len(insert[s].stmt.rows)
  <2> DEFINE new == [insert[s] EXCEPT !.step = "route", !.next = @ + 1]
  <2>1. insert' = [insert EXCEPT ![s] = new] /\ UNCHANGED answers
    BY <1>8 DEF RowIsIn, NextRow
  <2>2. /\ new \in Running /\ new.step = "route" /\ new.number = n
        /\ new.stmt = insert[s].stmt /\ new.next = insert[s].next + 1
    <3>1. /\ new.step = "route" /\ new.number = insert[s].number
          /\ new.stmt = insert[s].stmt /\ new.next = insert[s].next + 1
      BY <1>3 DEF Running
    <3>2. insert[s].next + 1 \in Nat /\ "route" \in Steps
      BY <1>3 DEF Steps
    <3>3. new \in Running
      BY <1>3, <3>2 DEF Running
    <3>4. QED
      BY <3>1, <3>3
  <2> HIDE DEF new
  <2>3. new.next \in DOMAIN new.stmt.rows
    <3>1. /\ DOMAIN insert[s].stmt.rows = 1 .. Len(insert[s].stmt.rows)
          /\ Len(insert[s].stmt.rows) \in Nat
      BY <1>3, StatementFacts
    <3>2. insert[s].next + 1 \in 1 .. Len(insert[s].stmt.rows)
      BY <1>3, <1>8, <3>1
    <3>3. QED
      BY <2>2, <3>1, <3>2
  <2>4. Len(handled[new.number]) = new.next - 1
    BY <1>3, <1>5, <2>2
  <2>5. rowCalls \subseteq RowCall /\ \A b, c \in rowCalls : b.number = c.number => b = c
    BY DEF HistoryInv, SqlTypeOK, OneRowAtATime
  <2>6. /\ raced' \subseteq raced /\ s \notin raced' /\ rowCalls' \subseteq RowCall
        /\ \A c \in rowCalls' : c \in rowCalls /\ c.number # new.number
        /\ \A b, c \in rowCalls' : b.number = c.number => b = c
    BY <1>2, <1>6, <2>2, <2>5
  <2>7. QED
    BY <1>1, <1>2, <2>1, <2>2, <2>3, <2>4, <2>6, MoveHistory
<1>9. QED
  BY <1>7, <1>8

LEMMA RowFailsHistory ==
    ASSUME HistoryInv, NEW s \in Servers, RowFails(s)
    PROVE  HistoryInv'
<1>1. insert[s] # None /\ insert[s].step = "wait" /\ Reply(s, "error")
  BY DEF RowFails, In, ReplyError
<1>2. /\ UNCHANGED <<inserts, raced, handled, phase>>
      /\ rowReplies' \subseteq rowReplies /\ rowCalls' \subseteq rowCalls
      /\ s \notin raced
  BY <1>1 DEF RowFails, HistoryInv, ThreadsServe, In
<1>3. TypeOK'
  <2>1. losses' \in 0 .. MaxLosses
    <3>1. losses \in 0 .. MaxLosses
      BY DEF HistoryInv, TypeOK
    <3>2. losses' = losses \/ (losses < MaxLosses /\ losses' = losses + 1)
      BY DEF RowFails
    <3>3. QED
      BY <3>1, <3>2
  <2>2. UNCHANGED <<phase, epoch, joinVars, calls, replies, peers, crashes>>
    BY DEF RowFails
  <2>3. QED
    BY <2>1, <2>2 DEF HistoryInv, TypeOK, joinVars
<1>4. QED
  BY <1>1, <1>2, <1>3, ReplyHistory

\* The row that is handled is the next of its INSERT, and it was the only one
\* on its way.
LEMMA HandleHistory ==
    ASSUME HistoryInv, NEW c \in rowCalls, HandleRow(c)
    PROVE  HistoryInv'
<1> DEFINE n == c.number
           count == Len(handled[n])
<1>1. c \in RowCall /\ n \in Numbers /\ n <= inserts /\ inserts \in Nat
  BY DEF HistoryInv, SqlTypeOK, RowCall, NumbersAreUsedOnce
<1>2. handled[n] \in Seq(RowCall) /\ count \in Nat
  BY <1>1, HandledFacts DEF HistoryInv
<1>3. /\ handled' \in [Numbers -> Seq(RowCall)]
      /\ handled'[n] = Append(handled[n], c)
      /\ \A m \in Numbers : m # n => handled'[m] = handled[m]
  BY <1>1, <1>2 DEF HistoryInv, SqlTypeOK, HandleRow
<1>4. /\ Len(handled'[n]) = count + 1
      /\ DOMAIN handled[n] = 1 .. count
      /\ DOMAIN handled'[n] = 1 .. count + 1
      /\ \A i \in 1 .. count : handled'[n][i] = handled[n][i]
      /\ handled'[n][count + 1] = c
  BY <1>1, <1>2, <1>3
<1>5. /\ c.row = count + 1
      /\ \A b \in rowCalls' : b \in rowCalls /\ b.number # n
      /\ \A b \in rowReplies' : b \in rowReplies \/ b = c
  BY DEF HistoryInv, OneRowAtATime, HandleRow
<1>6. /\ UNCHANGED registryVars /\ UNCHANGED phase
      /\ UNCHANGED <<inserts, insert, raced, answers>>
  BY DEF HandleRow, registryVars
<1>7. /\ \A b \in rowCalls \cup rowReplies : b.number \in Numbers
      /\ \A a \in answers : a.number \in Numbers
      /\ \A s \in Servers : insert[s] # None => insert[s].number \in Numbers
  BY DEF HistoryInv, SqlTypeOK, RowCall, Running
<1>8. TypeOK'
  BY <1>6, TypesStutter DEF HistoryInv
<1>9. SqlTypeOK'
  BY <1>1, <1>3, <1>5, <1>6 DEF HistoryInv, SqlTypeOK
<1>10. ThreadsServe'
  BY <1>6 DEF HistoryInv, ThreadsServe, In
<1>11. NumbersAreUsedOnce'
  <2>1. \A b \in rowCalls' \cup rowReplies' : b.number <= inserts
    BY <1>1, <1>5 DEF HistoryInv, NumbersAreUsedOnce
  <2>2. \A m \in Numbers : m > inserts => handled'[m] = << >>
    BY <1>1, <1>3 DEF HistoryInv, NumbersAreUsedOnce, Numbers
  <2>3. QED
    BY <1>6, <2>1, <2>2 DEF HistoryInv, NumbersAreUsedOnce
<1> HIDE DEF n, count
<1>12. OneRowAtATime'
  <2>1. \A b \in rowCalls' : b.row = Len(handled'[b.number]) + 1
    BY <1>3, <1>5, <1>7 DEF HistoryInv, OneRowAtATime
  <2>2. \A b \in rowReplies' : b.row <= Len(handled'[b.number])
    <3> TAKE b \in rowReplies'
    <3>1. CASE b = c
      BY <1>2, <1>4, <1>5, <3>1 DEF n, count
    <3>2. CASE b \in rowReplies /\ b.number = n
      <4>1. b.row <= count /\ b.row \in Nat
        BY <3>2 DEF HistoryInv, SqlTypeOK, RowCall, OneRowAtATime, count
      <4>2. QED
        BY <1>2, <1>4, <3>2, <4>1
    <3>3. CASE b \in rowReplies /\ b.number # n
      BY <1>3, <1>7, <3>3 DEF HistoryInv, OneRowAtATime
    <3>4. QED
      BY <1>5, <3>1, <3>2, <3>3
  <2>3. QED
    BY <1>5, <2>1, <2>2 DEF HistoryInv, OneRowAtATime
<1>13. RunningMatchesRows'
  <2> SUFFICES ASSUME NEW s \in Servers, insert[s] # None
               PROVE  /\ insert[s].next \in DOMAIN insert[s].stmt.rows
                      /\ \/ Len(handled'[insert[s].number]) = insert[s].next - 1
                         \/ /\ Len(handled'[insert[s].number]) = insert[s].next
                            /\ insert[s].step = "wait"
                      /\ \A b \in rowCalls' :
                            b.number = insert[s].number =>
                                insert[s].step = "wait" /\ b.row = insert[s].next
    BY <1>6 DEF RunningMatchesRows
  <2>1. CASE insert[s].number = n
    <3>1. insert[s].step = "wait" /\ c.row = insert[s].next
      BY <2>1 DEF HistoryInv, RunningMatchesRows, n
    <3>2. insert[s].next \in DOMAIN insert[s].stmt.rows
      BY DEF HistoryInv, RunningMatchesRows
    <3>3. QED
      BY <1>4, <1>5, <2>1, <3>1, <3>2
  <2>2. CASE insert[s].number # n
    BY <1>3, <1>5, <1>7, <2>2 DEF HistoryInv, RunningMatchesRows
  <2>3. QED
    BY <2>1, <2>2
<1>14. AnsweredMatchesRows'
  <2> SUFFICES ASSUME NEW a \in answers
               PROVE  /\ IF a.status = "ok"
                         THEN Len(handled'[a.number]) = Len(a.stmt.rows)
                         ELSE Len(handled'[a.number]) \in {a.next - 1, a.next}
                      /\ \A b \in rowCalls' :
                            b.number = a.number => a.status = "error" /\ b.row = a.next
    BY <1>6 DEF AnsweredMatchesRows
  <2>1. CASE a.number = n
    <3>1. a.status = "error" /\ c.row = a.next
      BY <2>1 DEF HistoryInv, AnsweredMatchesRows, n
    <3>2. QED
      BY <1>4, <1>5, <2>1, <3>1
  <2>2. CASE a.number # n
    BY <1>3, <1>5, <1>7, <2>2 DEF HistoryInv, AnsweredMatchesRows
  <2>3. QED
    BY <2>1, <2>2
<1>15. CallsMatch' /\ InOrder'
  <2>1. \A b \in rowCalls' : Matches(b.to, b.wanted)
    BY <1>5 DEF HistoryInv, CallsMatch
  <2>2. ASSUME NEW m \in Numbers, NEW i \in DOMAIN handled'[m]
        PROVE  /\ Matches(handled'[m][i].to, handled'[m][i].wanted)
               /\ handled'[m][i].row = i
    <3>1. CASE m = n
      <4>1. Matches(c.to, c.wanted)
        BY DEF HistoryInv, CallsMatch
      <4>2. CASE i = count + 1
        BY <1>4, <1>5, <3>1, <4>1, <4>2
      <4>3. CASE i \in 1 .. count
        BY <1>1, <1>4, <3>1, <4>3 DEF HistoryInv, CallsMatch, InOrder, n
      <4>4. QED
        BY <1>2, <1>4, <3>1, <4>2, <4>3
    <3>2. CASE m # n
      BY <1>3, <3>2 DEF HistoryInv, CallsMatch, InOrder
    <3>3. QED
      BY <3>1, <3>2
  <2>3. QED
    BY <2>1, <2>2 DEF CallsMatch, InOrder
<1>16. QED
  BY <1>8, <1>9, <1>10, <1>11, <1>12, <1>13, <1>14, <1>15 DEF HistoryInv

-----------------------------------------------------------------------------
(* The steps of the registry, and the end of a process.                    *)

\* Steps that leave the statements and their calls alone.
LEMMA RegistryHistory ==
    ASSUME HistoryInv, TypeOK', ThreadsServe',
           UNCHANGED <<inserts, insert, rowCalls, rowReplies, handled, answers>>
    PROVE  HistoryInv'
<1>1. SqlTypeOK'
  BY DEF HistoryInv, SqlTypeOK
<1>2. NumbersAreUsedOnce' /\ OneRowAtATime'
  BY DEF HistoryInv, NumbersAreUsedOnce, OneRowAtATime
<1>3. RunningMatchesRows' /\ AnsweredMatchesRows'
  BY DEF HistoryInv, RunningMatchesRows, AnsweredMatchesRows
<1>4. CallsMatch' /\ InOrder'
  BY DEF HistoryInv, CallsMatch, InOrder
<1>5. QED
  BY <1>1, <1>2, <1>3, <1>4 DEF HistoryInv

LEMMA JoinHistory ==
    ASSUME HistoryInv, NEW s \in Servers, Start(s) \/ Join(s), UNCHANGED sqlVars
    PROVE  HistoryInv'
<1>1. TypeOK'
  BY JoinTypes DEF HistoryInv
<1>2. UNCHANGED <<inserts, insert, rowCalls, rowReplies, handled, answers>>
      /\ UNCHANGED raced
  BY DEF sqlVars
<1>3. \A t \in Servers : phase[t] = "serving" => phase'[t] = "serving"
  BY JoinKeepsServing DEF HistoryInv
<1>4. ThreadsServe'
  BY <1>2, <1>3 DEF HistoryInv, ThreadsServe, In
<1>5. QED
  BY <1>1, <1>2, <1>4, RegistryHistory

LEMMA RegisterHistory ==
    ASSUME HistoryInv, NEW c \in calls, RegisterDuringLookup(c)
    PROVE  HistoryInv'
<1>1. TypeOK'
  BY RegisterTypes DEF HistoryInv, RegisterDuringLookup
<1>2. UNCHANGED <<inserts, insert, rowCalls, rowReplies, handled, answers>>
      /\ UNCHANGED phase
  BY DEF RegisterDuringLookup, Register
<1>3. c.to \in Servers
  BY DEF HistoryInv, TypeOK, Call
<1>4. ThreadsServe'
  BY <1>2, <1>3 DEF HistoryInv, ThreadsServe, In, RegisterDuringLookup
<1>5. QED
  BY <1>1, <1>2, <1>4, RegistryHistory

\* What a process leaves behind when it ends was true before: requests to
\* others that still arrive, and the rows handled.
LEMMA DieHistory ==
    ASSUME HistoryInv, NEW s \in Servers, Die(s), SqlDies(s)
    PROVE  HistoryInv'
<1>1. TypeOK'
  BY DieTypes DEF HistoryInv
<1>2. /\ insert' \in [Servers -> Running \cup {None}]
      /\ insert'[s] = None
      /\ \A t \in Servers : t # s => insert'[t] = insert[t]
      /\ rowCalls' \subseteq rowCalls /\ rowReplies' \subseteq rowReplies
      /\ raced' = raced \ {s}
      /\ UNCHANGED <<inserts, handled, answers>>
  BY DEF HistoryInv, SqlTypeOK, SqlDies
<1>3. \A t \in Servers : t # s => phase'[t] = phase[t]
  BY DEF HistoryInv, TypeOK, Die
<1>4. SqlTypeOK'
  BY <1>2 DEF HistoryInv, SqlTypeOK
<1>5. ThreadsServe'
  BY <1>2, <1>3 DEF HistoryInv, ThreadsServe, In
<1>6. NumbersAreUsedOnce'
  BY <1>2 DEF HistoryInv, NumbersAreUsedOnce
<1>7. OneRowAtATime'
  BY <1>2 DEF HistoryInv, OneRowAtATime
<1>8. RunningMatchesRows'
  BY <1>2 DEF HistoryInv, RunningMatchesRows
<1>9. AnsweredMatchesRows'
  BY <1>2 DEF HistoryInv, AnsweredMatchesRows
<1>10. CallsMatch' /\ InOrder'
  BY <1>2 DEF HistoryInv, CallsMatch, InOrder
<1>11. QED
  BY <1>1, <1>4, <1>5, <1>6, <1>7, <1>8, <1>9, <1>10 DEF HistoryInv

-----------------------------------------------------------------------------
(* The theorems.                                                           *)

LEMMA HistoryStep ==
    ASSUME HistoryInv, [InsertNext]_vars
    PROVE  HistoryInv'
<1>1. CASE \E s \in Servers : (Start(s) \/ Join(s)) /\ UNCHANGED sqlVars
  BY <1>1, JoinHistory
<1>2. CASE \E c \in calls : RegisterDuringLookup(c)
  BY <1>2, RegisterHistory
<1>3. CASE \E s \in Servers, stmt \in Statements :
              BeginInsert(s, stmt) \/ InsertSelect(s, stmt)
  BY <1>3, BeginHistory, SelectHistory
<1>4. ASSUME NEW s \in Servers,
             Refuse(s) \/ SqlThread(s) \/ LookupKills(s) \/ Killed(s)
      PROVE  HistoryInv'
  <2>1. CASE Refuse(s)
    BY <2>1, RefuseHistory
  <2>2. CASE Route(s) \/ Send(s)
    BY <2>2, RouteHistory, SendHistory
  <2>3. CASE RowIsIn(s) \/ RowFails(s)
    BY <2>3, RowIsInHistory, RowFailsHistory
  <2>4. CASE RowKills(s) \/ LookupKills(s) \/ Killed(s)
    BY <2>4, DieHistory DEF RowKills, LookupKills, Killed, Crash
  <2>5. QED
    BY <1>4, <2>1, <2>2, <2>3, <2>4 DEF SqlThread
<1>5. CASE \E c \in rowCalls : HandleRow(c)
  BY <1>5, HandleHistory
<1>6. CASE UNCHANGED vars
  <2>1. /\ UNCHANGED registryVars /\ UNCHANGED phase
        /\ UNCHANGED <<inserts, insert, rowCalls, rowReplies, handled, answers>>
        /\ UNCHANGED raced
    BY <1>6 DEF vars, registryVars, sqlVars
  <2>2. TypeOK' /\ ThreadsServe'
    BY <2>1, TypesStutter DEF HistoryInv, ThreadsServe, In
  <2>3. QED
    BY <2>1, <2>2, RegistryHistory
<1>7. QED
  BY <1>1, <1>2, <1>3, <1>4, <1>5, <1>6 DEF InsertNext

LEMMA HistoryInductive == InsertSpec => []HistoryInv
BY InitHistory, HistoryStep, PTL DEF InsertSpec

\* Only serving servers execute statements, each at one of its rows, and every
\* request on its way is of an INSERT that was begun.
THEOREM InsertTypes == InsertSpec => []InsertTypeOK
<1>1. HistoryInv => InsertTypeOK
  <2> SUFFICES ASSUME HistoryInv PROVE InsertTypeOK
    OBVIOUS
  <2>1. ASSUME NEW s \in Servers, insert[s] # None
        PROVE  /\ phase[s] = "serving"
               /\ insert[s].step \in Steps
               /\ insert[s].number \in 1 .. inserts
               /\ insert[s].next \in DOMAIN insert[s].stmt.rows
    BY <2>1
    DEF HistoryInv, SqlTypeOK, ThreadsServe, Running, Numbers,
        NumbersAreUsedOnce, RunningMatchesRows
  <2>2. \A c \in rowCalls \cup rowReplies : c.number \in 1 .. inserts
    BY DEF HistoryInv, SqlTypeOK, RowCall, Numbers, NumbersAreUsedOnce
  <2>3. QED
    BY <2>1, <2>2 DEF HistoryInv, SqlTypeOK, ThreadsServe, InsertTypeOK
<1>2. QED
  BY HistoryInductive, <1>1, PTL

\* A row is never handled by a server outside the region its partition names,
\* whatever registers, dies or is copied half moved during the lookup
\* (get_servers, insert).
THEOREM RowsReachTheirRegion == InsertSpec => []RowsReachMatchingServers
<1>1. HistoryInv => RowsReachMatchingServers
  <2> SUFFICES ASSUME HistoryInv, NEW n \in 1 .. inserts,
                      NEW i \in DOMAIN handled[n],
                      NEW pair \in handled[n][i].wanted, pair[1] = "region"
               PROVE  Region[handled[n][i].to] = pair[2]
    BY DEF RowsReachMatchingServers
  <2>1. n \in Numbers
    BY DEF HistoryInv, SqlTypeOK, Numbers
  <2>2. Matches(handled[n][i].to, handled[n][i].wanted)
    BY <2>1 DEF HistoryInv, CallsMatch
  <2>3. handled[n][i] \in RowCall
    BY <2>1, HandledFacts DEF HistoryInv
  <2>4. handled[n][i].to \in Servers
    BY <2>3 DEF RowCall
  <2>5. Attribute(handled[n][i].to, "region") = pair[2]
    BY <2>2 DEF Matches
  <2>6. QED
    BY <2>4, <2>5, BlankAssumption DEF Attribute, Region
<1>2. QED
  BY HistoryInductive, <1>1, PTL

\* The rows of an INSERT are handled in their order and once each, although
\* requests may be handled after the client was answered (insert).
THEOREM RowsKeepTheirOrder == InsertSpec => []RowsAreHandledInOrder
<1>1. HistoryInv => RowsAreHandledInOrder
  BY DEF HistoryInv, SqlTypeOK, InOrder, RowsAreHandledInOrder, Numbers
<1>2. QED
  BY HistoryInductive, <1>1, PTL

\* An INSERT answered OK had every row handled; after an error all rows before
\* the one it failed at were handled, and none after it ever is (insert).
THEOREM AnswersTellTheRows == InsertSpec => []AnswersMatchRows
<1>1. HistoryInv => AnswersMatchRows
  BY DEF HistoryInv, AnsweredMatchesRows, AnswersMatchRows
<1>2. QED
  BY HistoryInductive, <1>1, PTL

-----------------------------------------------------------------------------
(* The registry goes on to keep what Registry proves of it, whatever the   *)
(* statements do meanwhile.                                                *)

\* Losing a row counts as a fault, so nothing is promised that was not before.
LEMMA LossesRegistry ==
    ASSUME RegistryInv, losses' \in 0 .. MaxLosses,
           losses' = losses \/ losses' # 0,
           UNCHANGED <<phase, epoch, joinVars, calls, replies, peers, crashes>>
    PROVE  RegistryInv'
<1>1. CallsInv'
  BY DEF RegistryInv, CallsInv, TypeOK, RequestsAreMade, AnswersAreBacked,
      EntriesAreDistinctCalls, Up, joinVars
<1>2. AcksInv'
  BY DEF RegistryInv, AcksInv, AcksAreOfARun, AcknowledgedJoinsAreListed,
      Entries, Up, joinVars
<1>3. OwnInv'
  BY DEF RegistryInv, OwnInv, WaitersJoin, OwnCallsArrive, SelfJoinSucceeds,
      Lost, Current, joinVars
<1>4. LastCallOnly'
  BY DEF RegistryInv, LastCallOnly, Up, joinVars
<1>5. QED
  BY <1>1, <1>2, <1>3, <1>4 DEF RegistryInv

LEMMA RowLosses ==
    ASSUME TypeOK, NEW s \in Servers, RowFails(s)
    PROVE  /\ losses' \in 0 .. MaxLosses
           /\ \/ losses' # 0
              \/ losses' = losses /\ RowIsLost(s)
<1>1. losses \in 0 .. MaxLosses
  BY DEF TypeOK
<1>2. \/ losses' = losses /\ RowIsLost(s)
      \/ losses < MaxLosses /\ losses' = losses + 1
  BY DEF RowFails
<1>3. QED
  BY <1>1, <1>2

LEMMA RegistryKeeps ==
    ASSUME RegistryInv, [InsertNext]_vars
    PROVE  RegistryInv'
<1>1. CASE \E s \in Servers : Start(s) \/ Join(s)
  BY <1>1, JoinStep
<1>2. CASE \E c \in calls : Register(c)
  BY <1>2, RegisterStep
<1>3. CASE \E s \in Servers : Die(s)
  BY <1>3, DieStep
<1>4. CASE \E s \in Servers : RowFails(s)
  <2>1. PICK s \in Servers : RowFails(s)
    BY <1>4
  <2>2. losses' \in 0 .. MaxLosses /\ (losses' = losses \/ losses' # 0)
    BY <2>1, RowLosses DEF RegistryInv, CallsInv
  <2>3. UNCHANGED <<phase, epoch, joinVars, calls, replies, peers, crashes>>
    BY <2>1 DEF RowFails
  <2>4. QED
    BY <2>2, <2>3, LossesRegistry
<1>5. CASE UNCHANGED registryVars
  BY <1>5, RegistryStutters
<1>6. QED
  BY <1>1, <1>2, <1>3, <1>4, <1>5
  DEF InsertNext, RegisterDuringLookup, BeginInsert, InsertSelect, Refuse,
      SqlThread, Route,
      Send, RowIsIn, RowKills, LookupKills, Killed, Crash, HandleRow, vars

\* While servers insert into one another, registrations stay listed, entries
\* distinct, and without a fault every server listed once: INSERT reads the
\* registry and loses calls of its own, and disturbs none of it.
THEOREM InsertsLeaveTheRegistry == InsertSpec => []RegistryInv
<1>1. InsertInit => RegistryInv
  BY InitRegistry DEF InsertInit
<1>2. QED
  BY <1>1, RegistryKeeps, PTL DEF InsertSpec

-----------------------------------------------------------------------------
(* A settled cluster.                                                      *)

AllJoined(s) == \A t \in Servers : client[t] = "ok" /\ Peer[t] = s

\* A statement begun on a settled cluster finds it settled to its end, reads a
\* registry nobody appends to, and has every call it makes served.
SettledRunning(s) ==
    /\ AllJoined(s)
    /\ s \notin raced
    /\ insert[s].step = "wait" /\ Routable(insert[s]) => ~RowIsLost(s)

SettledInv ==
    losses = 0 /\ crashes = 0 =>
        /\ \A s \in Servers :
              insert[s] # None /\ insert[s].settled => SettledRunning(s)
        /\ \A a \in answers : a.settled /\ Routable(a) => a.status = "ok"

LEMMA SettledFacts ==
    ASSUME RegistryInv, losses = 0, crashes = 0, NEW s \in Servers, AllJoined(s)
    PROVE  /\ calls = {}
           /\ \A t \in Servers : Up(t)
           /\ \A t \in Servers : \E i : Entries(t, s) = {i}
<1>1. calls = {}
  <2> SUFFICES ASSUME NEW c \in calls PROVE FALSE
    OBVIOUS
  <2>1. c.from \in Servers
    BY DEF RegistryInv, CallsInv, TypeOK, Call
  <2>2. QED
    BY <2>1 DEF RegistryInv, LastCallOnly, AllJoined
<1>2. \A t \in Servers : Up(t)
  BY DEF RegistryInv, OwnInv, WaitersJoin, AllJoined, Up
<1>3. ASSUME NEW t \in Servers
      PROVE  \E i : Entries(t, s) = {i}
  <2>1. /\ \A i, j \in Entries(t, s) : i = j
        /\ Entries(t, s) # {}
    BY OneEntry DEF AllJoined
  <2>2. QED
    BY <2>1
<1>4. QED
  BY <1>1, <1>2, <1>3

\* The lookup finds one server when one matches: its only entry.
LEMMA SettledLookup ==
    ASSUME RegistryInv, losses = 0, crashes = 0, NEW s \in Servers, AllJoined(s),
           s \notin raced, NEW constraints, NEW only \in Servers,
           \A t \in Servers : Matches(t, constraints) <=> t = only,
           NEW copy \in Copies(s)
    PROVE  /\ Accepts(GetServers(copy, constraints))
           /\ \A i \in GetServers(copy, constraints) : copy[i] = only
<1>1. copy = [i \in DOMAIN peers[s] |-> peers[s][i].from]
  BY DEF Copies, Listed
<1>2. \A i \in DOMAIN peers[s] : peers[s][i].from \in Servers
  BY ListedCalls DEF RegistryInv, CallsInv, Call
<1>3. GetServers(copy, constraints) = Entries(only, s)
  BY <1>1, <1>2 DEF GetServers, Entries
<1>4. PICK i : Entries(only, s) = {i}
  BY SettledFacts
<1>5. Accepts(GetServers(copy, constraints))
  BY <1>3, <1>4, FS_Singleton DEF Accepts
<1>6. QED
  BY <1>1, <1>3, <1>5 DEF Entries

\* Nothing that went wrong is forgotten.
LEMMA FaultsStay ==
    ASSUME TypeOK, [InsertNext]_vars, losses' = 0, crashes' = 0
    PROVE  losses = 0 /\ crashes = 0
<1>1. \A s \in Servers : ~Die(s)
  BY DEF TypeOK, Die
<1>2. \A s \in Servers : ~(Crash(s) \/ RowKills(s) \/ LookupKills(s) \/ Killed(s))
  BY <1>1 DEF Crash, RowKills, LookupKills, Killed
<1>3. CASE \E s \in Servers : Start(s) \/ Join(s)
  BY <1>3 DEF TypeOK, Start, Join, SendRegister, GetReply, CallFails, Serve, net
<1>4. CASE \E c \in calls : Register(c)
  BY <1>4 DEF Register
<1>5. CASE \E s \in Servers : RowFails(s)
  BY <1>5, RowLosses DEF RowFails
<1>6. CASE UNCHANGED registryVars
  BY <1>6 DEF registryVars
<1>7. QED
  BY <1>2, <1>3, <1>4, <1>5, <1>6
  DEF InsertNext, RegisterDuringLookup, BeginInsert, InsertSelect, Refuse,
      SqlThread, Route,
      Send, RowIsIn, HandleRow, vars

\* Steps of the registry.
LEMMA SettledJoin ==
    ASSUME RegistryInv, SettledInv, losses = 0, crashes = 0,
           NEW t \in Servers, Start(t) \/ Join(t), UNCHANGED sqlVars
    PROVE  SettledInv'
<1>1. ASSUME NEW s \in Servers, AllJoined(s)
      PROVE  AllJoined(s)'
  <2>1. client[t] = "ok"
    BY <1>1 DEF AllJoined
  <2>2. UNCHANGED client
    BY <2>1 DEF Start, Join, SendRegister, TriesAgain, GetReply, CallFails, Serve, joinVars
  <2>3. QED
    BY <1>1, <2>2 DEF AllJoined
<1>2. UNCHANGED <<insert, raced, rowCalls, rowReplies, answers>>
  BY DEF sqlVars
<1>3. \A s : RowIsLost(s)' <=> RowIsLost(s)
  BY <1>2 DEF RowIsLost, CallOf
<1>4. \A a : Routable(a)' <=> Routable(a)
  BY DEF Routable, Matches, Attribute
<1>5. QED
  BY <1>1, <1>2, <1>3, <1>4 DEF SettledInv, SettledRunning

LEMMA SettledRegister ==
    ASSUME RegistryInv, SettledInv, losses = 0, crashes = 0,
           NEW c \in calls, RegisterDuringLookup(c)
    PROVE  SettledInv'
<1>1. \A s \in Servers : ~AllJoined(s)
  BY SettledFacts
<1>2. UNCHANGED <<insert, answers>>
  BY DEF RegisterDuringLookup
<1>3. QED
  BY <1>1, <1>2 DEF SettledInv, SettledRunning

\* A statement that goes on or ends, if it did not lose the call of another
\* and its own end or next state is as SettledInv has it.
LEMMA SettledMove ==
    ASSUME SettledInv, losses = 0, crashes = 0, NEW s \in Servers,
           UNCHANGED client, raced' \subseteq raced,
           \A t \in Servers : t # s => insert'[t] = insert[t],
           \A t \in Servers : t # s /\ ~RowIsLost(t) => ~RowIsLost(t)',
           insert'[s] # None /\ insert'[s].settled => SettledRunning(s)',
           \A a \in answers' :
               \/ a \in answers
               \/ a.settled /\ Routable(a) => a.status = "ok"
    PROVE  SettledInv'
<1>1. \A a : Routable(a)' <=> Routable(a)
  BY DEF Routable, Matches, Attribute
<1>2. ASSUME NEW t \in Servers, t # s, insert'[t] # None, insert'[t].settled
      PROVE  SettledRunning(t)'
  <2>1. SettledRunning(t) /\ insert'[t] = insert[t]
    BY <1>2 DEF SettledInv
  <2>2. QED
    BY <1>1, <1>2, <2>1 DEF SettledRunning, AllJoined
<1>3. QED
  BY <1>1, <1>2 DEF SettledInv

LEMMA SettledBegin ==
    ASSUME HistoryInv, SettledInv, losses = 0, crashes = 0,
           NEW s \in Servers, NEW stmt \in Statements, BeginInsert(s, stmt)
    PROVE  SettledInv'
<1> DEFINE new == [step |-> "route", number |-> inserts + 1, stmt |-> stmt,
                   next |-> 1, settled |-> Settled(s)]
<1>1. /\ insert'[s] = new
      /\ \A t \in Servers : t # s => insert'[t] = insert[t]
  BY DEF HistoryInv, SqlTypeOK, BeginInsert
<1>2. new.step = "route" /\ new.settled = Settled(s)
  OBVIOUS
<1> HIDE DEF new
<1>3. UNCHANGED <<raced, rowCalls, rowReplies, answers, client>>
  BY DEF BeginInsert, registryVars
<1>4. s \notin raced
  BY DEF HistoryInv, ThreadsServe, In, BeginInsert
<1>5. \A t \in Servers : t # s /\ ~RowIsLost(t) => ~RowIsLost(t)'
  BY <1>1, <1>3 DEF RowIsLost, CallOf
<1>6. insert'[s].settled => SettledRunning(s)'
  BY <1>1, <1>2, <1>3, <1>4 DEF SettledRunning, AllJoined, Settled
<1>7. QED
  BY <1>1, <1>3, <1>5, <1>6, SettledMove

\* An answer at once is no error of a settled cluster.
LEMMA SettledAnswer ==
    ASSUME SettledInv, losses = 0, crashes = 0,
           NEW new, answers' = answers \cup {new},
           new.settled => new.status = "ok",
           UNCHANGED <<insert, raced, rowCalls, rowReplies>>,
           UNCHANGED registryVars
    PROVE  SettledInv'
<1>1. answers' = answers \cup {new} /\ (new.settled => new.status = "ok")
  OBVIOUS
<1>2. UNCHANGED <<insert, raced, rowCalls, rowReplies, client>>
  BY DEF registryVars
<1>3. \A t : RowIsLost(t)' <=> RowIsLost(t)
  BY <1>2 DEF RowIsLost, CallOf
<1>4. \A a : Routable(a)' <=> Routable(a)
  BY DEF Routable, Matches, Attribute
<1>5. QED
  BY <1>1, <1>2, <1>3, <1>4 DEF SettledInv, SettledRunning, AllJoined

LEMMA SettledRefuse ==
    ASSUME SettledInv, losses = 0, crashes = 0, NEW s \in Servers, Refuse(s)
    PROVE  SettledInv'
<1> DEFINE new == [number |-> inserts + 1, status |-> "error", stmt |-> None,
                   next |-> 0, settled |-> FALSE]
<1>1. answers' = answers \cup {new} /\ ~new.settled
  BY DEF Refuse
<1> HIDE DEF new
<1>2. QED
  BY <1>1, SettledAnswer DEF Refuse

LEMMA SettledSelect ==
    ASSUME SettledInv, losses = 0, crashes = 0,
           NEW s \in Servers, NEW stmt \in Statements, InsertSelect(s, stmt)
    PROVE  SettledInv'
<1> DEFINE new == [number |-> inserts + 1, status |-> "ok", stmt |-> stmt,
                   next |-> 1, settled |-> Settled(s)]
<1>1. answers' = answers \cup {new} /\ new.status = "ok"
  BY DEF InsertSelect
<1> HIDE DEF new
<1>2. QED
  BY <1>1, SettledAnswer DEF InsertSelect

\* A statement that is answered, if the answer is what SettledInv asks for.
LEMMA SettledReply ==
    ASSUME HistoryInv, SettledInv, losses = 0, crashes = 0,
           NEW s \in Servers, insert[s] # None,
           NEW status \in {"ok", "error"}, Reply(s, status),
           UNCHANGED client, raced' \subseteq raced,
           \A t \in Servers :
               t # s /\ insert'[t] = insert[t] /\ ~RowIsLost(t) => ~RowIsLost(t)',
           status = "ok" \/ ~insert[s].settled \/ ~Routable(insert[s])
    PROVE  SettledInv'
<1>1. PICK a \in answers' :
          /\ answers' = answers \cup {a} /\ a.status = status
          /\ a.stmt = insert[s].stmt /\ a.settled = insert[s].settled
  BY ReplyFacts
<1>2. /\ insert'[s] = None
      /\ \A t \in Servers : t # s => insert'[t] = insert[t]
  BY ReplyFacts
<1>3. Routable(a) <=> Routable(insert[s])
  BY <1>1 DEF Routable
<1>4. \A b \in answers' :
          b \in answers \/ (b.settled /\ Routable(b) => b.status = "ok")
  BY <1>1, <1>3
<1>5. \A t \in Servers : t # s /\ ~RowIsLost(t) => ~RowIsLost(t)'
  BY <1>2
<1>6. QED
  BY <1>2, <1>4, <1>5, SettledMove

\* Every row of a statement that can be routed has a partition that names one
\* server, and can be encoded.
LEMMA RoutableRow ==
    ASSUME HistoryInv, NEW s \in Servers, insert[s] # None, Routable(insert[s])
    PROVE  /\ Row(s).kind = "plain" /\ Wanted(s) # None
           /\ \E only \in Servers : \A t \in Servers :
                 Matches(t, Wanted(s)) <=> t = only
<1>1. insert[s].next \in DOMAIN insert[s].stmt.rows
  BY RunningFacts
<1>2. QED
  BY <1>1 DEF Routable, Row, Wanted

LEMMA SettledRoute ==
    ASSUME HistoryInv, SettledInv, losses = 0, crashes = 0,
           NEW s \in Servers, Route(s)
    PROVE  SettledInv'
<1>1. insert[s] # None
  BY DEF Route, In
<1>2. /\ UNCHANGED <<raced, rowCalls, rowReplies, client>>
  BY DEF Route, registryVars
<1>3. \A t \in Servers :
          t # s /\ insert'[t] = insert[t] /\ ~RowIsLost(t) => ~RowIsLost(t)'
  BY <1>2 DEF RowIsLost, CallOf
<1>4. CASE Wanted(s) = None /\ Reply(s, "error")
  <2>1. ~Routable(insert[s])
    BY <1>1, <1>4, RoutableRow
  <2>2. QED
    BY <1>1, <1>2, <1>3, <1>4, <2>1, SettledReply
<1>5. CASE insert' = [insert EXCEPT ![s].step = "copy"] /\ UNCHANGED answers
  <2>1. insert[s] \in Running
    BY <1>1, RunningFacts
  <2>2. /\ insert'[s].step = "copy" /\ insert'[s].settled = insert[s].settled
        /\ \A t \in Servers : t # s => insert'[t] = insert[t]
    BY <1>5, <2>1 DEF HistoryInv, SqlTypeOK, Running
  <2>3. insert'[s].settled => SettledRunning(s)'
    BY <1>1, <1>2, <2>2 DEF SettledInv, SettledRunning, AllJoined
  <2>4. \A t \in Servers : t # s /\ ~RowIsLost(t) => ~RowIsLost(t)'
    BY <1>3, <2>2
  <2>5. QED
    BY <1>2, <1>5, <2>2, <2>3, <2>4, SettledMove
<1>6. QED
  BY <1>4, <1>5 DEF Route

\* The only server that matches runs, so the request leaves.
LEMMA SettledSend ==
    ASSUME RegistryInv, HistoryInv, SettledInv, losses = 0, crashes = 0,
           NEW s \in Servers, Send(s)
    PROVE  SettledInv'
<1>1. insert[s] # None
  BY DEF Send, In
<1>2. UNCHANGED <<rowReplies, client>> /\ raced' \subseteq raced
  BY DEF Send, registryVars
<1>3. rowCalls \subseteq rowCalls'
  BY DEF Send, CallInsert
<1>4. \A t \in Servers :
          t # s /\ insert'[t] = insert[t] /\ ~RowIsLost(t) => ~RowIsLost(t)'
  BY <1>2, <1>3 DEF RowIsLost, CallOf
<1>5. PICK copy \in Copies(s) :
          \/ /\ \/ ~Accepts(GetServers(copy, Wanted(s)))
                \/ Row(s).kind = "unsupported"
             /\ Reply(s, "error")
          \/ /\ \E i \in GetServers(copy, Wanted(s)) : CallInsert(s, copy[i])
             /\ UNCHANGED answers
  BY DEF Send
<1>6. ASSUME insert[s].settled, Routable(insert[s])
      PROVE  \E only \in Servers :
                 /\ Up(only)
                 /\ Row(s).kind = "plain"
                 /\ Accepts(GetServers(copy, Wanted(s)))
                 /\ \A i \in GetServers(copy, Wanted(s)) : copy[i] = only
  <2>1. AllJoined(s) /\ s \notin raced
    BY <1>1, <1>6 DEF SettledInv, SettledRunning
  <2>2. PICK only \in Servers :
            \A t \in Servers : Matches(t, Wanted(s)) <=> t = only
    BY <1>1, <1>6, RoutableRow
  <2>3. /\ Accepts(GetServers(copy, Wanted(s)))
        /\ \A i \in GetServers(copy, Wanted(s)) : copy[i] = only
    BY <2>1, <2>2, SettledLookup
  <2>4. Up(only)
    BY <2>1, SettledFacts
  <2>5. QED
    BY <1>1, <1>6, <2>3, <2>4, RoutableRow
<1>7. CASE /\ \/ ~Accepts(GetServers(copy, Wanted(s)))
              \/ Row(s).kind = "unsupported"
           /\ Reply(s, "error")
  <2>1. ~insert[s].settled \/ ~Routable(insert[s])
    BY <1>6, <1>7
  <2>2. QED
    BY <1>1, <1>2, <1>4, <1>7, <2>1, SettledReply
<1>8. ASSUME NEW i \in GetServers(copy, Wanted(s)), CallInsert(s, copy[i]),
             UNCHANGED answers
      PROVE  SettledInv'
  <2>1. insert[s] \in Running
    BY <1>1, RunningFacts
  <2>2. /\ insert'[s] = [insert[s] EXCEPT !.step = "wait"]
        /\ \A t \in Servers : t # s => insert'[t] = insert[t]
    BY <1>8, <2>1 DEF HistoryInv, SqlTypeOK, CallInsert
  <2>3. /\ insert'[s].settled = insert[s].settled
        /\ insert'[s].stmt = insert[s].stmt
        /\ insert'[s].number = insert[s].number
        /\ insert'[s].next = insert[s].next
    BY <2>1, <2>2 DEF Running
  <2>4. ASSUME insert'[s].settled
        PROVE  SettledRunning(s)'
    <3>1. AllJoined(s)' /\ s \notin raced'
      BY <1>1, <1>2, <2>3, <2>4 DEF SettledInv, SettledRunning, AllJoined
    <3>2. Routable(insert[s])' <=> Routable(insert'[s])
      BY DEF Routable, Matches, Attribute
    <3>3. Routable(insert'[s]) <=> Routable(insert[s])
      BY <2>3 DEF Routable
    <3>4. ASSUME Routable(insert[s])
          PROVE  ~RowIsLost(s)'
      <4>1. Up(copy[i])
        BY <1>6, <1>8, <2>3, <2>4, <3>4
      <4> DEFINE call == [from |-> s, to |-> copy[i], number |-> insert[s].number,
                          row |-> insert[s].next, wanted |-> Wanted(s)]
      <4>2. /\ call \in rowCalls' /\ call.from = s
            /\ call.number = insert[s].number /\ call.row = insert[s].next
        BY <1>8, <4>1 DEF CallInsert
      <4> HIDE DEF call
      <4>3. QED
        BY <2>3, <4>2 DEF RowIsLost, CallOf
    <3>5. QED
      BY <3>1, <3>2, <3>3, <3>4 DEF SettledRunning
  <2>5. \A t \in Servers : t # s /\ ~RowIsLost(t) => ~RowIsLost(t)'
    BY <1>4, <2>2
  <2>6. QED
    BY <1>2, <1>8, <2>2, <2>4, <2>5, SettledMove
<1>9. QED
  BY <1>5, <1>7, <1>8

LEMMA SettledRowIsIn ==
    ASSUME HistoryInv, SettledInv, losses = 0, crashes = 0,
           NEW s \in Servers, RowIsIn(s)
    PROVE  SettledInv'
<1>1. insert[s] # None
  BY DEF RowIsIn, In
<1>2. UNCHANGED <<raced, rowCalls, client>>
  BY DEF RowIsIn, registryVars
<1>3. \A c \in rowReplies : c.from # s => c \in rowReplies'
  BY DEF RowIsIn, CallOf
<1>4. \A t \in Servers :
          t # s /\ insert'[t] = insert[t] /\ ~RowIsLost(t) => ~RowIsLost(t)'
  BY <1>2, <1>3 DEF RowIsLost, CallOf
<1>5. CASE Reply(s, "ok")
  BY <1>1, <1>2, <1>4, <1>5, SettledReply
<1>6. CASE /\ insert' = [insert EXCEPT ![s].step = "route", ![s].next = @ + 1]
           /\ UNCHANGED answers
  <2>1. insert[s] \in Running
    BY <1>1, RunningFacts
  <2>2. /\ insert'[s].step = "route" /\ insert'[s].settled = insert[s].settled
        /\ \A t \in Servers : t # s => insert'[t] = insert[t]
    BY <1>6, <2>1 DEF HistoryInv, SqlTypeOK, Running
  <2>3. insert'[s].settled => SettledRunning(s)'
    BY <1>1, <1>2, <2>2 DEF SettledInv, SettledRunning, AllJoined
  <2>4. \A t \in Servers : t # s /\ ~RowIsLost(t) => ~RowIsLost(t)'
    BY <1>4, <2>2
  <2>5. QED
    BY <1>2, <1>6, <2>2, <2>3, <2>4, SettledMove
<1>7. QED
  BY <1>5, <1>6 DEF RowIsIn, NextRow

\* Without a fault a call fails only when it never left.
LEMMA SettledRowFails ==
    ASSUME HistoryInv, SettledInv, losses = 0, crashes = 0,
           NEW s \in Servers, RowFails(s), losses' = 0
    PROVE  SettledInv'
<1>1. insert[s] # None /\ insert[s].step = "wait" /\ Reply(s, "error")
  BY DEF RowFails, In, ReplyError
<1>2. RowIsLost(s)
  BY RowLosses DEF HistoryInv
<1>3. UNCHANGED <<raced, client>>
  BY DEF RowFails, joinVars
<1>4. /\ \A c \in rowCalls : c.from # s => c \in rowCalls'
      /\ \A c \in rowReplies : c.from # s => c \in rowReplies'
  BY DEF RowFails, CallOf
<1>5. \A t \in Servers :
          t # s /\ insert'[t] = insert[t] /\ ~RowIsLost(t) => ~RowIsLost(t)'
  BY <1>4 DEF RowIsLost, CallOf
<1>6. ~insert[s].settled \/ ~Routable(insert[s])
  BY <1>1, <1>2 DEF SettledInv, SettledRunning
<1>7. QED
  BY <1>1, <1>3, <1>5, <1>6, SettledReply

LEMMA SettledHandle ==
    ASSUME SettledInv, losses = 0, crashes = 0, NEW c \in rowCalls, HandleRow(c)
    PROVE  SettledInv'
<1>1. UNCHANGED <<insert, raced, answers, client>>
  BY DEF HandleRow, registryVars
<1>2. \A b \in rowCalls : b \in rowCalls' \/ b \in rowReplies'
  BY DEF HandleRow
<1>3. rowReplies \subseteq rowReplies'
  BY DEF HandleRow
<1>4. \A t \in Servers : ~RowIsLost(t) => ~RowIsLost(t)'
  BY <1>1, <1>2, <1>3 DEF RowIsLost, CallOf
<1>5. \A a : Routable(a)' <=> Routable(a)
  BY DEF Routable, Matches, Attribute
<1>6. QED
  BY <1>1, <1>4, <1>5 DEF SettledInv, SettledRunning, AllJoined

LEMMA SettledStep ==
    ASSUME RegistryInv, HistoryInv, SettledInv, [InsertNext]_vars
    PROVE  SettledInv'
<1> SUFFICES ASSUME losses' = 0, crashes' = 0 PROVE SettledInv'
  BY DEF SettledInv
<1>1. losses = 0 /\ crashes = 0
  BY FaultsStay DEF HistoryInv
<1>2. \A s \in Servers : ~Die(s)
  BY DEF HistoryInv, TypeOK, Die
<1>3. \A s \in Servers : ~(RowKills(s) \/ LookupKills(s) \/ Killed(s))
  BY <1>2 DEF Crash, RowKills, LookupKills, Killed
<1>4. CASE \E s \in Servers : (Start(s) \/ Join(s)) /\ UNCHANGED sqlVars
  BY <1>1, <1>4, SettledJoin
<1>5. CASE \E c \in calls : RegisterDuringLookup(c)
  BY <1>1, <1>5, SettledRegister
<1>6. CASE \E s \in Servers, stmt \in Statements :
              BeginInsert(s, stmt) \/ InsertSelect(s, stmt)
  BY <1>1, <1>6, SettledBegin, SettledSelect
<1>7. CASE \E s \in Servers : Refuse(s)
  BY <1>1, <1>7, SettledRefuse
<1>8. CASE \E s \in Servers : Route(s)
  BY <1>1, <1>8, SettledRoute
<1>9. CASE \E s \in Servers : Send(s)
  BY <1>1, <1>9, SettledSend
<1>10. CASE \E s \in Servers : RowIsIn(s)
  BY <1>1, <1>10, SettledRowIsIn
<1>11. CASE \E s \in Servers : RowFails(s)
  BY <1>1, <1>11, SettledRowFails
<1>12. CASE \E c \in rowCalls : HandleRow(c)
  BY <1>1, <1>12, SettledHandle
<1>13. CASE UNCHANGED vars
  <2>1. UNCHANGED <<insert, raced, rowCalls, rowReplies, answers, client>>
    BY <1>13 DEF vars, registryVars, sqlVars
  <2>2. \A s : RowIsLost(s)' <=> RowIsLost(s)
    BY <2>1 DEF RowIsLost, CallOf
  <2>3. \A a : Routable(a)' <=> Routable(a)
    BY DEF Routable, Matches, Attribute
  <2>4. QED
    BY <1>1, <2>1, <2>2, <2>3 DEF SettledInv, SettledRunning, AllJoined
<1>14. QED
  BY <1>3, <1>4, <1>5, <1>6, <1>7, <1>8, <1>9, <1>10, <1>11, <1>12, <1>13
  DEF InsertNext, SqlThread

\* Once every server has joined one, and nothing has failed, each INSERT there
\* whose partitions name one server each succeeds: the registry holds every
\* server once and nobody appends to it any more, the server found runs, and
\* its answer comes (join, get_servers, insert).
THEOREM SettledClustersInsert == InsertSpec => []SettledInsertsSucceed
<1>1. InsertInit => SettledInv
  BY DEF InsertInit, SettledInv
<1>2. SettledInv => SettledInsertsSucceed
  BY DEF SettledInv, SettledInsertsSucceed
<1>3. RegistryInv /\ HistoryInv /\ SettledInv /\ [InsertNext]_vars => SettledInv'
  BY SettledStep
<1>4. QED
  BY InsertsLeaveTheRegistry, HistoryInductive, <1>1, <1>2, <1>3, PTL DEF InsertSpec
=============================================================================

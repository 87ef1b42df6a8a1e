---------------------- MODULE StoreTransactions_proofs ----------------------
(***************************************************************************)
(* Proofs about the transactions of a store: their types for every client, *)
(* that a pool with any number of connections keeps the transactions of    *)
(* any number of concurrent calls apart, and that SQLite's one connection  *)
(* keeps the promises made to the calls that begin a transaction.          *)
(***************************************************************************)
EXTENDS StoreTransactions, TLAPS

-----------------------------------------------------------------------------
(* Types.                                                                  *)

LEMMA LengthType ==
  ASSUME NEW p \in Calls
  PROVE  Length(p) \in Nat /\ 1 <= Length(p) /\ Length(p) <= Statements
BY TransactionsAssumption DEF Length

LEMMA ExecuteType ==
  ASSUME NEW p \in Calls, NEW c \in Connections, TypeOK, Execute(p, c)
  PROVE  /\ done' \in [Calls -> 0..Statements]
         /\ dirty' \in [Connections -> SUBSET (Calls \X (1..Statements))]
         /\ durable' \in SUBSET (Calls \X (1..Statements))
<1>1. done[p] \in 0..Statements /\ done[p] + 1 \in 1..Statements
  BY LengthType, TransactionsAssumption DEF TypeOK, Execute
<1>2. <<p, done[p] + 1>> \in Calls \X (1..Statements)
  BY <1>1
<1> QED BY <1>1, <1>2 DEF TypeOK, Execute

LEMMA EndSqlType ==
  ASSUME NEW c \in Connections, NEW commits \in BOOLEAN, TypeOK, EndSql(c, commits)
  PROVE  /\ sql' \in [Connections -> {"idle", "open", "aborted"}]
         /\ dirty' \in [Connections -> SUBSET (Calls \X (1..Statements))]
         /\ durable' \in SUBSET (Calls \X (1..Statements))
BY DEF TypeOK, EndSql

LEMMA StepTypes ==
  ASSUME NEW p \in Calls, TypeOK, Step(p), UNCHANGED client, pc[p] \in InProgress => conn[p] \in Connections
  PROVE  TypeOK'
<1> USE DEF InProgress, Answers
<1>1. ASSUME NEW c \in Connections, BeginOwn(p, c) PROVE TypeOK'
  BY <1>1 DEF TypeOK, BeginOwn, Shared
<1>2. ASSUME NEW c \in Connections, Join(p, c) PROVE TypeOK'
  BY <1>2 DEF TypeOK, Join
<1>3. ASSUME NEW c \in Connections, PlainStatement(p, c) PROVE TypeOK'
  BY <1>3, ExecuteType DEF TypeOK, PlainStatement
<1>4. ASSUME NEW c \in Connections, PlainFails(p, c) PROVE TypeOK'
  BY <1>4, TransactionsAssumption DEF TypeOK, PlainFails, AbortSql
<1>5. CASE Statement(p)
  BY <1>5, ExecuteType DEF TypeOK, Statement
<1>6. CASE StatementFails(p)
  BY <1>6, TransactionsAssumption DEF TypeOK, StatementFails, AbortSql
<1>7. CASE FunctionThrows(p)
  BY <1>7, TransactionsAssumption DEF TypeOK, FunctionThrows
<1>8. CASE Commit(p)
  BY <1>8, EndSqlType DEF TypeOK, Commit, AfterEnd
<1>9. CASE Rollback(p)
  BY <1>9, EndSqlType DEF TypeOK, Rollback, AfterEnd
<1>10. CASE Close(p)
  BY <1>10 DEF TypeOK, Close
<1>11. CASE JoinedReturns(p)
  BY <1>11 DEF TypeOK, JoinedReturns
<1> QED
  BY <1>1, <1>2, <1>3, <1>4, <1>5, <1>6, <1>7, <1>8, <1>9, <1>10, <1>11 DEF Step

(* A call in progress has a connection.                                    *)
Connected == \A p \in Calls : pc[p] \in InProgress => conn[p] \in Connections

LEMMA StepConnected ==
  ASSUME TypeOK, Connected, [Next]_vars
  PROVE  Connected'
<1> USE DEF TypeOK, Connected, InProgress, Answers
<1>1. ASSUME NEW p \in Calls, Step(p) PROVE Connected'
  BY <1>1 DEF Step, BeginOwn, Join, PlainStatement, PlainFails, Statement, StatementFails,
              FunctionThrows, Commit, Rollback, AfterEnd, Close, JoinedReturns
<1>2. CASE Crash
  BY <1>2 DEF Crash
<1>3. CASE UNCHANGED vars
  BY <1>3 DEF vars
<1> QED BY <1>1, <1>2, <1>3 DEF Next

(* Every state has its type.                                               *)
THEOREM TypeCorrect == Spec => [](TypeOK /\ Connected)
<1>1. Init => TypeOK /\ Connected
  <2> SUFFICES ASSUME Init PROVE TypeOK /\ Connected
    OBVIOUS
  <2> USE DEF Init, InProgress, Answers
  <2>1. 0 \in 0..Statements /\ 0 \in 0..MaxFaults
    BY TransactionsAssumption
  <2>2. TypeOK
    BY <2>1 DEF TypeOK
  <2>3. Connected
    BY DEF Connected
  <2> QED BY <2>2, <2>3
<1>2. TypeOK /\ Connected /\ [Next]_vars => (TypeOK /\ Connected)'
  <2> SUFFICES ASSUME TypeOK, Connected, [Next]_vars PROVE TypeOK'
    BY StepConnected
  <2>0. client' = client
    BY DEF Next, vars
  <2>1. ASSUME NEW p \in Calls, Step(p) PROVE TypeOK'
    <3>1. pc[p] \in InProgress => conn[p] \in Connections
      BY DEF Connected
    <3> QED BY <2>1, <2>0, <3>1, StepTypes
  <2>2. CASE Crash
    <3> USE DEF Crash, InProgress, Answers
    <3>1. faults' \in 0..MaxFaults
      BY <2>2, TransactionsAssumption DEF TypeOK
    <3>2. pc' \in [Calls -> {"new"} \cup InProgress \cup Answers]
      BY <2>2 DEF TypeOK
    <3> QED BY <2>2, <2>0, <3>1, <3>2 DEF TypeOK
  <2>3. CASE UNCHANGED vars
    BY <2>3 DEF vars, TypeOK
  <2> QED BY <2>1, <2>2, <2>3 DEF Next
<1> QED BY <1>1, <1>2, PTL DEF Spec

-----------------------------------------------------------------------------
(* A pool keeps transactions apart. Every call in progress has a           *)
(* connection to itself, whose open transaction holds exactly the          *)
(* statements the call has executed; connections nobody uses hold nothing. *)

NothingWritten(p) == \A w \in Writes[p] : w \notin durable
AllWritten(p) == \A w \in Writes[p] : w \in durable

CallInv(p) ==
  /\ pc[p] = "new" => ~owner[p] /\ done[p] = 0
  /\ pc[p] \in InProgress => p \notin Plain /\ conn[p] \in Connections /\ owner[p]
  /\ pc[p] \in {"new", "running", "throwing", "reverting", "failed"} => NothingWritten(p)
  /\ pc[p] \in {"closing", "ok"} => AllWritten(p)
  /\ pc[p] = "lost" => NothingWritten(p) \/ AllWritten(p)
  /\ pc[p] = "running" => sql[conn[p]] = "open" /\ dirty[conn[p]] = {p} \X (1..done[p])
  /\ pc[p] = "throwing" => sql[conn[p]] \in {"open", "aborted"}
  /\ pc[p] \in {"closing", "reverting"} => sql[conn[p]] = "idle" /\ dirty[conn[p]] = {}

Users(c) == {p \in Calls : pc[p] \in InProgress /\ conn[p] = c}

PoolInv ==
  /\ \A p \in Calls : CallInv(p)
  /\ \A p, q \in Calls :
       p # q /\ pc[p] \in InProgress /\ pc[q] \in InProgress => conn[p] # conn[q]
  /\ \A c \in Connections : Users(c) = {} => sql[c] = "idle" /\ dirty[c] = {}
  /\ ~inTransaction

(* What a step of p on connection c leaves alone.                          *)
Others(p, c) ==
  /\ \A q \in Calls \ {p} :
       /\ pc'[q] = pc[q] /\ conn'[q] = conn[q] /\ owner'[q] = owner[q] /\ done'[q] = done[q]
       /\ \A w \in Writes[q] : w \in durable' <=> w \in durable
  /\ \A d \in Connections \ {c} : sql'[d] = sql[d] /\ dirty'[d] = dirty[d]

(* A step of p on a connection that is its own, or nobody's, keeps what    *)
(* the invariant says of the other calls and the other connections.        *)
LEMMA OthersKept ==
  ASSUME NEW p \in Calls, NEW c \in Connections, TypeOK, PoolInv, Others(p, c),
         Users(c) \subseteq {p}
  PROVE  /\ \A q \in Calls \ {p} : CallInv(q)'
         /\ \A q \in Calls \ {p} : pc'[q] \in InProgress => conn'[q] # c
         /\ \A q, r \in Calls \ {p} :
              q # r /\ pc'[q] \in InProgress /\ pc'[r] \in InProgress => conn'[q] # conn'[r]
<1>1. ASSUME NEW q \in Calls \ {p} PROVE pc[q] \in InProgress => conn[q] # c
  BY DEF Users
<1>2. ASSUME NEW q \in Calls \ {p} PROVE CallInv(q)'
  <2>1. CallInv(q)
    BY DEF PoolInv
  <2>2. (NothingWritten(q) => NothingWritten(q)') /\ (AllWritten(q) => AllWritten(q)')
    BY DEF Others, NothingWritten, AllWritten, Writes
  <2>3. pc[q] \in InProgress =>
          sql'[conn'[q]] = sql[conn[q]] /\ dirty'[conn'[q]] = dirty[conn[q]]
    BY <1>1, <2>1 DEF Others, CallInv
  <2> QED BY <2>1, <2>2, <2>3 DEF Others, CallInv, InProgress
<1> QED BY <1>1, <1>2 DEF Others, PoolInv

LEMMA PoolKept ==
  ASSUME NEW p \in Calls, NEW c \in Connections, TypeOK, PoolInv, Others(p, c),
         Users(c) \subseteq {p},
         pc[p] \in InProgress => conn[p] = c,
         pc'[p] \in InProgress => conn'[p] = c,
         pc'[p] \notin InProgress => sql'[c] = "idle" /\ dirty'[c] = {},
         CallInv(p)', ~inTransaction'
  PROVE  PoolInv'
<1>1. \A q \in Calls : CallInv(q)'
  BY OthersKept
<1>2. \A q, r \in Calls :
        q # r /\ pc'[q] \in InProgress /\ pc'[r] \in InProgress => conn'[q] # conn'[r]
  BY OthersKept
<1>3. ASSUME NEW d \in Connections, Users(d)' = {} PROVE sql'[d] = "idle" /\ dirty'[d] = {}
  <2>1. CASE d = c
    <3>1. pc'[p] \notin InProgress
      BY <1>3, <2>1 DEF Users, InProgress
    <3> QED BY <2>1, <3>1
  <2>2. CASE d # c
    <3>1. \A q \in Calls \ {p} : pc'[q] = pc[q] /\ conn'[q] = conn[q]
      BY DEF Others
    <3>2. Users(d) = {}
      BY <1>3, <2>2, <3>1 DEF Users, InProgress
    <3> QED BY <2>2, <3>2 DEF PoolInv, Others
  <2> QED BY <2>1, <2>2
<1> QED BY <1>1, <1>2, <1>3 DEF PoolInv

(* A call in progress shares its connection with nobody.                   *)
LEMMA Alone ==
  ASSUME NEW p \in Calls, PoolInv, pc[p] \in InProgress
  PROVE  Users(conn[p]) \subseteq {p} /\ conn[p] \in Connections /\ CallInv(p)
BY DEF PoolInv, CallInv, Users

LEMMA PoolBegins ==
  ASSUME client = "pool", TypeOK, PoolInv,
         NEW p \in Calls, NEW c \in Connections, BeginOwn(p, c)
  PROVE  PoolInv'
<1>1. Users(c) = {}
  BY DEF BeginOwn, Shared, Users, InUse
<1>2. dirty[c] = {} /\ CallInv(p)
  BY <1>1 DEF PoolInv
<1>3. {p} \X (1..0) = {}
  OBVIOUS
<1>4. CallInv(p)'
  BY <1>2, <1>3 DEF TypeOK, CallInv, BeginOwn, InProgress, NothingWritten
<1> QED
  BY <1>1, <1>4, PoolKept DEF TypeOK, PoolInv, BeginOwn, Others, Shared, InProgress

LEMMA PoolPlain ==
  ASSUME client = "pool", TypeOK, PoolInv, NEW p \in Calls, NEW c \in Connections,
         PlainStatement(p, c) \/ PlainFails(p, c)
  PROVE  PoolInv'
<1>1. Users(c) = {} /\ c \notin InUse
  BY DEF PlainStatement, PlainFails, Shared, Users, InUse
<1>2. sql[c] = "idle" /\ dirty[c] = {} /\ CallInv(p) /\ pc[p] = "new" /\ done[p] = 0
  BY <1>1 DEF PoolInv, PlainStatement, PlainFails, CallInv
<1>3. CASE PlainStatement(p, c)
  <2>1. durable' = durable \cup {<<p, 1>>} /\ UNCHANGED <<sql, dirty>>
    BY <1>2, <1>3 DEF PlainStatement, Execute
  <2>2. Writes[p] = {<<p, 1>>}
    BY <1>3 DEF PlainStatement, Writes, Length
  <2>3. AllWritten(p)'
    BY <2>1, <2>2 DEF AllWritten, Writes, Length
  <2>4. CallInv(p)'
    BY <2>3, <1>3 DEF PlainStatement, CallInv, TypeOK, InProgress
  <2>5. Others(p, c)
    BY <1>3, <2>1 DEF PlainStatement, Execute, Others, Writes, TypeOK
  <2> QED
    BY <1>1, <1>2, <1>3, <2>1, <2>4, <2>5, PoolKept DEF PlainStatement, PoolInv, TypeOK, InProgress
<1>4. CASE PlainFails(p, c)
  <2>1. UNCHANGED <<sql, dirty, durable>>
    BY <1>2, <1>4 DEF PlainFails, AbortSql, TypeOK
  <2>2. CallInv(p)'
    BY <1>2, <1>4, <2>1 DEF PlainFails, CallInv, TypeOK, InProgress, NothingWritten
  <2>3. Others(p, c)
    BY <1>4, <2>1 DEF PlainFails, Others, TypeOK
  <2> QED
    BY <1>1, <1>2, <1>4, <2>1, <2>2, <2>3, PoolKept DEF PlainFails, PoolInv, TypeOK, InProgress
<1> QED BY <1>3, <1>4

LEMMA PoolStatement ==
  ASSUME client = "pool", TypeOK, PoolInv, NEW p \in Calls, Statement(p)
  PROVE  PoolInv'
<1> DEFINE c == conn[p]
<1>1. Users(c) \subseteq {p} /\ c \in Connections /\ CallInv(p)
  BY Alone DEF Statement, InProgress
<1>2. pc[p] = "running" /\ sql[c] = "open" /\ dirty[c] = {p} \X (1..done[p]) /\ done[p] \in Nat
  BY <1>1, TransactionsAssumption DEF Statement, CallInv, TypeOK
<1>3. /\ dirty' = [dirty EXCEPT ![c] = @ \cup {<<p, done[p] + 1>>}]
      /\ done' = [done EXCEPT ![p] = @ + 1]
      /\ UNCHANGED <<durable, sql, pc, conn, owner, inTransaction>>
  BY <1>2 DEF Statement, Execute
<1>4. dirty'[c] = {p} \X (1..done'[p])
  <2>1. dirty'[c] = ({p} \X (1..done[p])) \cup {<<p, done[p] + 1>>}
    BY <1>1, <1>2, <1>3 DEF TypeOK
  <2>2. done'[p] = done[p] + 1
    BY <1>3 DEF TypeOK
  <2>3. 1..(done[p] + 1) = (1..done[p]) \cup {done[p] + 1}
    BY <1>2
  <2> QED BY <2>1, <2>2, <2>3
<1>5. CallInv(p)'
  BY <1>1, <1>2, <1>3, <1>4 DEF CallInv, NothingWritten, InProgress
<1>6. Others(p, c)
  BY <1>1, <1>3 DEF Others, TypeOK
<1> QED
  BY <1>1, <1>2, <1>3, <1>5, <1>6, PoolKept DEF PoolInv, InProgress

LEMMA PoolThrows ==
  ASSUME client = "pool", TypeOK, PoolInv, NEW p \in Calls,
         StatementFails(p) \/ FunctionThrows(p)
  PROVE  PoolInv'
<1> DEFINE c == conn[p]
<1>1. Users(c) \subseteq {p} /\ c \in Connections /\ CallInv(p)
  BY Alone DEF StatementFails, FunctionThrows, InProgress
<1>2. pc[p] = "running" /\ sql[c] = "open"
  BY <1>1 DEF StatementFails, FunctionThrows, CallInv
<1>3. /\ pc' = [pc EXCEPT ![p] = "throwing"]
      /\ sql' = [sql EXCEPT ![c] = sql'[c]] /\ sql'[c] \in {"open", "aborted"}
      /\ UNCHANGED <<conn, owner, done, inTransaction, dirty, durable>>
  BY <1>1, <1>2 DEF StatementFails, FunctionThrows, AbortSql, TypeOK
<1>4. CallInv(p)'
  BY <1>1, <1>2, <1>3 DEF CallInv, NothingWritten, InProgress, TypeOK
<1>5. Others(p, c)
  BY <1>1, <1>3 DEF Others, TypeOK
<1> QED
  BY <1>1, <1>2, <1>3, <1>4, <1>5, PoolKept DEF PoolInv, InProgress, TypeOK

LEMMA PoolEnds ==
  ASSUME client = "pool", TypeOK, PoolInv, NEW p \in Calls, Commit(p) \/ Rollback(p)
  PROVE  PoolInv'
<1> DEFINE c == conn[p]
<1>1. Users(c) \subseteq {p} /\ c \in Connections /\ CallInv(p)
  BY Alone DEF Commit, Rollback, InProgress
<1>2. /\ sql'[c] = "idle" /\ dirty'[c] = {}
      /\ \A d \in Connections \ {c} : sql'[d] = sql[d] /\ dirty'[d] = dirty[d]
      /\ UNCHANGED <<conn, owner, done, inTransaction>>
  BY <1>1 DEF Commit, Rollback, EndSql, AfterEnd, TypeOK
<1>3. CASE Commit(p)
  <2>1. durable' = durable \cup Writes[p]
    BY <1>1, <1>3 DEF Commit, EndSql, CallInv, Writes
  <2>2. pc' = [pc EXCEPT ![p] = "closing"]
    BY <1>3 DEF Commit, AfterEnd
  <2>3. CallInv(p)'
    BY <1>1, <1>2, <1>3, <2>1, <2>2 DEF Commit, CallInv, AllWritten, Writes, InProgress, TypeOK
  <2>4. Others(p, c)
    BY <1>2, <2>1, <2>2 DEF Others, Writes, TypeOK
  <2> QED
    BY <1>1, <1>2, <1>3, <2>2, <2>3, <2>4, PoolKept DEF Commit, PoolInv, InProgress, TypeOK
<1>4. CASE Rollback(p)
  <2>1. durable' = durable
    BY <1>4 DEF Rollback, EndSql
  <2>2. pc' = [pc EXCEPT ![p] = "reverting"]
    BY <1>4 DEF Rollback, AfterEnd
  <2>3. CallInv(p)'
    BY <1>1, <1>2, <1>4, <2>1, <2>2 DEF Rollback, CallInv, NothingWritten, Writes, InProgress, TypeOK
  <2>4. Others(p, c)
    BY <1>2, <2>1, <2>2 DEF Others, TypeOK
  <2> QED
    BY <1>1, <1>2, <1>4, <2>2, <2>3, <2>4, PoolKept DEF Rollback, PoolInv, InProgress, TypeOK
<1> QED BY <1>3, <1>4

LEMMA PoolCloses ==
  ASSUME client = "pool", TypeOK, PoolInv, NEW p \in Calls, Close(p)
  PROVE  PoolInv'
<1> DEFINE c == conn[p]
<1>1. Users(c) \subseteq {p} /\ c \in Connections /\ CallInv(p)
  BY Alone DEF Close, InProgress
<1>2. CallInv(p)'
  BY <1>1 DEF Close, CallInv, NothingWritten, AllWritten, InProgress, TypeOK
<1>3. Others(p, c)
  BY DEF Close, Others, TypeOK
<1>4. sql'[c] = "idle" /\ dirty'[c] = {}
  BY <1>1 DEF Close, CallInv
<1> QED
  BY <1>1, <1>2, <1>3, <1>4, PoolKept DEF Close, PoolInv, InProgress, TypeOK

LEMMA PoolCrash == TypeOK /\ PoolInv /\ Crash => PoolInv'
<1> SUFFICES ASSUME TypeOK, PoolInv, Crash PROVE PoolInv'
  OBVIOUS
<1>1. ASSUME NEW p \in Calls PROVE CallInv(p)' /\ pc'[p] \notin InProgress
  <2>1. CallInv(p)
    BY DEF PoolInv
  <2>2. pc'[p] = IF pc[p] \in InProgress THEN "lost" ELSE pc[p]
    BY DEF Crash
  <2> QED BY <2>1, <2>2 DEF Crash, CallInv, NothingWritten, AllWritten, InProgress
<1> QED BY <1>1 DEF Crash, PoolInv

LEMMA PoolStep ==
  ASSUME client = "pool", TypeOK, PoolInv, [Next]_vars
  PROVE  PoolInv'
<1>1. ASSUME NEW p \in Calls, Step(p) PROVE PoolInv'
  <2>1. ASSUME NEW c \in Connections, Join(p, c) PROVE FALSE
    BY <2>1 DEF Join, Shared
  <2>2. JoinedReturns(p) => FALSE
    BY Alone DEF JoinedReturns, CallInv, InProgress
  <2> QED
    BY <1>1, <2>1, <2>2, PoolBegins, PoolPlain, PoolStatement, PoolThrows, PoolEnds, PoolCloses
       DEF Step
<1>2. CASE UNCHANGED vars
  BY <1>2 DEF vars, PoolInv, CallInv, Users, NothingWritten, AllWritten
<1> QED BY <1>1, <1>2, PoolCrash DEF Next

LEMMA PoolInit == Init => PoolInv
BY DEF Init, PoolInv, CallInv, Users, NothingWritten, InProgress

(* The client of the pool is not replaced while the program runs.          *)
Pooled == client = "pool" => PoolInv

LEMMA PoolAlways == Spec => [](TypeOK /\ Pooled)
<1>1. TypeOK /\ Pooled /\ [Next]_vars => Pooled'
  BY PoolStep DEF Pooled, Next, vars
<1>2. Init => Pooled
  BY PoolInit DEF Pooled
<1> QED BY <1>1, <1>2, TypeCorrect, PTL DEF Spec

LEMMA WrittenSets ==
  ASSUME NEW p \in Calls
  PROVE  /\ NothingWritten(p) => WritesOf(p) = {}
         /\ AllWritten(p) => WritesOf(p) = Writes[p]
BY DEF NothingWritten, AllWritten, WritesOf

(* With a pool, the writes of every call are committed together or not at  *)
(* all: a claim is never stored without its event, however calls           *)
(* interleave, fail or are cut off by a crash.                             *)
THEOREM PoolAllOrNothing == Spec => [](client = "pool" => AllOrNothing)
<1>1. TypeOK /\ PoolInv => AllOrNothing
  <2> SUFFICES ASSUME TypeOK, PoolInv, NEW p \in Calls PROVE WritesOf(p) \in {{}, Writes[p]}
    BY DEF AllOrNothing
  <2>1. CallInv(p)
    BY DEF PoolInv
  <2>2. NothingWritten(p) \/ AllWritten(p)
    BY <2>1 DEF CallInv, TypeOK, InProgress, Answers
  <2> QED BY <2>2, WrittenSets
<1>2. TypeOK /\ Pooled => (client = "pool" => AllOrNothing)
  BY <1>1 DEF Pooled
<1> QED BY <1>2, PoolAlways, PTL

(* With a pool, the answer of a transaction is true: all its writes are    *)
(* committed when the caller was told ok, and none when it was told that   *)
(* the transaction failed.                                                 *)
THEOREM PoolAnswersAreTrue == Spec => [](client = "pool" => OwnersAreAtomic)
<1>1. TypeOK /\ PoolInv => OwnersAreAtomic
  <2> SUFFICES ASSUME TypeOK, PoolInv, NEW p \in Calls
               PROVE  /\ WritesOf(p) \in {{}, Writes[p]}
                      /\ pc[p] = "ok" => WritesOf(p) = Writes[p]
                      /\ pc[p] = "failed" => WritesOf(p) = {}
    BY DEF OwnersAreAtomic
  <2>1. CallInv(p)
    BY DEF PoolInv
  <2>2. /\ NothingWritten(p) \/ AllWritten(p)
        /\ pc[p] = "ok" => AllWritten(p)
        /\ pc[p] = "failed" => NothingWritten(p)
    BY <2>1 DEF CallInv, TypeOK, InProgress, Answers
  <2> QED BY <2>2, WrittenSets
<1>2. TypeOK /\ Pooled => (client = "pool" => OwnersAreAtomic)
  BY <1>1 DEF Pooled
<1> QED BY <1>2, PoolAlways, PTL

(* With a pool, when no call is in progress no connection is left in a     *)
(* transaction, after failures and crashes as well.                        *)
THEOREM PoolLeavesNothingOpen == Spec => [](client = "pool" => NothingLeftOpen)
<1>1. PoolInv => NothingLeftOpen
  BY DEF PoolInv, NothingLeftOpen, Users
<1>2. TypeOK /\ Pooled => (client = "pool" => NothingLeftOpen)
  BY <1>1 DEF Pooled
<1> QED BY <1>2, PoolAlways, PTL

-----------------------------------------------------------------------------
(* A pool implements atomic transactions.                                  *)

LEMMA WritesNotEmpty ==
  ASSUME NEW p \in Calls
  PROVE  <<p, 1>> \in Writes[p]
BY LengthType DEF Writes

LEMMA Outcomes ==
  ASSUME NEW p \in Calls, CallInv(p)
  PROVE  /\ pc[p] \in {"new", "running", "throwing"} => Outcome(p) = "pending"
         /\ pc[p] \in {"closing", "ok"} => Outcome(p) = "committed"
         /\ pc[p] \in {"reverting", "failed"} => Outcome(p) = "aborted"
         /\ pc[p] = "lost" => Outcome(p) = IF AllWritten(p) THEN "committed" ELSE "aborted"
<1>1. AllWritten(p) => Writes[p] \subseteq durable
  BY DEF AllWritten
<1>2. NothingWritten(p) => ~(Writes[p] \subseteq durable)
  BY WritesNotEmpty DEF NothingWritten
<1>3. AllWritten(p) <=> Writes[p] \subseteq durable
  BY DEF AllWritten
<1> QED BY <1>1, <1>2, <1>3 DEF Outcome, CallInv

LEMMA OutcomesNext ==
  ASSUME NEW p \in Calls, CallInv(p)'
  PROVE  /\ pc'[p] \in {"new", "running", "throwing"} => Outcome(p)' = "pending"
         /\ pc'[p] \in {"closing", "ok"} => Outcome(p)' = "committed"
         /\ pc'[p] \in {"reverting", "failed"} => Outcome(p)' = "aborted"
         /\ pc'[p] = "lost" => Outcome(p)' = IF AllWritten(p)' THEN "committed" ELSE "aborted"
<1>1. AllWritten(p)' <=> Writes[p] \subseteq durable'
  BY DEF AllWritten, Writes, Length
<1>2. NothingWritten(p)' => ~(Writes[p] \subseteq durable')
  BY WritesNotEmpty DEF NothingWritten, Writes, Length
<1> QED BY <1>1, <1>2 DEF Outcome, CallInv, Writes, Length

(* A step that leaves a call where it is leaves its outcome alone.         *)
LEMMA OutcomeKept ==
  ASSUME NEW q \in Calls, pc'[q] = pc[q],
         \A w \in Writes[q] : w \in durable' <=> w \in durable
  PROVE  Outcome(q)' = Outcome(q) /\ Told(q)' = Told(q)
<1>1. (Writes[q] \subseteq durable)' <=> Writes[q] \subseteq durable
  BY DEF Writes
<1> QED BY <1>1 DEF Outcome, Told

LEMMA StepImplements ==
  ASSUME client = "pool", TypeOK, PoolInv, PoolInv', TypeOK', NEW p \in Calls, Step(p)
  PROVE  Atomic!Next \/ UNCHANGED Atomic!vars
<1> DEFINE outcome == [q \in Calls |-> Outcome(q)]
           answer == [q \in Calls |-> Told(q)]
<1>1. CallInv(p) /\ CallInv(p)'
  BY DEF PoolInv
<1>2. ASSUME NEW q \in Calls \ {p} PROVE pc'[q] = pc[q]
  BY DEF Step, BeginOwn, Join, PlainStatement, PlainFails, Statement, StatementFails,
         FunctionThrows, Commit, Rollback, AfterEnd, Close, JoinedReturns, TypeOK
<1>3. ASSUME NEW q \in Calls \ {p}, durable' = durable \/ durable' = durable \cup Writes[p]
      PROVE  Outcome(q)' = Outcome(q) /\ Told(q)' = Told(q)
  <2>1. \A w \in Writes[q] : w \in durable' <=> w \in durable
    BY <1>3 DEF Writes
  <2> QED BY <1>2, <2>1, OutcomeKept
<1>4. CASE \/ \E c \in Connections : BeginOwn(p, c)
           \/ Statement(p) \/ StatementFails(p) \/ FunctionThrows(p)
  <2>1. durable' = durable
    BY <1>1, <1>4 DEF BeginOwn, Statement, Execute, StatementFails, FunctionThrows, CallInv
  <2>2. pc[p] \in {"new", "running"} /\ pc'[p] \in {"running", "throwing"}
    BY <1>4 DEF BeginOwn, Statement, StatementFails, FunctionThrows, TypeOK
  <2>3. Outcome(p) = "pending" /\ Outcome(p)' = "pending" /\ Told(p) = "none" /\ Told(p)' = "none"
    BY <1>1, <2>2, Outcomes, OutcomesNext DEF Told
  <2>4. outcome' = outcome /\ answer' = answer
    BY <1>3, <2>1, <2>3
  <2> QED BY <2>1, <2>4 DEF Atomic!vars
<1>5. CASE \E c \in Connections : PlainStatement(p, c)
  <2>1. PICK c \in Connections : PlainStatement(p, c)
    BY <1>5
  <2>2. pc[p] = "new" /\ pc'[p] = "ok" /\ c \notin InUse /\ p \in Plain
    BY <2>1 DEF PlainStatement, Shared, TypeOK
  <2>3. sql[c] = "idle" /\ done[p] = 0
    BY <1>1, <2>2 DEF PoolInv, CallInv, Users, InUse
  <2>4. durable' = durable \cup Writes[p]
    BY <2>1, <2>2, <2>3 DEF PlainStatement, Execute, Writes, Length
  <2>5. Outcome(p) = "pending" /\ Outcome(p)' = "committed" /\ Told(p)' = "ok"
    BY <1>1, <2>2, Outcomes, OutcomesNext DEF Told
  <2>6. outcome' = [outcome EXCEPT ![p] = "committed"] /\ answer' = [answer EXCEPT ![p] = "ok"]
    BY <1>3, <2>4, <2>5
  <2>7. Atomic!Commit(p)
    BY <2>4, <2>5, <2>6 DEF Atomic!Commit
  <2> QED BY <2>7 DEF Atomic!Next
<1>6. CASE \E c \in Connections : PlainFails(p, c)
  <2>1. durable' = durable /\ pc[p] = "new" /\ pc'[p] = "failed"
    BY <1>6 DEF PlainFails, TypeOK
  <2>2. Outcome(p) = "pending" /\ Outcome(p)' = "aborted" /\ Told(p)' = "failed"
    BY <1>1, <2>1, Outcomes, OutcomesNext DEF Told
  <2>3. outcome' = [q \in Calls |-> IF q \in {p} THEN "aborted" ELSE outcome[q]]
    BY <1>3, <2>1, <2>2
  <2>4. answer' = [q \in Calls |-> IF q \in {p} THEN "failed" ELSE answer[q]]
    BY <1>3, <2>1, <2>2
  <2>5. Atomic!Abort({p})
    BY <2>1, <2>2, <2>3, <2>4 DEF Atomic!Abort
  <2> QED BY <2>5 DEF Atomic!Next
<1>7. CASE Commit(p)
  <2>1. pc[p] = "running" /\ pc'[p] = "closing"
    BY <1>7 DEF Commit, AfterEnd, TypeOK
  <2>2. durable' = durable \cup Writes[p]
    BY <1>1, <1>7, <2>1 DEF Commit, EndSql, CallInv, Writes
  <2>3. Outcome(p) = "pending" /\ Outcome(p)' = "committed" /\ Told(p)' = Told(p)
    BY <1>1, <2>1, Outcomes, OutcomesNext DEF Told
  <2>4. outcome' = [outcome EXCEPT ![p] = "committed"] /\ answer' = answer
    BY <1>3, <2>2, <2>3
  <2>5. Atomic!Commit(p)
    BY <2>2, <2>3, <2>4 DEF Atomic!Commit
  <2> QED BY <2>5 DEF Atomic!Next
<1>8. CASE Rollback(p)
  <2>1. durable' = durable /\ pc[p] = "throwing" /\ pc'[p] = "reverting"
    BY <1>8 DEF Rollback, EndSql, AfterEnd, TypeOK
  <2>2. Outcome(p) = "pending" /\ Outcome(p)' = "aborted" /\ Told(p)' = Told(p)
    BY <1>1, <2>1, Outcomes, OutcomesNext DEF Told
  <2>3. outcome' = [q \in Calls |-> IF q \in {p} THEN "aborted" ELSE outcome[q]]
    BY <1>3, <2>1, <2>2
  <2>4. \E told \in SUBSET {p} :
          answer' = [q \in Calls |-> IF q \in told THEN "failed" ELSE answer[q]]
    <3>1. answer' = [q \in Calls |-> IF q \in {} THEN "failed" ELSE answer[q]]
      BY <1>3, <2>1, <2>2
    <3>2. {} \in SUBSET {p}
      OBVIOUS
    <3> QED BY <3>1, <3>2
  <2>5. Atomic!Abort({p})
    BY <2>1, <2>2, <2>3, <2>4 DEF Atomic!Abort
  <2> QED BY <2>5 DEF Atomic!Next
<1>9. CASE Close(p)
  <2>1. /\ durable' = durable
        /\ \/ pc[p] = "closing" /\ pc'[p] = "ok"
           \/ pc[p] = "reverting" /\ pc'[p] = "failed"
    BY <1>9 DEF Close, TypeOK
  <2>2. Outcome(p)' = Outcome(p) /\ Told(p) = "none"
    BY <1>1, <2>1, Outcomes, OutcomesNext DEF Told
  <2>3. outcome' = outcome
    BY <1>3, <2>1, <2>2
  <2>4. answer' = [answer EXCEPT ![p] = pc'[p]]
    BY <1>3, <2>1 DEF Told
  <2>5. \/ pc'[p] = "ok" /\ Outcome(p) = "committed"
        \/ pc'[p] = "failed" /\ Outcome(p) = "aborted"
    BY <1>1, <2>1, Outcomes
  <2>6. Atomic!Answer(p)
    BY <2>1, <2>2, <2>3, <2>4, <2>5 DEF Atomic!Answer
  <2> QED BY <2>6 DEF Atomic!Next
<1>10. ~(\E c \in Connections : Join(p, c)) /\ ~JoinedReturns(p)
  BY <1>1 DEF Join, Shared, JoinedReturns, CallInv, InProgress
<1> QED BY <1>4, <1>5, <1>6, <1>7, <1>8, <1>9, <1>10 DEF Step

(* A crash aborts the transactions that are open, and no other.            *)
LEMMA CrashImplements ==
  ASSUME TypeOK, PoolInv, PoolInv', Crash
  PROVE  Atomic!Next
<1> DEFINE outcome == [q \in Calls |-> Outcome(q)]
           answer == [q \in Calls |-> Told(q)]
           these == {q \in Calls : pc[q] \in {"running", "throwing"}}
<1>1. ASSUME NEW q \in Calls
      PROVE  /\ q \in these => Outcome(q) = "pending" /\ Outcome(q)' = "aborted"
             /\ q \notin these => Outcome(q)' = Outcome(q)
             /\ Told(q)' = Told(q)
  <2>1. CallInv(q) /\ CallInv(q)' /\ durable' = durable
    BY DEF PoolInv, Crash
  <2>2. pc'[q] = IF pc[q] \in InProgress THEN "lost" ELSE pc[q]
    BY DEF Crash
  <2>3. AllWritten(q)' = AllWritten(q) /\ (NothingWritten(q) => ~AllWritten(q))
    BY <2>1, WritesNotEmpty DEF AllWritten, NothingWritten, Writes
  <2>4. Told(q)' = Told(q)
    BY <2>2 DEF Told, InProgress
  <2>5. CASE pc[q] \in {"running", "throwing"}
    <3>1. Outcome(q) = "pending"
      BY <2>1, <2>5, Outcomes
    <3>2. pc'[q] = "lost" /\ ~AllWritten(q)'
      BY <2>1, <2>2, <2>3, <2>5 DEF CallInv, InProgress
    <3>3. Outcome(q)' = "aborted"
      BY <2>1, <3>2, OutcomesNext
    <3> QED BY <2>4, <2>5, <3>1, <3>3
  <2>6. CASE pc[q] \in {"closing", "reverting"}
    <3>1. pc'[q] = "lost"
      BY <2>2, <2>6 DEF InProgress
    <3>2. AllWritten(q)' <=> pc[q] = "closing"
      BY <2>1, <2>3, <2>6 DEF CallInv
    <3>3. Outcome(q)' = Outcome(q)
      BY <2>1, <2>6, <3>1, <3>2, Outcomes, OutcomesNext
    <3> QED BY <2>4, <2>6, <3>3
  <2>7. CASE pc[q] \notin InProgress
    <3>1. pc'[q] = pc[q] /\ \A w \in Writes[q] : w \in durable' <=> w \in durable
      BY <2>1, <2>2, <2>7
    <3> QED BY <2>7, <3>1, OutcomeKept DEF InProgress
  <2> QED BY <2>5, <2>6, <2>7 DEF InProgress
<1>2. outcome' = [q \in Calls |-> IF q \in these THEN "aborted" ELSE outcome[q]]
  BY <1>1
<1>3. \E told \in SUBSET these :
        answer' = [q \in Calls |-> IF q \in told THEN "failed" ELSE answer[q]]
  <2>1. answer' = [q \in Calls |-> IF q \in {} THEN "failed" ELSE answer[q]]
    BY <1>1
  <2>2. {} \in SUBSET these
    OBVIOUS
  <2> QED BY <2>1, <2>2
<1>4. these \in SUBSET Calls /\ \A q \in these : outcome[q] = "pending"
  BY <1>1
<1>5. durable' = durable
  BY DEF Crash
<1>6. Atomic!Abort(these)
  BY <1>2, <1>3, <1>4, <1>5 DEF Atomic!Abort
<1> QED BY <1>4, <1>6 DEF Atomic!Next

(* A pool gives its callers atomic transactions: writes become visible     *)
(* together or never, and answers are true, however the statements of      *)
(* concurrent calls interleave and wherever the process dies.              *)
THEOREM PoolIsAtomic == Spec => ImplementsAtomicTransactions
<1>1. Init => (client = "pool" => Atomic!Init)
  <2> SUFFICES ASSUME Init PROVE Atomic!Init
    OBVIOUS
  <2>1. ASSUME NEW p \in Calls PROVE Outcome(p) = "pending" /\ Told(p) = "none"
    BY PoolInit, Outcomes DEF Init, PoolInv, Told
  <2> QED BY <2>1 DEF Init, Atomic!Init
<1>2. TypeOK /\ TypeOK' /\ Pooled /\ Pooled' /\ [Next]_vars
        => [client = "pool" => Atomic!Next]_(Atomic!vars)
  <2> SUFFICES ASSUME TypeOK, TypeOK', Pooled, Pooled', [Next]_vars, client = "pool"
               PROVE  Atomic!Next \/ UNCHANGED Atomic!vars
    OBVIOUS
  <2> PoolInv /\ PoolInv'
    BY DEF Pooled, Next, vars
  <2>1. CASE UNCHANGED vars
    <3>1. \A q \in Calls : Outcome(q)' = Outcome(q) /\ Told(q)' = Told(q)
      BY <2>1, OutcomeKept DEF vars
    <3> QED BY <2>1, <3>1 DEF vars, Atomic!vars
  <2> QED BY <2>1, StepImplements, CrashImplements DEF Next
<1> QED
  BY <1>1, <1>2, PoolAlways, PTL DEF Spec, ImplementsAtomicTransactions

-----------------------------------------------------------------------------
(* SQLite has one connection. A call that joins a transaction may lose what *)
(* it wrote, but not the one that began it: as long as that runs, it is the *)
(* only owner, its statements wait in the open transaction, and nobody else *)
(* ends that. What it began is open only while its owner runs.             *)

Only == CHOOSE only \in Connections : TRUE

Runs(p) == pc[p] \in {"running", "throwing"}
Owns(p) == owner[p] /\ Runs(p)

NothingWaits(p) == Only \in Connections => \A w \in Writes[p] : w \notin dirty[Only]

SqliteCall(p) ==
  /\ pc[p] \notin {"closing", "reverting"}
  /\ pc[p] = "new" => ~owner[p] /\ done[p] = 0
  /\ owner[p] => p \notin Plain
  /\ Runs(p) => conn[p] = Only /\ Only \in Connections
  /\ pc[p] = "new" \/ (owner[p] /\ pc[p] # "ok") => NothingWritten(p)
  /\ owner[p] /\ pc[p] = "ok" => AllWritten(p)
  /\ pc[p] = "new" \/ (owner[p] /\ ~Runs(p)) => NothingWaits(p)
  /\ owner[p] /\ pc[p] = "running" => \A n \in 1..done[p] : <<p, n>> \in dirty[Only]

SqliteInv ==
  /\ \A p \in Calls : SqliteCall(p)
  /\ \A p, q \in Calls : Owns(p) /\ Owns(q) => p = q
  /\ inTransaction <=> \E p \in Calls : Owns(p)
  /\ \A c \in Connections :
       IF inTransaction /\ c = Only THEN sql[c] = "open" ELSE sql[c] = "idle" /\ dirty[c] = {}

(* A step of p that ends no transaction leaves the writes of the others    *)
(* where they are.                                                         *)
Apart(p) ==
  \A q \in Calls \ {p} :
    /\ pc'[q] = pc[q] /\ conn'[q] = conn[q] /\ owner'[q] = owner[q] /\ done'[q] = done[q]
    /\ \A w \in Writes[q] : w \in durable' <=> w \in durable
    /\ \A w \in Writes[q] : w \in dirty'[Only] <=> w \in dirty[Only]

LEMMA WritesAre ==
  ASSUME NEW p \in Calls
  PROVE  /\ Writes[p] = {p} \X (1..Length(p))
         /\ \A n \in 1..Length(p) : <<p, n>> \in Writes[p]
         /\ \A q \in Calls \ {p} : \A n : <<p, n>> \notin Writes[q]
BY DEF Writes

LEMMA ApartKept ==
  ASSUME TypeOK, SqliteInv, NEW p \in Calls, Apart(p), NEW q \in Calls \ {p}
  PROVE  SqliteCall(q)' /\ (Owns(q)' <=> Owns(q))
<1>1. SqliteCall(q)
  BY DEF SqliteInv
<1>2. /\ NothingWritten(q)' <=> NothingWritten(q)
      /\ AllWritten(q)' <=> AllWritten(q)
      /\ NothingWaits(q)' <=> NothingWaits(q)
  BY DEF Apart, NothingWritten, AllWritten, NothingWaits, Writes, Length
<1>3. pc'[q] = pc[q] /\ conn'[q] = conn[q] /\ owner'[q] = owner[q] /\ done'[q] = done[q]
  BY DEF Apart
<1>4. ASSUME owner[q], NEW n \in 1..done[q] PROVE <<q, n>> \in dirty'[Only] <=> <<q, n>> \in dirty[Only]
  <2>1. Length(q) = Statements /\ done[q] \in 0..Statements /\ Statements \in Nat
    BY <1>1, <1>4, TransactionsAssumption DEF SqliteCall, Length, TypeOK
  <2>2. n \in 1..Length(q)
    BY <2>1
  <2>3. <<q, n>> \in Writes[q]
    BY <2>2, WritesAre
  <2> QED BY <2>3 DEF Apart
<1> QED BY <1>1, <1>2, <1>3, <1>4 DEF SqliteCall, Owns, Runs

LEMMA SqliteKept ==
  ASSUME TypeOK, SqliteInv, NEW p \in Calls, Apart(p), SqliteCall(p)', Owns(p)' <=> Owns(p),
         UNCHANGED inTransaction,
         \A c \in Connections :
           sql'[c] = sql[c] /\ (~(inTransaction /\ c = Only) => dirty'[c] = dirty[c])
  PROVE  SqliteInv'
<1>1. \A q \in Calls \ {p} : SqliteCall(q)' /\ (Owns(q)' <=> Owns(q))
  BY ApartKept
<1>2. \A q \in Calls : SqliteCall(q)' /\ (Owns(q)' <=> Owns(q))
  BY <1>1
<1>3. \A q, r \in Calls : Owns(q)' /\ Owns(r)' => q = r
  BY <1>2 DEF SqliteInv
<1>4. inTransaction' <=> \E q \in Calls : Owns(q)'
  BY <1>2 DEF SqliteInv
<1>5. \A c \in Connections :
        IF inTransaction' /\ c = Only THEN sql'[c] = "open" ELSE sql'[c] = "idle" /\ dirty'[c] = {}
  BY DEF SqliteInv
<1> QED BY <1>2, <1>3, <1>4, <1>5 DEF SqliteInv

LEMMA OnlyOne == ASSUME client = "sqlite", NEW c \in Connections, Opened(c) PROVE c = Only
BY DEF Opened, Only, Shared

LEMMA SqliteBegins ==
  ASSUME client = "sqlite", TypeOK, SqliteInv, NEW p \in Calls, NEW c \in Connections, Opened(c), BeginOwn(p, c)
  PROVE  SqliteInv'
<1>1. c = Only /\ ~inTransaction
  BY OnlyOne DEF BeginOwn, Shared
<1>2. /\ pc' = [pc EXCEPT ![p] = "running"] /\ conn' = [conn EXCEPT ![p] = Only]
      /\ owner' = [owner EXCEPT ![p] = TRUE] /\ inTransaction' /\ sql' = [sql EXCEPT ![Only] = "open"]
      /\ UNCHANGED <<done, dirty, durable>> /\ p \notin Plain /\ pc[p] = "new"
  BY <1>1 DEF BeginOwn, Shared
<1>3. \A q \in Calls : ~Owns(q)
  BY <1>1 DEF SqliteInv
<1>4. Apart(p)
  BY <1>2 DEF Apart, TypeOK
<1>5. SqliteCall(p) /\ done[p] = 0 /\ NothingWritten(p)
  BY <1>2 DEF SqliteInv, SqliteCall
<1>6. SqliteCall(p)' /\ Owns(p)'
  BY <1>1, <1>2, <1>5 DEF SqliteCall, Owns, Runs, NothingWritten, TypeOK
<1>7. \A q \in Calls \ {p} : SqliteCall(q)' /\ ~Owns(q)'
  BY <1>3, <1>4, ApartKept
<1>8. \A d \in Connections : sql[d] = "idle" /\ dirty[d] = {}
  BY <1>1 DEF SqliteInv
<1>9. \A d \in Connections : IF d = Only THEN sql'[d] = "open" ELSE sql'[d] = "idle" /\ dirty'[d] = {}
  BY <1>2, <1>8 DEF TypeOK
<1> QED BY <1>2, <1>6, <1>7, <1>9 DEF SqliteInv

(* A statement of a call is written where the transaction is, or at once.  *)
LEMMA SqliteExecutes ==
  ASSUME client = "sqlite", TypeOK, SqliteInv, NEW p \in Calls, Only \in Connections, Execute(p, Only),
         \A q \in Calls \ {p} :
           pc'[q] = pc[q] /\ conn'[q] = conn[q] /\ owner'[q] = owner[q]
  PROVE  /\ Apart(p)
         /\ \A d \in Connections : ~(inTransaction /\ d = Only) => dirty'[d] = dirty[d]
         /\ inTransaction => UNCHANGED durable /\ dirty'[Only] = dirty[Only] \cup {<<p, done[p] + 1>>}
<1>1. \A q \in Calls \ {p} : done'[q] = done[q]
  BY DEF Execute, TypeOK
<1>2. CASE inTransaction
  <2>1. sql[Only] = "open"
    BY <1>2 DEF SqliteInv
  <2>2. dirty' = [dirty EXCEPT ![Only] = @ \cup {<<p, done[p] + 1>>}] /\ UNCHANGED durable
    BY <2>1 DEF Execute
  <2>3. dirty'[Only] = dirty[Only] \cup {<<p, done[p] + 1>>}
        /\ \A d \in Connections \ {Only} : dirty'[d] = dirty[d]
    BY <2>2 DEF TypeOK
  <2>4. \A q \in Calls \ {p} : <<p, done[p] + 1>> \notin Writes[q]
    BY WritesAre
  <2>5. PICK w : w = <<p, done[p] + 1>>
    OBVIOUS
  <2>6. dirty'[Only] = dirty[Only] \cup {w} /\ \A q \in Calls \ {p} : w \notin Writes[q]
    BY <2>3, <2>4, <2>5
  <2>7. ASSUME NEW q \in Calls \ {p}, NEW v \in Writes[q]
        PROVE  (v \in dirty'[Only] <=> v \in dirty[Only]) /\ (v \in durable' <=> v \in durable)
    BY <2>2, <2>6
  <2>8. Apart(p)
    BY <1>1, <2>7 DEF Apart
  <2> QED BY <1>2, <2>2, <2>3, <2>8
<1>3. CASE ~inTransaction
  <2>1. sql[Only] = "idle"
    BY <1>3 DEF SqliteInv
  <2>2. durable' = durable \cup {<<p, done[p] + 1>>} /\ UNCHANGED dirty
    BY <2>1 DEF Execute
  <2>3. \A q \in Calls \ {p} : <<p, done[p] + 1>> \notin Writes[q]
    BY WritesAre
  <2>4. Apart(p)
    BY <1>1, <2>2, <2>3 DEF Apart
  <2> QED BY <1>3, <2>2, <2>4
<1> QED BY <1>2, <1>3

LEMMA SqliteStatement ==
  ASSUME client = "sqlite", TypeOK, SqliteInv, NEW p \in Calls, Statement(p)
  PROVE  SqliteInv'
<1>1. SqliteCall(p) /\ Runs(p) /\ pc[p] = "running" /\ UNCHANGED <<pc, conn, owner, inTransaction, sql>>
  BY DEF SqliteInv, Statement, Runs
<1>2. conn[p] = Only /\ Only \in Connections /\ Execute(p, Only)
  BY <1>1 DEF SqliteCall, Statement
<1>3. /\ Apart(p)
      /\ \A d \in Connections : ~(inTransaction /\ d = Only) => dirty'[d] = dirty[d]
      /\ inTransaction => UNCHANGED durable /\ dirty'[Only] = dirty[Only] \cup {<<p, done[p] + 1>>}
  BY <1>1, <1>2, SqliteExecutes
<1>4. ASSUME owner[p]
      PROVE  NothingWritten(p)' /\ \A n \in 1..done'[p] : <<p, n>> \in dirty'[Only]
  <2>1. inTransaction
    BY <1>1, <1>4 DEF SqliteInv, Owns
  <2>2. done'[p] = done[p] + 1 /\ done[p] \in Nat
    BY <1>2, TransactionsAssumption DEF Execute, TypeOK
  <2>3. \A n \in 1..done[p] : <<p, n>> \in dirty[Only]
    BY <1>1, <1>4 DEF SqliteCall
  <2>4. \A n \in 1..(done[p] + 1) : n \in 1..done[p] \/ n = done[p] + 1
    BY <2>2
  <2>5. NothingWritten(p)
    BY <1>1, <1>4 DEF SqliteCall
  <2> QED BY <1>3, <2>1, <2>2, <2>3, <2>4, <2>5 DEF NothingWritten
<1>5. SqliteCall(p)' /\ (Owns(p)' <=> Owns(p))
  BY <1>1, <1>4 DEF SqliteCall, Runs, Owns
<1> QED BY <1>1, <1>3, <1>5, SqliteKept

LEMMA SqlitePlain ==
  ASSUME client = "sqlite", TypeOK, SqliteInv, NEW p \in Calls, NEW c \in Connections, Opened(c),
         PlainStatement(p, c) \/ PlainFails(p, c)
  PROVE  SqliteInv'
<1>1. c = Only /\ Only \in Connections /\ SqliteCall(p) /\ pc[p] = "new" /\ ~owner[p]
      /\ UNCHANGED <<conn, owner, inTransaction>>
  BY OnlyOne DEF SqliteInv, SqliteCall, PlainStatement, PlainFails
<1>2. /\ pc'[p] \in {"ok", "failed"} /\ UNCHANGED sql
      /\ \A q \in Calls \ {p} : pc'[q] = pc[q]
  <2>1. PlainFails(p, c) => UNCHANGED sql
    BY DEF PlainFails, AbortSql, TypeOK
  <2> QED BY <2>1 DEF PlainStatement, PlainFails, TypeOK
<1>3. SqliteCall(p)' /\ (Owns(p)' <=> Owns(p))
  BY <1>1, <1>2 DEF SqliteCall, Runs, Owns
<1>4. CASE PlainStatement(p, c)
  <2>1. /\ Apart(p)
        /\ \A d \in Connections : ~(inTransaction /\ d = Only) => dirty'[d] = dirty[d]
    BY <1>1, <1>2, <1>4, SqliteExecutes DEF PlainStatement
  <2> QED BY <1>1, <1>2, <1>3, <2>1, SqliteKept
<1>5. CASE PlainFails(p, c)
  <2>1. Apart(p) /\ UNCHANGED dirty
    BY <1>1, <1>2, <1>5 DEF PlainFails, Apart
  <2> QED BY <1>1, <1>2, <1>3, <2>1, SqliteKept
<1> QED BY <1>4, <1>5

(* Steps that write nothing and end no transaction.                        *)
LEMMA SqliteQuiet ==
  ASSUME client = "sqlite", TypeOK, SqliteInv, NEW p \in Calls,
         StatementFails(p) \/ FunctionThrows(p) \/ JoinedReturns(p)
           \/ \E c \in Connections : Opened(c) /\ Join(p, c)
  PROVE  SqliteInv'
<1>1. UNCHANGED <<owner, done, inTransaction, dirty, durable>> /\ SqliteCall(p)
  BY DEF StatementFails, FunctionThrows, JoinedReturns, Join, SqliteInv
<1>2. UNCHANGED sql
  <2>1. StatementFails(p) => UNCHANGED sql
    BY DEF StatementFails, AbortSql, TypeOK
  <2> QED BY <2>1 DEF FunctionThrows, JoinedReturns, Join
<1>3. \A q \in Calls \ {p} : pc'[q] = pc[q] /\ conn'[q] = conn[q]
  BY DEF StatementFails, FunctionThrows, JoinedReturns, Join, TypeOK
<1>4. Apart(p)
  BY <1>1, <1>3 DEF Apart
<1>5. \/ pc[p] = "running" /\ pc'[p] = "throwing" /\ UNCHANGED conn
      \/ ~owner[p] /\ pc'[p] \in {"ok", "failed"}
      \/ pc[p] = "new" /\ pc'[p] = "running" /\ conn'[p] = Only /\ Only \in Connections
  <2>1. ASSUME NEW c \in Connections, Opened(c), Join(p, c)
        PROVE  pc[p] = "new" /\ pc'[p] = "running" /\ conn'[p] = Only /\ Only \in Connections
    BY <2>1, OnlyOne DEF Join, TypeOK
  <2> QED BY <2>1 DEF StatementFails, FunctionThrows, JoinedReturns, TypeOK
<1>6. SqliteCall(p)' /\ (Owns(p)' <=> Owns(p))
  BY <1>1, <1>5 DEF SqliteCall, Runs, Owns, NothingWritten
<1> QED BY <1>1, <1>2, <1>4, <1>6, SqliteKept

(* The owner ends its transaction: there is no other whose writes wait.    *)
LEMMA SqliteEnds ==
  ASSUME client = "sqlite", TypeOK, SqliteInv, NEW p \in Calls, Commit(p) \/ Rollback(p)
  PROVE  SqliteInv'
<1>1. SqliteCall(p) /\ Owns(p) /\ owner[p] /\ conn[p] = Only /\ Only \in Connections /\ p \notin Plain
  BY DEF SqliteInv, SqliteCall, Commit, Rollback, Owns, Runs
<1>2. /\ inTransaction /\ sql[Only] = "open"
      /\ \A q \in Calls \ {p} : ~Owns(q)
      /\ \A d \in Connections \ {Only} : sql[d] = "idle" /\ dirty[d] = {}
  BY <1>1 DEF SqliteInv
<1>3. /\ sql'[Only] = "idle" /\ dirty'[Only] = {}
      /\ \A d \in Connections \ {Only} : sql'[d] = sql[d] /\ dirty'[d] = dirty[d]
      /\ ~inTransaction' /\ UNCHANGED <<conn, owner, done>>
  BY <1>1 DEF Commit, Rollback, EndSql, AfterEnd, TypeOK
<1>4. \A q \in Calls \ {p} : pc'[q] = pc[q]
  BY DEF Commit, Rollback, AfterEnd, TypeOK
<1>5. durable' = durable \/ durable' = durable \cup dirty[Only]
  BY <1>1 DEF Commit, Rollback, EndSql
<1>6. ASSUME NEW q \in Calls \ {p} PROVE SqliteCall(q)' /\ ~Owns(q)'
  <2>1. SqliteCall(q) /\ ~Owns(q)
    BY <1>2 DEF SqliteInv
  <2>2. NothingWaits(q)'
    BY <1>3 DEF NothingWaits
  <2>3. NothingWaits(q) /\ NothingWritten(q) => NothingWritten(q)'
    BY <1>1, <1>5 DEF NothingWaits, NothingWritten, Writes, Length
  <2>4. AllWritten(q) => AllWritten(q)'
    BY <1>5 DEF AllWritten, Writes, Length
  <2> QED BY <1>3, <1>4, <2>1, <2>2, <2>3, <2>4 DEF SqliteCall, Owns, Runs
<1>7. SqliteCall(p)' /\ ~Owns(p)'
  <2>1. NothingWaits(p)'
    BY <1>3 DEF NothingWaits
  <2>2. CASE Commit(p)
    <3>1. pc'[p] = "ok" /\ durable' = durable \cup dirty[Only]
      BY <1>1, <1>2, <2>2 DEF Commit, EndSql, AfterEnd, TypeOK
    <3>2. \A n \in 1..Length(p) : <<p, n>> \in dirty[Only]
      BY <1>1, <2>2 DEF Commit, SqliteCall
    <3>3. AllWritten(p)'
      BY <3>1, <3>2, WritesAre DEF AllWritten, Writes, Length
    <3> QED BY <1>1, <1>3, <2>1, <3>1, <3>3 DEF SqliteCall, Owns, Runs
  <2>3. CASE Rollback(p)
    <3>1. pc'[p] = "failed" /\ durable' = durable
      BY <2>3 DEF Rollback, EndSql, AfterEnd, TypeOK
    <3>2. NothingWritten(p)
      BY <1>1, <2>3 DEF Rollback, SqliteCall
    <3>3. NothingWritten(p)'
      BY <3>1, <3>2 DEF NothingWritten, Writes, Length
    <3> QED BY <1>1, <1>3, <2>1, <3>1, <3>3 DEF SqliteCall, Owns, Runs
  <2> QED BY <2>2, <2>3
<1> QED BY <1>2, <1>3, <1>6, <1>7 DEF SqliteInv

LEMMA SqliteCrash ==
  ASSUME TypeOK, SqliteInv, Crash
  PROVE  SqliteInv'
<1>1. /\ ~inTransaction' /\ UNCHANGED <<conn, owner, done, durable>>
      /\ \A c \in Connections : sql'[c] = "idle" /\ dirty'[c] = {}
  BY DEF Crash
<1>2. ASSUME NEW p \in Calls PROVE SqliteCall(p)' /\ ~Owns(p)'
  <2>1. SqliteCall(p)
    BY DEF SqliteInv
  <2>2. pc'[p] = IF pc[p] \in InProgress THEN "lost" ELSE pc[p]
    BY DEF Crash
  <2>3. NothingWaits(p)'
    BY <1>1 DEF NothingWaits
  <2>4. (NothingWritten(p)' <=> NothingWritten(p)) /\ (AllWritten(p)' <=> AllWritten(p))
    BY <1>1 DEF NothingWritten, AllWritten, Writes, Length
  <2> QED BY <1>1, <2>1, <2>2, <2>3, <2>4 DEF SqliteCall, Owns, Runs, InProgress
<1> QED BY <1>1, <1>2 DEF SqliteInv

LEMMA SqliteStep ==
  ASSUME client = "sqlite", TypeOK, SqliteInv, [Next]_vars
  PROVE  SqliteInv'
<1>1. ASSUME NEW p \in Calls, Step(p) PROVE SqliteInv'
  <2>1. Close(p) => FALSE
    BY DEF Close, SqliteInv, SqliteCall
  <2>2. ASSUME NEW c \in Connections, Opened(c), BeginOwn(p, c) \/ PlainStatement(p, c) \/ PlainFails(p, c)
        PROVE  SqliteInv'
    BY <2>2, SqliteBegins, SqlitePlain
  <2> QED BY <1>1, <2>1, <2>2, SqliteStatement, SqliteQuiet, SqliteEnds DEF Step
<1>2. CASE UNCHANGED vars
  BY <1>2 DEF vars, SqliteInv, SqliteCall, Owns, Runs, NothingWritten, AllWritten, NothingWaits
<1> QED BY <1>1, <1>2, SqliteCrash DEF Next

SharedWell == client = "sqlite" => SqliteInv

LEMMA SqliteAlways == Spec => [](TypeOK /\ SharedWell)
<1>1. Init => SharedWell
  BY DEF Init, SharedWell, SqliteInv, SqliteCall, Owns, Runs, NothingWritten, NothingWaits
<1>2. TypeOK /\ SharedWell /\ [Next]_vars => SharedWell'
  BY SqliteStep DEF SharedWell, Next, vars
<1> QED BY <1>1, <1>2, TypeCorrect, PTL DEF Spec

(* With SQLite, all writes of the call that began a transaction are        *)
(* committed when it was told ok, and none when it was told that it        *)
(* failed, whoever joins its transaction or writes beside it meanwhile,    *)
(* whatever fails and wherever the process dies.                           *)
THEOREM SqliteOwnersAreAtomic == Spec => [](client = "sqlite" => OwnersAreAtomic)
<1>1. TypeOK /\ SqliteInv => OwnersAreAtomic
  <2> SUFFICES ASSUME TypeOK, SqliteInv, NEW p \in Calls, owner[p]
               PROVE  /\ WritesOf(p) \in {{}, Writes[p]}
                      /\ pc[p] = "ok" => WritesOf(p) = Writes[p]
                      /\ pc[p] = "failed" => WritesOf(p) = {}
    BY DEF OwnersAreAtomic
  <2>1. SqliteCall(p)
    BY DEF SqliteInv
  <2>2. pc[p] = "ok" => AllWritten(p)
    BY <2>1 DEF SqliteCall
  <2>3. pc[p] # "ok" => NothingWritten(p)
    BY <2>1 DEF SqliteCall
  <2> QED BY <2>2, <2>3, WrittenSets
<1>2. TypeOK /\ SharedWell => (client = "sqlite" => OwnersAreAtomic)
  BY <1>1 DEF SharedWell
<1> QED BY <1>2, SqliteAlways, PTL

(* With SQLite, when no call is in progress the connection is in no        *)
(* transaction and the client is ready to begin one.                       *)
THEOREM SqliteLeavesNothingOpen == Spec => [](client = "sqlite" => NothingLeftOpen)
<1>1. SqliteInv => NothingLeftOpen
  BY DEF SqliteInv, NothingLeftOpen, Owns, Runs, InProgress
<1>2. TypeOK /\ SharedWell => (client = "sqlite" => NothingLeftOpen)
  BY <1>1 DEF SharedWell
<1> QED BY <1>2, SqliteAlways, PTL
=============================================================================

-------------------------- MODULE StoreTransactions --------------------------
(***************************************************************************)
(* withTransaction of the three SQL clients under the canonical store.     *)
(*   pool    a connection of its own for every transaction                 *)
(*   pglite  one connection for everybody; a transaction that is started   *)
(*           while another is in progress joins it                         *)
(*   sqlite  the same with a synchronous engine, in which a statement that *)
(*           fails does not abort the transaction                          *)
(*                                                                         *)
(* A call runs the statements of its transaction one by one, an await      *)
(* after each. A plain call is one statement outside any transaction.      *)
(***************************************************************************)
EXTENDS Naturals

CONSTANTS
  Calls,
  Plain,        \* calls that are one statement
  Statements,   \* number of statements of a transaction
  Clients,      \* those of "pool", "pglite" and "sqlite" considered
  Connections,  \* of the pool; a shared client has one of them
  None,
  MaxFaults     \* bound on failing statements and crashes

ASSUME TransactionsAssumption ==
  /\ Plain \subseteq Calls
  /\ Statements \in Nat \ {0}
  /\ Clients \subseteq {"pool", "pglite", "sqlite"}
  /\ None \notin Connections
  /\ MaxFaults \in Nat

VARIABLES
  client,         \* the client the program was started with
  pc,             \* where each call is
  conn,           \* the connection it runs on
  owner,          \* it began the SQL transaction itself
  done,           \* how many of its statements were executed
  inTransaction,  \* the flag of a shared client
  sql,            \* the transaction of each connection
  dirty,          \* writes not yet committed, per connection
  durable,        \* committed writes
  faults

call == <<pc, conn, owner, done>>
vars == <<client, pc, conn, owner, done, inTransaction, sql, dirty, durable, faults>>

Shared == client # "pool"

(* The connections of the client.                                          *)
Opened(c) == Shared => c = CHOOSE only \in Connections : TRUE

Length(p) == IF p \in Plain THEN 1 ELSE Statements

Writes == [p \in Calls |-> {p} \X (1..Length(p))]

Init ==
  /\ client \in Clients
  /\ pc = [p \in Calls |-> "new"]
  /\ conn = [p \in Calls |-> None]
  /\ owner = [p \in Calls |-> FALSE]
  /\ done = [p \in Calls |-> 0]
  /\ inTransaction = FALSE
  /\ sql = [c \in Connections |-> "idle"]
  /\ dirty = [c \in Connections |-> {}]
  /\ durable = {}
  /\ faults = 0

InProgress == {"running", "throwing", "closing", "reverting"}
InUse == {conn[p] : p \in {q \in Calls : pc[q] \in InProgress}}

-----------------------------------------------------------------------------
(* Mutant of BeginOwn: whether the connection is in use is not checked.    *)
BeginOnAnyConnection(p, c) ==
  /\ p \notin Plain
  /\ pc[p] = "new"
  /\ pc' = [pc EXCEPT ![p] = "running"]
  /\ conn' = [conn EXCEPT ![p] = c]
  /\ owner' = [owner EXCEPT ![p] = TRUE]
  /\ inTransaction' = Shared
  /\ sql' = [sql EXCEPT ![c] = "open"]
  /\ UNCHANGED <<done, dirty, durable, faults>>

(* BEGIN on a connection nobody else uses, or on the shared one.           *)
BeginOwn(p, c) ==
  /\ p \notin Plain
  /\ pc[p] = "new"
  /\ IF Shared THEN ~inTransaction ELSE c \notin InUse
  /\ pc' = [pc EXCEPT ![p] = "running"]
  /\ conn' = [conn EXCEPT ![p] = c]
  /\ owner' = [owner EXCEPT ![p] = TRUE]
  /\ inTransaction' = Shared
  /\ sql' = [sql EXCEPT ![c] = "open"]
  /\ UNCHANGED <<done, dirty, durable, faults>>

(* The transaction in progress on the shared connection is joined, whoever *)
(* began it and however far it is.                                         *)
Join(p, c) ==
  /\ p \notin Plain
  /\ pc[p] = "new"
  /\ Shared /\ inTransaction
  /\ pc' = [pc EXCEPT ![p] = "running"]
  /\ conn' = [conn EXCEPT ![p] = c]
  /\ UNCHANGED <<owner, done, inTransaction, sql, dirty, durable, faults>>

(* The effect of the next statement of p on connection c: in the open      *)
(* transaction, or committed at once if none is open.                      *)
Execute(p, c) ==
  /\ done[p] < Length(p)
  /\ done' = [done EXCEPT ![p] = @ + 1]
  /\ \/ /\ sql[c] = "open"
        /\ dirty' = [dirty EXCEPT ![c] = @ \cup {<<p, done[p] + 1>>}]
        /\ UNCHANGED durable
     \/ /\ sql[c] = "idle"
        /\ durable' = durable \cup {<<p, done[p] + 1>>}
        /\ UNCHANGED dirty

Statement(p) ==
  /\ pc[p] = "running"
  /\ Execute(p, conn[p])
  /\ UNCHANGED <<pc, conn, owner, inTransaction, sql, faults>>

(* A statement fails, because of what it does or because the transaction   *)
(* is aborted already.                                                     *)
AbortSql(c) ==
  sql' = [sql EXCEPT ![c] = IF @ = "open" /\ client # "sqlite" THEN "aborted" ELSE @]

StatementFails(p) ==
  /\ pc[p] = "running"
  /\ done[p] < Length(p)
  /\ IF sql[conn[p]] = "aborted" THEN UNCHANGED faults
     ELSE faults < MaxFaults /\ faults' = faults + 1
  /\ AbortSql(conn[p])
  /\ pc' = [pc EXCEPT ![p] = "throwing"]
  /\ UNCHANGED <<conn, owner, done, inTransaction, dirty, durable>>

(* The function throws of its own accord, between its statements or after  *)
(* the last: an invariant of the kernel does not hold.                     *)
FunctionThrows(p) ==
  /\ pc[p] = "running"
  /\ faults < MaxFaults
  /\ faults' = faults + 1
  /\ pc' = [pc EXCEPT ![p] = "throwing"]
  /\ UNCHANGED <<conn, owner, done, inTransaction, sql, dirty, durable>>

(* The one statement of a plain call, on a free connection of the pool or  *)
(* on the shared one.                                                      *)
PlainStatement(p, c) ==
  /\ p \in Plain
  /\ pc[p] = "new"
  /\ Shared \/ c \notin InUse
  /\ Execute(p, c)
  /\ pc' = [pc EXCEPT ![p] = "ok"]
  /\ UNCHANGED <<conn, owner, inTransaction, sql, faults>>

PlainFails(p, c) ==
  /\ p \in Plain
  /\ pc[p] = "new"
  /\ Shared \/ c \notin InUse
  /\ IF sql[c] = "aborted" THEN UNCHANGED faults
     ELSE faults < MaxFaults /\ faults' = faults + 1
  /\ AbortSql(c)
  /\ pc' = [pc EXCEPT ![p] = "failed"]
  /\ UNCHANGED <<conn, owner, done, inTransaction, dirty, durable>>

(* The transaction of a connection ends: what it wrote becomes durable if  *)
(* it is committed, unless the engine has aborted it, and is lost if not.  *)
EndSql(c, commits) ==
  /\ sql' = [sql EXCEPT ![c] = "idle"]
  /\ dirty' = [dirty EXCEPT ![c] = {}]
  /\ durable' = IF commits /\ sql[c] = "open" THEN durable \cup dirty[c] ELSE durable

(* The synchronous client resets its flag in the same run of code; the     *)
(* others when the await of COMMIT or ROLLBACK has returned.               *)
AfterEnd(p, waiting, answer) ==
  IF client = "sqlite"
  THEN inTransaction' = FALSE /\ pc' = [pc EXCEPT ![p] = answer]
  ELSE pc' = [pc EXCEPT ![p] = waiting] /\ UNCHANGED inTransaction

Commit(p) ==
  /\ pc[p] = "running"
  /\ owner[p]
  /\ done[p] = Length(p)
  /\ EndSql(conn[p], TRUE)
  /\ AfterEnd(p, "closing", "ok")
  /\ UNCHANGED <<conn, owner, done, faults>>

(* Mutants of Rollback: what was done is committed although the function   *)
(* has thrown; the connection is released without a ROLLBACK.              *)
CommitAnyway(p) ==
  /\ pc[p] = "throwing"
  /\ owner[p]
  /\ EndSql(conn[p], TRUE)
  /\ AfterEnd(p, "reverting", "failed")
  /\ UNCHANGED <<conn, owner, done, faults>>

ReleaseOnly(p) ==
  /\ pc[p] = "throwing"
  /\ owner[p]
  /\ AfterEnd(p, "reverting", "failed")
  /\ UNCHANGED <<conn, owner, done, sql, dirty, durable, faults>>

Rollback(p) ==
  /\ pc[p] = "throwing"
  /\ owner[p]
  /\ EndSql(conn[p], FALSE)
  /\ AfterEnd(p, "reverting", "failed")
  /\ UNCHANGED <<conn, owner, done, faults>>

(* Mutant of Close: the release is not in a finally block.                 *)
CloseAfterCommit(p) ==
  /\ pc[p] = "closing"
  /\ pc' = [pc EXCEPT ![p] = "ok"]
  /\ inTransaction' = FALSE
  /\ UNCHANGED <<conn, owner, done, sql, dirty, durable, faults>>

(* The flag is reset, or the connection goes back to the pool, and the     *)
(* caller gets its answer.                                                 *)
Close(p) ==
  /\ pc[p] \in {"closing", "reverting"}
  /\ pc' = [pc EXCEPT ![p] = IF @ = "closing" THEN "ok" ELSE "failed"]
  /\ inTransaction' = FALSE
  /\ UNCHANGED <<conn, owner, done, sql, dirty, durable, faults>>

(* A call that joined a transaction ends without a word to the engine.     *)
JoinedReturns(p) ==
  /\ ~owner[p]
  /\ \/ /\ pc[p] = "running" /\ done[p] = Length(p)
        /\ pc' = [pc EXCEPT ![p] = "ok"]
     \/ /\ pc[p] = "throwing"
        /\ pc' = [pc EXCEPT ![p] = "failed"]
  /\ UNCHANGED <<conn, owner, done, inTransaction, sql, dirty, durable, faults>>

(* The process dies and is started again: calls in progress are lost, and  *)
(* the engine rolls back what was open.                                    *)
Crash ==
  /\ faults < MaxFaults
  /\ faults' = faults + 1
  /\ pc' = [p \in Calls |-> IF pc[p] \in InProgress THEN "lost" ELSE pc[p]]
  /\ inTransaction' = FALSE
  /\ sql' = [c \in Connections |-> "idle"]
  /\ dirty' = [c \in Connections |-> {}]
  /\ UNCHANGED <<conn, owner, done, durable>>

-----------------------------------------------------------------------------
Step(p) ==
  \/ \E c \in Connections :
       Opened(c) /\ (BeginOwn(p, c) \/ Join(p, c) \/ PlainStatement(p, c) \/ PlainFails(p, c))
  \/ Statement(p)
  \/ StatementFails(p)
  \/ FunctionThrows(p)
  \/ Commit(p)
  \/ Rollback(p)
  \/ Close(p)
  \/ JoinedReturns(p)

Next == ((\E p \in Calls : Step(p)) \/ Crash) /\ UNCHANGED client

Spec == Init /\ [][Next]_vars

(* Promises settle: a call that can make a step makes one. The pool hands  *)
(* its connections to waiting calls in turn.                               *)
FairSpec == Spec /\ \A p \in Calls : WF_vars(Step(p) /\ UNCHANGED client)

-----------------------------------------------------------------------------
Answers == {"ok", "failed", "lost"}

(* The types of the state.                                                 *)
TypeOK ==
  /\ client \in Clients
  /\ pc \in [Calls -> {"new"} \cup InProgress \cup Answers]
  /\ conn \in [Calls -> Connections \cup {None}]
  /\ owner \in [Calls -> BOOLEAN]
  /\ done \in [Calls -> 0..Statements]
  /\ inTransaction \in BOOLEAN
  /\ sql \in [Connections -> {"idle", "open", "aborted"}]
  /\ dirty \in [Connections -> SUBSET (Calls \X (1..Statements))]
  /\ durable \in SUBSET (Calls \X (1..Statements))
  /\ faults \in 0..MaxFaults

WritesOf(p) == durable \cap Writes[p]

(* A claim is never visible without its event: the writes of a call are    *)
(* committed together or not at all.                                       *)
AllOrNothing == \A p \in Calls : WritesOf(p) \in {{}, Writes[p]}

(* The same of the calls that began their transaction themselves, whose    *)
(* answers are true as well. On a shared connection of SQLite this is all  *)
(* that is left of atomicity.                                              *)
OwnersAreAtomic ==
  \A p \in Calls : owner[p] =>
    /\ WritesOf(p) \in {{}, Writes[p]}
    /\ pc[p] = "ok" => WritesOf(p) = Writes[p]
    /\ pc[p] = "failed" => WritesOf(p) = {}

(* When no call is in progress, no connection is left in a transaction and *)
(* the client is ready to begin one.                                       *)
NothingLeftOpen ==
  (\A p \in Calls : pc[p] \notin InProgress) =>
    ~inTransaction /\ \A c \in Connections : sql[c] = "idle" /\ dirty[c] = {}

(* Every call ends, also when there are more calls than connections.       *)
EveryCallEnds == \A p \in Calls : <>(pc[p] \in Answers)

(* The pool gives its callers the transactions they rely on; the clients   *)
(* with one connection do not.                                             *)
Outcome(p) ==
  IF Writes[p] \subseteq durable THEN "committed"
  ELSE IF pc[p] \in {"reverting", "failed", "lost"} THEN "aborted" ELSE "pending"

Told(p) == IF pc[p] \in {"ok", "failed"} THEN pc[p] ELSE "none"

Atomic == INSTANCE AtomicTransactions
            WITH visible <- durable,
                 outcome <- [p \in Calls |-> Outcome(p)],
                 answer <- [p \in Calls |-> Told(p)]

ImplementsAtomicTransactions ==
  /\ client = "pool" => Atomic!Init
  /\ [][client = "pool" => Atomic!Next]_(Atomic!vars)
=============================================================================

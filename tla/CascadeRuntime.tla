--------------------------- MODULE CascadeRuntime ----------------------------
(***************************************************************************)
(* The generated functions CascadeDelete<Type>, ...WithHooks and ...Batch  *)
(* (entcascade/template.go) running against a database with no foreign     *)
(* keys, statement by statement, beside other clients that write.          *)
(*                                                                         *)
(* A call runs in a transaction of its own (standalone) or in one its      *)
(* caller opened.  A transaction keeps its writes to itself until commit:  *)
(* ins, del, clr and soft are the rows it inserted, deleted, unlinked and  *)
(* stamped.  Serializable = TRUE is a database that admits one writing     *)
(* transaction at a time (the harness's SQLite); FALSE is read committed   *)
(* with row locks (the default of client.Tx on PostgreSQL): a DELETE or    *)
(* UPDATE finds its rows, locks them one by one in an order of its own,    *)
(* waiting for each that another transaction holds, and passes over those  *)
(* its WHERE no longer selects.                                            *)
(***************************************************************************)
EXTENDS Naturals, FiniteSets, Sequences

CONSTANTS
    Row, Col, Nil, TypeOf, Ref,
    Root,           \* types with generated functions
    Program,        \* [Root -> sequence of statements], see CascadePlan
    Policy,         \* declared dependencies: records [parent, child, col, mode]
    Caller,         \* goroutines that call cascade functions
    InitLive,       \* rows stored at the start
    HookRows,       \* rows only hooks insert
    Moves,          \* re-parentings other clients may do: <<row, column, new parent>>
    Modes,          \* subset of {"standalone", "app"}: who opens transactions
    Forms,          \* subset of {"single", "batch"}: the functions that are called
    Serializable,
    MaxNow          \* bound: no call starts once the clock is past it

Statements ==
    [kind : {"query", "bulk", "drop", "soft", "unlink", "self"}, type : STRING, col : STRING,
     src : Nat, end : Nat]

\* The shape of the parameters.
ASSUME Parameters ==
    /\ Nil \notin Row /\ InitLive \subseteq Row /\ HookRows \subseteq Row
    /\ Ref \in [Row -> [Col -> Row \cup {Nil}]]
    /\ Root # {} /\ MaxNow \in Nat
    /\ \A t \in Root :
          /\ Program[t] \in Seq(Statements) /\ Program[t] # <<>>
          /\ \A i \in DOMAIN Program[t] : \A r \in Row :
                TypeOf[r] = Program[t][i].type /\ Program[t][i].kind # "self" => Program[t][i].col \in Col
    /\ \A m \in Moves : m \in Row \X Col \X Row

Pos == UNION { DOMAIN Program[t] : t \in Root }

VARIABLES
    live, fk, stamp, used,     \* committed rows, their keys and deleted_at; ids handed out
    now,                       \* time.Now()
    ins, del, clr, soft,       \* per caller: the open transaction's own writes
    lock,                      \* per caller: the rows locked, and those the statement has yet to lock
    own,                       \* who opened the caller's transaction: "none" "cascade" "app"
    pc, ip, ids, call, result  \* the call in progress and the last outcome

\* ids[c][q]: the ids the query at position q returned.
store == <<live, fk, stamp>>
txn   == <<ins, del, clr, soft, lock>>
vars  == <<live, fk, stamp, used, now, ins, del, clr, soft, lock, own, pc, ip, ids, call, result>>

-----------------------------------------------------------------------------
(* A transaction's view: what is committed, overlaid with its own writes.  *)

ViewLive(c) == (live \cup ins[c]) \ del[c]
ViewFk(c, r, col) == IF <<r, col>> \in clr[c] THEN Nil ELSE fk[r][col]

\* Locks are kept until the transaction ends.
NoLocks == [scanned |-> FALSE, todo |-> {}, held |-> {}]
HeldByOthers(c) == UNION { lock[d].held : d \in Caller \ {c} }

Alone(c) == \A d \in Caller \ {c} : own[d] = "none"
RefsIn(r, S) == \A col \in Col : Ref[r][col] \in S \cup {Nil}

Discard(c) ==
    /\ ins'  = [ins EXCEPT ![c] = {}]
    /\ del'  = [del EXCEPT ![c] = {}]
    /\ clr'  = [clr EXCEPT ![c] = {}]
    /\ soft' = [soft EXCEPT ![c] = [r \in Row |-> 0]]
    /\ lock' = [lock EXCEPT ![c] = NoLocks]

Apply(c) ==
    /\ live'  = ViewLive(c)
    /\ fk'    = [r \in Row |-> [col \in Col |-> ViewFk(c, r, col)]]
    /\ stamp' = [r \in Row |-> IF soft[c][r] > 0 THEN soft[c][r] ELSE stamp[r]]

-----------------------------------------------------------------------------
Init ==
    /\ live = InitLive /\ used = InitLive
    /\ fk = Ref
    /\ stamp = [r \in Row |-> 0]
    /\ now = 1
    /\ ins = [c \in Caller |-> {}] /\ del = [c \in Caller |-> {}] /\ clr = [c \in Caller |-> {}]
    /\ soft = [c \in Caller |-> [r \in Row |-> 0]]
    /\ lock = [c \in Caller |-> NoLocks]
    /\ own = [c \in Caller |-> "none"]
    /\ pc = [c \in Caller |-> "idle"]
    /\ ip = [c \in Caller |-> 1]
    /\ ids = [c \in Caller |-> [q \in Pos |-> {}]]
    /\ call = [c \in Caller |-> [root |-> CHOOSE t \in Root : TRUE, arg |-> {}, batch |-> TRUE]]
    /\ result = [c \in Caller |-> "none"]

Goto(c, l) == pc' = [pc EXCEPT ![c] = l]
Answer(c, res) == result' = [result EXCEPT ![c] = res]

(* Calling.  In a caller's transaction there is nothing to start: the      *)
(* hooks or the operations run next.  An empty batch returns at once.      *)

FirstStep(b) == IF b THEN "ops" ELSE "pre"

Call(c, t, arg, b) ==
    /\ pc[c] = "idle" /\ now <= MaxNow
    /\ \/ own[c] = "none" /\ "standalone" \in Modes /\ Goto(c, "begin")
       \/ own[c] = "app" /\ result[c] # "err" /\ Goto(c, FirstStep(b))
    /\ b \/ Cardinality(arg) = 1
    /\ arg # {}
    /\ call' = [call EXCEPT ![c] = [root |-> t, arg |-> arg, batch |-> b]]
    /\ Answer(c, "none")
    /\ UNCHANGED <<store, used, now, txn, own, ip, ids>>

EmptyBatch(c) ==
    /\ pc[c] = "idle" /\ (own[c] = "app" => result[c] # "err") /\ "batch" \in Forms
    /\ Answer(c, "ok")
    /\ call' = [call EXCEPT ![c].arg = {}]
    /\ UNCHANGED <<store, used, now, txn, own, pc, ip, ids>>

StartTx(c) ==
    /\ pc[c] = "begin"
    /\ Serializable => Alone(c)
    /\ own' = [own EXCEPT ![c] = "cascade"]
    /\ Goto(c, FirstStep(call[c].batch))
    /\ UNCHANGED <<store, used, now, txn, ip, ids, call, result>>

StartTxFails(c) ==
    /\ pc[c] = "begin"
    /\ Goto(c, "idle") /\ Answer(c, "err")
    /\ UNCHANGED <<store, used, now, txn, own, ip, ids, call>>

(* Hooks.  A hook works on the transaction's client: it may insert a row,  *)
(* and it may fail whether or not it did.                                  *)

HookWrites(c) ==
    \/ UNCHANGED <<ins, used>>
    \/ \E r \in HookRows \ used :
          /\ RefsIn(r, ViewLive(c))
          /\ ins' = [ins EXCEPT ![c] = @ \cup {r}]
          /\ used' = used \cup {r}

Hook(c, from, to) ==
    /\ pc[c] = from
    /\ HookWrites(c)
    /\ Goto(c, to)
    /\ UNCHANGED <<store, now, del, clr, soft, lock, own, ip, ids, call, result>>

PreHook(c)       == Hook(c, "pre", "ops")
PreHookFails(c)  == Hook(c, "pre", "abort")
PostHook(c)      == Hook(c, "post", "finish")
PostHookFails(c) == Hook(c, "post", "abort")

(* The operations: one SQL statement per step.                             *)

\* Mutation: a function without blocks runs its statements backwards.
BugStmt(c) ==
    LET P == Program[call[c].root]
    IN  IF \E i \in DOMAIN P : P[i].kind = "query" THEN P[ip[c]] ELSE P[Len(P) + 1 - ip[c]]

Stmt(c) == Program[call[c].root][ip[c]]
Arg(c, src) == IF src = 0 THEN call[c].arg ELSE ids[c][src]

\* Mutation: UPDATE without its WHERE.
BugSelected(c, s) ==
    { r \in ViewLive(c) :
        /\ TypeOf[r] = s.type
        /\ IF s.kind = "self" THEN r \in call[c].arg
           ELSE s.kind = "unlink" \/ ViewFk(c, r, s.col) \in Arg(c, s.src) }

\* The rows a statement's predicate selects in the transaction's view.
Selected(c, s) ==
    { r \in ViewLive(c) :
        /\ TypeOf[r] = s.type
        /\ IF s.kind = "self" THEN r \in call[c].arg
           ELSE ViewFk(c, r, s.col) \in Arg(c, s.src) }

\* After the last statement, the hooks of the single form, or the end.
Advance(c, i) ==
    IF i <= Len(Program[call[c].root])
    THEN ip' = [ip EXCEPT ![c] = i] /\ UNCHANGED pc
    ELSE UNCHANGED ip /\ Goto(c, IF call[c].batch THEN "finish" ELSE "post")

AtStmt(c, kinds) == pc[c] = "ops" /\ Stmt(c).kind \in kinds

\* Row locks.  A statement that writes finds its rows as it starts ...
Locking == {"bulk", "drop", "self", "unlink", "soft"}
AtLocks(c) == ~Serializable /\ AtStmt(c, Locking)

Scan(c) ==
    /\ AtLocks(c) /\ ~lock[c].scanned
    /\ lock' = [lock EXCEPT ![c].scanned = TRUE, ![c].todo = Selected(c, Stmt(c))]
    /\ UNCHANGED <<store, used, now, ins, del, clr, soft, own, pc, ip, ids, call, result>>

\* ... and takes a lock on each once no other transaction has it; a row that is gone
\* or changed by then, and no longer selected, is passed over.
LockRow(c) ==
    /\ AtLocks(c)
    /\ \E r \in lock[c].todo \ HeldByOthers(c) :
          lock' = [lock EXCEPT ![c].todo = @ \ {r},
                               ![c].held = @ \cup ({r} \cap Selected(c, Stmt(c)))]
    /\ UNCHANGED <<store, used, now, ins, del, clr, soft, own, pc, ip, ids, call, result>>

\* Once it has them all, it writes to the rows it locked.
Writes(c) ==
    /\ Serializable \/ (lock[c].scanned /\ lock[c].todo = {})
    /\ lock' = [lock EXCEPT ![c].scanned = FALSE]

Taken(c) == Selected(c, Stmt(c)) \cap (IF Serializable THEN Row ELSE lock[c].held)

\* Mutation: the block runs when there are no ids and is skipped otherwise.
BugQuery(c) ==
    /\ AtStmt(c, {"query"})
    /\ LET found == Selected(c, Stmt(c)) IN
         /\ ids' = [ids EXCEPT ![c][ip[c]] = found]
         /\ Advance(c, IF found # {} THEN Stmt(c).end + 1 ELSE ip[c] + 1)
    /\ UNCHANGED <<store, used, now, txn, own, call, result>>

\* Cascade into: read the ids; an empty answer skips the block.
Query(c) ==
    /\ AtStmt(c, {"query"})
    /\ LET found == Selected(c, Stmt(c)) IN
         /\ ids' = [ids EXCEPT ![c][ip[c]] = found]
         /\ Advance(c, IF found = {} THEN Stmt(c).end + 1 ELSE ip[c] + 1)
    /\ UNCHANGED <<store, used, now, txn, own, call, result>>

\* DELETE WHERE: dependents, queried rows, the entity itself.
Delete(c) ==
    /\ AtStmt(c, {"bulk", "drop", "self"})
    /\ Writes(c)
    /\ del' = [del EXCEPT ![c] = @ \cup Taken(c)]
    /\ Advance(c, ip[c] + 1)
    /\ UNCHANGED <<store, used, now, ins, clr, soft, own, ids, call, result>>

\* Mutation: the setter is named for the type instead of the key.
BugUnlink(c) ==
    /\ AtStmt(c, {"unlink"})
    /\ Writes(c)
    /\ clr' = [clr EXCEPT ![c] = @ \cup { <<r, Stmt(c).type>> : r \in Taken(c) }]
    /\ Advance(c, ip[c] + 1)
    /\ UNCHANGED <<store, used, now, ins, del, soft, own, ids, call, result>>

\* UPDATE SET key = NULL WHERE.
Unlink(c) ==
    /\ AtStmt(c, {"unlink"})
    /\ Writes(c)
    /\ clr' = [clr EXCEPT ![c] = @ \cup { <<r, Stmt(c).col>> : r \in Taken(c) }]
    /\ Advance(c, ip[c] + 1)
    /\ UNCHANGED <<store, used, now, ins, del, soft, own, ids, call, result>>

\* UPDATE SET deleted_at = now WHERE: rows already stamped are stamped again.
SoftDelete(c) ==
    /\ AtStmt(c, {"soft"})
    /\ Writes(c)
    /\ soft' = [soft EXCEPT ![c] = [r \in Row |-> IF r \in Taken(c) THEN now ELSE @[r]]]
    /\ now' = now + 1
    /\ Advance(c, ip[c] + 1)
    /\ UNCHANGED <<store, used, ins, del, clr, own, ids, call, result>>

\* Mutation: a statement's error is dropped and the transaction committed.
BugStatementFails(c) ==
    /\ pc[c] = "ops"
    /\ Goto(c, "finish")
    /\ lock' = [lock EXCEPT ![c].scanned = FALSE, ![c].todo = {}]
    /\ UNCHANGED <<store, used, now, ins, del, clr, soft, own, ip, ids, call, result>>

StatementFails(c) ==
    /\ pc[c] = "ops"
    /\ Goto(c, "abort")
    /\ lock' = [lock EXCEPT ![c].scanned = FALSE, ![c].todo = {}]
    /\ UNCHANGED <<store, used, now, ins, del, clr, soft, own, ip, ids, call, result>>

(* The end of a call: its locals are gone.                                 *)

Return(c, res) ==
    /\ Goto(c, "idle") /\ Answer(c, res)
    /\ ip' = [ip EXCEPT ![c] = 1]
    /\ ids' = [ids EXCEPT ![c] = [q \in Pos |-> {}]]

EndTx(c, res) ==
    /\ Discard(c)
    /\ own' = [own EXCEPT ![c] = "none"]
    /\ Return(c, res)
    /\ UNCHANGED <<used, now, call>>

Commit(c) ==
    /\ pc[c] = "finish" /\ own[c] = "cascade"
    /\ Apply(c) /\ EndTx(c, "ok")

\* A commit whose answer is lost: the error is returned, the writes stand.
CommitLost(c) ==
    /\ pc[c] = "finish" /\ own[c] = "cascade"
    /\ Apply(c) /\ EndTx(c, "err")

CommitFails(c) ==
    /\ pc[c] = "finish" /\ own[c] = "cascade"
    /\ EndTx(c, "err") /\ UNCHANGED store

\* Mutation: the error path ends the caller's transaction too.
BugRollbackForCaller(c) ==
    /\ pc[c] = "abort" /\ own[c] # "none"
    /\ EndTx(c, "err") /\ UNCHANGED store

\* Mutation: the error is returned without tx.Rollback().
BugNoRollback(c) ==
    /\ pc[c] = "abort" /\ own[c] = "cascade"
    /\ Return(c, "err") /\ UNCHANGED <<store, used, now, txn, own, call>>

\* The error path of a standalone call.  A rollback that itself fails only
\* changes the text of the error: the database drops the transaction.
Rollback(c) ==
    /\ pc[c] = "abort" /\ own[c] = "cascade"
    /\ EndTx(c, "err") /\ UNCHANGED store

\* In a caller's transaction both ends leave the transaction alone.
ReturnOk(c) ==
    /\ pc[c] = "finish" /\ own[c] = "app"
    /\ Return(c, "ok")
    /\ UNCHANGED <<store, used, now, txn, own, call>>

ReturnError(c) ==
    /\ pc[c] = "abort" /\ own[c] = "app"
    /\ Return(c, "err")
    /\ UNCHANGED <<store, used, now, txn, own, call>>

(* The caller's transaction: committed after successes, rolled back after  *)
(* an error, as entcascade/README.md asks.                                 *)

AppBegin(c) ==
    /\ pc[c] = "idle" /\ own[c] = "none" /\ "app" \in Modes
    /\ Serializable => Alone(c)
    /\ own' = [own EXCEPT ![c] = "app"]
    /\ Answer(c, "none")
    /\ UNCHANGED <<store, used, now, txn, pc, ip, ids, call>>

AppCommit(c) ==
    /\ pc[c] = "idle" /\ own[c] = "app" /\ result[c] # "err"
    /\ Apply(c) /\ EndTx(c, "none")

AppRollback(c) ==
    /\ pc[c] = "idle" /\ own[c] = "app"
    /\ EndTx(c, "none") /\ UNCHANGED store

\* The process of a caller dies: the database drops its transaction.
Crash(c) ==
    /\ own[c] # "none"
    /\ EndTx(c, "none") /\ UNCHANGED store

(* Other clients, each write a transaction of its own.                     *)

Quiet == Serializable => \A d \in Caller : own[d] = "none"

Insert(r) ==
    /\ r \in Row \ (used \cup HookRows)
    /\ Quiet /\ RefsIn(r, live)
    /\ live' = live \cup {r} /\ used' = used \cup {r}
    /\ UNCHANGED <<fk, stamp, now, txn, own, pc, ip, ids, call, result>>

Move(r, col, p) ==
    /\ {r, p} \subseteq live
    /\ Quiet /\ \A d \in Caller : r \notin lock[d].held
    /\ fk' = [fk EXCEPT ![r][col] = p]
    /\ UNCHANGED <<live, stamp, used, now, txn, own, pc, ip, ids, call, result>>

CallStep(c) ==
    \/ StartTx(c) \/ StartTxFails(c)
    \/ PreHook(c) \/ PreHookFails(c) \/ PostHook(c) \/ PostHookFails(c)
    \/ Query(c) \/ Scan(c) \/ LockRow(c) \/ Delete(c) \/ Unlink(c) \/ SoftDelete(c) \/ StatementFails(c)
    \/ Commit(c) \/ CommitLost(c) \/ CommitFails(c) \/ Rollback(c)
    \/ ReturnOk(c) \/ ReturnError(c)

NewCall(c) ==
    \E t \in Root, form \in Forms : \E arg \in SUBSET { r \in used \ HookRows : TypeOf[r] = t } :
        Call(c, t, arg, form = "batch")

AppStep(c) == AppBegin(c) \/ AppCommit(c) \/ AppRollback(c)

OtherClient ==
    \/ \E r \in Row : Insert(r)
    \/ \E m \in Moves : Move(m[1], m[2], m[3])

Next ==
    \/ \E c \in Caller : NewCall(c) \/ EmptyBatch(c) \/ CallStep(c) \/ AppStep(c) \/ Crash(c)
    \/ OtherClient

Spec == Init /\ [][Next]_vars

\* Who may be waiting for whose locks: a statement may stand at any row it has yet to
\* lock.  In a wait cycle every member waits for another member.
Waits(c, d) == AtLocks(c) /\ lock[c].todo \cap lock[d].held # {}
WaitCycle(K) == K # {} /\ \A c \in K : \E d \in K \ {c} : Waits(c, d)

\* The database breaks a deadlock: it fails the statement of one of the waiting.
BreakDeadlock == \E K \in SUBSET Caller : WaitCycle(K) /\ \E c \in K : StatementFails(c)

\* The database and the other goroutines keep going; other failures, crashes and
\* further calls are never owed.  SF where a step waits for other transactions.
Unblocked(c) ==
    \/ PreHook(c) \/ PostHook(c) \/ Query(c) \/ Scan(c) \/ Delete(c) \/ Unlink(c) \/ SoftDelete(c)
    \/ Commit(c) \/ Rollback(c) \/ ReturnOk(c) \/ ReturnError(c)
    \/ AppCommit(c) \/ AppRollback(c)

FairSpec ==
    /\ Spec
    /\ \A c \in Caller : WF_vars(Unblocked(c)) /\ SF_vars(StartTx(c) \/ LockRow(c))
    /\ WF_vars(BreakDeadlock)

-----------------------------------------------------------------------------
States == {"idle", "begin", "pre", "ops", "post", "finish", "abort"}

TypeOK ==
    /\ live \subseteq used /\ used \subseteq Row
    /\ fk \in [Row -> [Col -> Row \cup {Nil}]]
    /\ stamp \in [Row -> Nat] /\ now \in Nat \ {0}
    /\ ins \in [Caller -> SUBSET Row] /\ del \in [Caller -> SUBSET Row]
    /\ clr \in [Caller -> SUBSET (Row \X Col)]
    /\ soft \in [Caller -> [Row -> Nat]]
    /\ lock \in [Caller -> [scanned : BOOLEAN, todo : SUBSET Row, held : SUBSET Row]]
    /\ own \in [Caller -> {"none", "cascade", "app"}]
    /\ pc \in [Caller -> States]
    /\ ip \in [Caller -> Nat \ {0}]
    /\ ids \in [Caller -> [Pos -> SUBSET Row]]
    /\ call \in [Caller -> [root : Root, arg : SUBSET Row, batch : BOOLEAN]]
    /\ result \in [Caller -> {"none", "ok", "err"}]

\* No stored row whose parent a cascade deletes or unlinks points at a row that is
\* gone: the orphans the extension exists to prevent (README, "The trade-off").
NoOrphans ==
    \A r \in live, d \in Policy :
        d.child = TypeOf[r] /\ d.mode \in {"delete", "unlink"}
            => fk[r][d.col] \in live \cup {Nil}

\* A call that answered ok has removed its roots for good, from the database or,
\* in a caller's transaction, from that transaction's view.
OkMeansGone ==
    \A c \in Caller : result[c] = "ok" =>
        call[c].arg \cap (IF own[c] = "app" THEN ViewLive(c) ELSE live) = {}

\* A call inside its caller's transaction never ends it and never takes back the
\* caller's earlier work, whatever hook or statement fails (inTransaction path).
CallerKeepsTx ==
    [][\A c \in Caller : own[c] = "app" /\ pc[c] # "idle" =>
          \/ /\ own'[c] = "app"
             /\ ins[c] \subseteq ins'[c] /\ del[c] \subseteq del'[c] /\ clr[c] \subseteq clr'[c]
          \/ Crash(c)]_vars

\* A standalone call on roots that are already gone commits no change: "making
\* cascades idempotent" (README, Transaction Behavior).  Hooks' rows aside, and the
\* stamps of soft dependents, which keep their key and are stamped once more.
RepeatIsNoOp ==
    [][\A c \in Caller : own[c] = "cascade" /\ own'[c] = "none" /\ call[c].arg \cap live = {} =>
          /\ live \subseteq live' /\ UNCHANGED fk
          /\ \A r \in Row : stamp'[r] # stamp[r] =>
                \E d \in Policy : d.child = TypeOf[r] /\ d.mode = "soft" /\ fk[r][d.col] \in call[c].arg]_vars

\* The calls, hooks, failures and commits implement one atomic step per
\* transaction: all of a cascade or nothing of it, and exactly its dependents.
Store == INSTANCE CascadeStore WITH
    rows <- [r \in live |-> [fk |-> fk[r], stamp |-> stamp[r]]]

ImplementsStore == Store!Spec

\* Cascades lock dependents before parents and siblings in edge order, whatever their
\* roots, so two tables are never locked in opposite orders: where any number of calls
\* wait for each other in a cycle, those at one table already do, over the order in
\* which their statements came to its rows.
DeadlocksInOneTable ==
    \A K \in SUBSET Caller : WaitCycle(K) =>
        \E c \in K : WaitCycle({ d \in K : Stmt(d).type = Stmt(c).type })

\* What that takes of the programs: no cycle of tables, each locked before the next.
LockSteps(t) == { i \in DOMAIN Program[t] : Program[t][i].kind \in Locking }
LockedBefore ==
    UNION { { <<Program[t][x[1]].type, Program[t][x[2]].type>> :
                x \in { y \in LockSteps(t) \X LockSteps(t) : y[1] < y[2] } } : t \in Root }
LockedTypes == UNION { { Program[t][i].type : i \in LockSteps(t) } : t \in Root }
OneLockOrder ==
    \A S \in (SUBSET LockedTypes) \ {{}} :
        \E last \in S : \A type \in S \ {last} : <<last, type>> \notin LockedBefore

\* Every standalone call returns, also when it had to wait for others.
CallsReturn == \A c \in Caller : (pc[c] = "begin") ~> (pc[c] = "idle")
=============================================================================

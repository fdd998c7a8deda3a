------------------------ MODULE CascadeRuntime_proofs ------------------------
(***************************************************************************)
(* Proofs about the cascade runtime, for any rows, programs, callers and   *)
(* hooks that satisfy the assumptions of CascadeRuntime and CascadeSound:  *)
(* the rows a cascade leaves, what a call promises its caller, locks, and, *)
(* from the second half on, that on a serializable database the runtime    *)
(* implements CascadeStore.                                                *)
(***************************************************************************)
EXTENDS CascadeSound, TLAPS

-----------------------------------------------------------------------------
(* Type correctness, with the control facts it rests on: the instruction   *)
(* pointer stays inside the program of the call.                           *)

\* Where a call is, and who owns its transaction; without one there are no
\* pending writes.
Control ==
    \A c \in Caller :
        /\ ip[c] \in DOMAIN Program[call[c].root]
        /\ pc[c] \in {"idle", "begin", "pre"} => ip[c] = 1
        /\ pc[c] = "begin" => own[c] = "none"
        /\ ins[c] \subseteq used
        /\ own[c] = "none" =>
              /\ pc[c] \in {"idle", "begin"}
              /\ ins[c] = {} /\ del[c] = {} /\ clr[c] = {}

TypeInv == TypeOK /\ Control

\* What the parameters say of one program.
LEMMA ProgramShape ==
    ASSUME NEW t \in Root
    PROVE  /\ Len(Program[t]) \in Nat /\ DOMAIN Program[t] = 1 .. Len(Program[t])
           /\ 1 \in DOMAIN Program[t]
           /\ \A i \in DOMAIN Program[t] : Program[t][i] \in Statements
<1>1. Program[t] \in Seq(Statements) /\ Program[t] # <<>>
  BY Parameters
<1>2. QED
  BY <1>1

\* A block ends behind its query and before the last statement.
LEMMA QueryEnds ==
    ASSUME NEW t \in Root, NEW i \in DOMAIN Program[t], Program[t][i].kind = "query"
    PROVE  /\ i < Program[t][i].end /\ Program[t][i].end < Len(Program[t])
           /\ Program[t][Program[t][i].end] = [Program[t][i] EXCEPT !.kind = "drop"]
BY ProgramScoped

LEMMA ReadsQuery ==
    ASSUME NEW t \in Root, NEW i \in DOMAIN Program[t], Program[t][i].src # 0
    PROVE  Program[t][Program[t][i].src].kind = "query"
BY ProgramScoped

LEMMA InitTypeInv == Init => TypeInv
<1> SUFFICES ASSUME Init PROVE TypeInv
  OBVIOUS
<1> DEFINE t0 == CHOOSE t \in Root : TRUE
<1>1. t0 \in Root
  BY Parameters
<1>2. TypeOK
  BY <1>1, Parameters DEF Init, NoLocks, TypeOK, States
<1>3. Control
  BY <1>1, ProgramShape DEF Init, Control
<1>4. QED
  BY <1>2, <1>3 DEF TypeInv

\* What a statement selects is stored or pending.
LEMMA SelectedRows ==
    ASSUME TypeOK, NEW c \in Caller, NEW s
    PROVE  Selected(c, s) \subseteq ViewLive(c) /\ ViewLive(c) \subseteq Row
BY DEF Selected, ViewLive, TypeOK

\* The instruction pointer moves on within the program.
LEMMA AdvanceTypes ==
    ASSUME TypeInv, NEW c \in Caller, pc[c] = "ops", NEW i \in Nat \ {0}, Advance(c, i),
           UNCHANGED <<call, own>>
    PROVE  /\ ip' \in [Caller -> Nat \ {0}] /\ pc' \in [Caller -> States]
           /\ \A d \in Caller : ip'[d] \in DOMAIN Program[call[d].root]
           /\ \A d \in Caller : d # c => pc'[d] = pc[d] /\ ip'[d] = ip[d]
           /\ pc'[c] \in {"ops", "post", "finish"}
<1>1. call[c].root \in Root /\ \A d \in Caller : call[d].root \in Root
  BY DEF TypeInv, TypeOK
<1>2. DOMAIN Program[call[c].root] = 1 .. Len(Program[call[c].root]) /\ Len(Program[call[c].root]) \in Nat
  BY <1>1, ProgramShape
<1>3. CASE i <= Len(Program[call[c].root])
  <2>1. ip' = [ip EXCEPT ![c] = i] /\ pc' = pc
    BY <1>3 DEF Advance
  <2>2. i \in DOMAIN Program[call[c].root]
    BY <1>2, <1>3
  <2>3. ip \in [Caller -> Nat \ {0}] /\ pc \in [Caller -> States]
    BY DEF TypeInv, TypeOK
  <2>4. \A d \in Caller : ip'[d] \in DOMAIN Program[call[d].root]
    BY <2>1, <2>2, <2>3 DEF TypeInv, Control
  <2>5. QED
    BY <2>1, <2>3, <2>4
<1>4. CASE ~(i <= Len(Program[call[c].root]))
  BY ZenonT(30), <1>2, <1>4 DEF TypeInv, TypeOK, Control, Advance, States, Goto
<1>5. QED
  BY <1>3, <1>4

\* The end of a transaction, committed or not.
LEMMA EndTxTypes ==
    ASSUME TypeInv, NEW c \in Caller, NEW res \in {"none", "ok", "err"}, EndTx(c, res),
           Apply(c) \/ UNCHANGED store
    PROVE  TypeInv'
<1> USE DEF TypeInv
<1>1. live' \subseteq used' /\ fk' \in [Row -> [Col -> Row \cup {Nil}]] /\ stamp' \in [Row -> Nat]
  <2>1. CASE UNCHANGED store
    BY <2>1 DEF store, EndTx, TypeOK
  <2>2. CASE Apply(c)
    <3>1. ViewLive(c) \subseteq used
      BY DEF ViewLive, TypeOK, Control
    <3>2. \A r \in Row, col \in Col : ViewFk(c, r, col) \in Row \cup {Nil}
      BY DEF ViewFk, TypeOK
    <3>3. \A r \in Row : soft[c][r] \in Nat /\ stamp[r] \in Nat
      BY DEF TypeOK
    <3>4. QED
      BY <2>2, <3>1, <3>2, <3>3 DEF Apply, EndTx
  <2>3. QED
    BY <2>1, <2>2
<1>2. /\ ins' \in [Caller -> SUBSET Row] /\ del' \in [Caller -> SUBSET Row]
      /\ clr' \in [Caller -> SUBSET (Row \X Col)] /\ soft' \in [Caller -> [Row -> Nat]]
      /\ lock' \in [Caller -> [scanned : BOOLEAN, todo : SUBSET Row, held : SUBSET Row]]
  BY DEF EndTx, Discard, NoLocks, TypeOK
<1>3. /\ own' \in [Caller -> {"none", "cascade", "app"}] /\ pc' \in [Caller -> States]
      /\ ip' \in [Caller -> Nat \ {0}] /\ result' \in [Caller -> {"none", "ok", "err"}]
      /\ ids' \in [Caller -> [Pos -> SUBSET Row]]
  BY DEF EndTx, Return, Goto, Answer, TypeOK, States
<1>4. TypeOK'
  BY <1>1, <1>2, <1>3 DEF EndTx, TypeOK
<1>5. Control'
  <2> SUFFICES ASSUME NEW d \in Caller PROVE
        /\ ip'[d] \in DOMAIN Program[call'[d].root]
        /\ pc'[d] \in {"idle", "begin", "pre"} => ip'[d] = 1
        /\ pc'[d] = "begin" => own'[d] = "none"
        /\ ins'[d] \subseteq used'
        /\ own'[d] = "none" => /\ pc'[d] \in {"idle", "begin"}
                               /\ ins'[d] = {} /\ del'[d] = {} /\ clr'[d] = {}
    BY DEF Control
  <2>1. CASE d = c
    <3>1. 1 \in DOMAIN Program[call[c].root]
      BY ProgramShape DEF TypeOK
    <3>2. QED
      BY <2>1, <3>1 DEF EndTx, Discard, Return, Goto, Answer, TypeOK
  <2>2. CASE d # c
    BY <2>2 DEF EndTx, Discard, Return, Goto, Answer, TypeOK, Control
  <2>3. QED
    BY <2>1, <2>2
<1>6. QED
  BY <1>4, <1>5

\* Starting calls and transactions.
LEMMA StartTypes ==
    ASSUME TypeInv, NEW c \in Caller,
           NewCall(c) \/ EmptyBatch(c) \/ StartTx(c) \/ StartTxFails(c) \/ AppBegin(c)
    PROVE  TypeInv'
<1> USE DEF TypeInv
<1>1. \A t \in Root : 1 \in DOMAIN Program[t]
  BY ProgramShape
<1>2. CASE NewCall(c)
  <2>1. PICK t \in Root, arg \in SUBSET Row, b \in BOOLEAN : Call(c, t, arg, b)
    BY <1>2 DEF NewCall, TypeOK
  <2>2. call' \in [Caller -> [root : Root, arg : SUBSET Row, batch : BOOLEAN]]
    BY <2>1 DEF Call, TypeOK
  <2>3. TypeOK'
    BY <2>1, <2>2 DEF Call, Goto, Answer, FirstStep, store, txn, TypeOK, States
  <2>4. /\ UNCHANGED <<ip, own, ins, del, clr, used>> /\ pc[c] = "idle" /\ ip[c] = 1
        /\ call'[c].root = t /\ \A d \in Caller : d # c => call'[d].root = call[d].root
    BY <2>1 DEF Call, store, txn, TypeOK, Control
  <2>5. /\ \A d \in Caller : d # c => pc'[d] = pc[d]
        /\ pc'[c] = "begin" => own[c] = "none"
        /\ own[c] = "none" => pc'[c] = "begin"
    BY <2>1 DEF Call, Goto, FirstStep, TypeOK
  <2>6. ip'[c] \in DOMAIN Program[call'[c].root]
    BY <1>1, <2>4
  <2>7. Control'
    BY <2>4, <2>5, <2>6 DEF Control
  <2>8. QED
    BY <2>3, <2>7
<1>3. CASE EmptyBatch(c)
  <2>1. call' \in [Caller -> [root : Root, arg : SUBSET Row, batch : BOOLEAN]]
    <3>1. call' = [call EXCEPT ![c].arg = {}]
      BY <1>3 DEF EmptyBatch
    <3>2. call \in [Caller -> [root : Root, arg : SUBSET Row, batch : BOOLEAN]]
      BY DEF TypeOK
    <3>3. QED
      BY <3>1, <3>2
  <2>2. \A d \in Caller : call'[d].root = call[d].root
    BY <1>3 DEF EmptyBatch, TypeOK
  <2>3. TypeOK'
    BY <1>3, <2>1 DEF EmptyBatch, Answer, store, txn, TypeOK, States
  <2>4. Control'
    BY <1>3, <2>2 DEF EmptyBatch, Answer, store, txn, Control
  <2>5. QED
    BY <2>3, <2>4
<1>4. CASE StartTx(c)
  <2>1. TypeOK'
    BY <1>4 DEF StartTx, Goto, FirstStep, store, txn, TypeOK, States
  <2>2. Control'
    BY <1>4 DEF StartTx, Goto, FirstStep, store, txn, TypeOK, Control
  <2>3. QED
    BY <2>1, <2>2
<1>5. CASE StartTxFails(c)
  <2>1. TypeOK'
    BY <1>5 DEF StartTxFails, Goto, Answer, store, txn, TypeOK, States
  <2>2. Control'
    BY <1>5 DEF StartTxFails, Goto, Answer, store, txn, TypeOK, Control
  <2>3. QED
    BY <2>1, <2>2
<1>6. CASE AppBegin(c)
  <2>1. TypeOK'
    BY <1>6 DEF AppBegin, Answer, store, txn, TypeOK, States
  <2>2. Control'
    BY <1>6 DEF AppBegin, Answer, store, txn, TypeOK, Control
  <2>3. QED
    BY <2>1, <2>2
<1>7. QED
  BY <1>2, <1>3, <1>4, <1>5, <1>6

\* Hooks: a row they insert is a fresh id.
LEMMA HookTypes ==
    ASSUME TypeInv, NEW c \in Caller, NEW from \in {"pre", "post"},
           NEW to \in {"ops", "finish", "abort"}, Hook(c, from, to)
    PROVE  TypeInv'
<1> USE DEF TypeInv
<1>1. /\ ins' \in [Caller -> SUBSET Row] /\ used \subseteq used' /\ used' \subseteq Row
      /\ \A d \in Caller : ins'[d] \subseteq used'
      /\ \A d \in Caller : d # c => ins'[d] = ins[d]
  <2>1. CASE UNCHANGED <<ins, used>>
    BY <2>1 DEF TypeOK, Control
  <2>2. CASE \E r \in HookRows \ used : /\ ins' = [ins EXCEPT ![c] = @ \cup {r}]
                                       /\ used' = used \cup {r}
    BY <2>2, Parameters DEF TypeOK, Control
  <2>3. QED
    BY <2>1, <2>2 DEF Hook, HookWrites
<1>2. own[c] # "none"
  BY DEF Hook, Control
<1>3. TypeOK'
  BY <1>1 DEF Hook, Goto, store, TypeOK, States
<1>4. Control'
  BY <1>1, <1>2 DEF Hook, Goto, store, TypeOK, Control
<1>5. QED
  BY <1>3, <1>4

\* Locks.  Scanning and locking move nothing but the locks; a statement that fails or
\* has its rows clears its own part of them.
LEMMA LockTypes ==
    ASSUME TypeOK, NEW c \in Caller,
           Scan(c) \/ LockRow(c) \/ Writes(c) \/ StatementFails(c)
    PROVE  lock' \in [Caller -> [scanned : BOOLEAN, todo : SUBSET Row, held : SUBSET Row]]
<1>1. lock \in [Caller -> [scanned : BOOLEAN, todo : SUBSET Row, held : SUBSET Row]]
  BY DEF TypeOK
<1>2. Selected(c, Stmt(c)) \subseteq Row
  BY SelectedRows
<1>3. CASE Scan(c)
  <2>1. PICK S \in SUBSET Row : lock' = [lock EXCEPT ![c].scanned = TRUE, ![c].todo = S]
    BY <1>2, <1>3 DEF Scan
  <2>2. QED
    BY Zenon, <1>1, <2>1
<1>4. CASE LockRow(c)
  <2>1. PICK r \in lock[c].todo, S \in SUBSET Row :
            lock' = [lock EXCEPT ![c].todo = @ \ {r}, ![c].held = @ \cup ({r} \cap S)]
    BY <1>2, <1>4 DEF LockRow
  <2>2. r \in Row
    BY <1>1
  <2>3. QED
    BY Zenon, <1>1, <2>1, <2>2
<1>5. CASE Writes(c)
  BY <1>1, <1>5 DEF Writes
<1>6. CASE StatementFails(c)
  <2>1. lock' = [lock EXCEPT ![c].scanned = FALSE, ![c].todo = {}]
    BY <1>6 DEF StatementFails
  <2>2. QED
    BY Zenon, <1>1, <2>1
<1>7. QED
  BY <1>3, <1>4, <1>5, <1>6

LEMMA LockingTypes ==
    ASSUME TypeInv, NEW c \in Caller, Scan(c) \/ LockRow(c)
    PROVE  TypeInv'
<1>1. UNCHANGED <<live, fk, stamp, used, now, ins, del, clr, soft, own, pc, ip, ids, call, result>>
  BY DEF Scan, LockRow, store
<1>2. TypeOK'
  BY <1>1, LockTypes DEF TypeInv, TypeOK
<1>3. Control'
  BY <1>1 DEF TypeInv, Control
<1>4. QED
  BY <1>2, <1>3 DEF TypeInv

\* What a statement writes to is among the rows it selects: on a serializable database
\* all of them.
LEMMA TakenRows ==
    ASSUME TypeOK, NEW c \in Caller
    PROVE  /\ Taken(c) \subseteq Selected(c, Stmt(c))
           /\ Serializable => Taken(c) = Selected(c, Stmt(c))
BY SelectedRows DEF Taken

\* Statements.
LEMMA StatementTypes ==
    ASSUME TypeInv, NEW c \in Caller,
           Query(c) \/ Delete(c) \/ Unlink(c) \/ SoftDelete(c) \/ StatementFails(c)
    PROVE  TypeInv'
<1> USE DEF TypeInv
<1>1. /\ pc[c] = "ops" /\ own[c] # "none" /\ call[c].root \in Root
      /\ ip[c] \in DOMAIN Program[call[c].root] /\ Stmt(c) \in Statements
      /\ Selected(c, Stmt(c)) \subseteq Row /\ Taken(c) \subseteq Selected(c, Stmt(c))
  <2>1. pc[c] = "ops"
    BY DEF Query, Delete, Unlink, SoftDelete, StatementFails, AtStmt
  <2>2. call[c].root \in Root /\ ip[c] \in DOMAIN Program[call[c].root] /\ own[c] # "none"
    BY <2>1 DEF TypeOK, Control
  <2>3. QED
    BY <2>1, <2>2, ProgramShape, SelectedRows, TakenRows DEF Stmt
<1>2. ip[c] + 1 \in Nat \ {0} /\ Stmt(c).end + 1 \in Nat \ {0} /\ ip[c] \in Pos
  BY <1>1 DEF TypeOK, Statements, Pos
<1>3. SUFFICES ASSUME ~StatementFails(c) PROVE TypeInv'
  <2>1. CASE StatementFails(c)
    <3>1. TypeOK'
      <4>1. lock' \in [Caller -> [scanned : BOOLEAN, todo : SUBSET Row, held : SUBSET Row]]
        BY <2>1, LockTypes
      <4>2. /\ UNCHANGED <<live, fk, stamp, used, now, ins, del, clr, soft, own, ip, ids, call, result>>
            /\ pc' \in [Caller -> States]
        BY <2>1 DEF StatementFails, Goto, store, TypeOK, States
      <4>3. QED
        BY <4>1, <4>2 DEF TypeOK
    <3>2. Control'
      BY <1>1, <2>1 DEF StatementFails, Goto, store, TypeOK, Control
    <3>3. QED
      BY <3>1, <3>2
  <2>2. QED
    BY <2>1
<1>4. UNCHANGED <<call, own, live, fk, stamp, used, ins, result>>
  BY <1>3 DEF Query, Delete, Unlink, SoftDelete, store, txn
<1>5. PICK i \in Nat \ {0} : Advance(c, i)
  <2>1. CASE Query(c)
    BY <1>2, <2>1 DEF Query
  <2>2. CASE ~Query(c)
    BY <1>2, <1>3, <2>2 DEF Delete, Unlink, SoftDelete
  <2>3. QED
    BY <2>1, <2>2
<1>6. /\ ip' \in [Caller -> Nat \ {0}] /\ pc' \in [Caller -> States]
      /\ \A d \in Caller : ip'[d] \in DOMAIN Program[call[d].root]
      /\ \A d \in Caller : d # c => pc'[d] = pc[d] /\ ip'[d] = ip[d]
      /\ pc'[c] \in {"ops", "post", "finish"}
  BY <1>1, <1>4, <1>5, AdvanceTypes
<1>7. /\ del' \in [Caller -> SUBSET Row] /\ clr' \in [Caller -> SUBSET (Row \X Col)]
      /\ soft' \in [Caller -> [Row -> Nat]] /\ ids' \in [Caller -> [Pos -> SUBSET Row]]
      /\ now' \in Nat \ {0}
      /\ lock' \in [Caller -> [scanned : BOOLEAN, todo : SUBSET Row, held : SUBSET Row]]
      /\ \A d \in Caller : d # c => del'[d] = del[d] /\ clr'[d] = clr[d]
  <2>1. CASE Query(c)
    BY <1>1, <1>2, <2>1 DEF Query, txn, TypeOK
  <2>2. CASE Delete(c)
    BY <1>1, <2>2, LockTypes DEF Delete, TypeOK
  <2>3. CASE Unlink(c)
    <3>1. \A r \in Taken(c) : <<r, Stmt(c).col>> \in Row \X Col
      <4>1. TAKE r \in Taken(c)
      <4>2. TypeOf[r] = Stmt(c).type /\ Stmt(c).kind # "self" /\ r \in Row
        BY <1>1, <2>3 DEF Unlink, AtStmt, Selected
      <4>3. Stmt(c).col \in Col
        BY <1>1, <4>2, Parameters DEF Stmt
      <4>4. QED
        BY <4>2, <4>3
    <3>2. QED
      BY <2>3, <3>1, LockTypes DEF Unlink, TypeOK
  <2>4. CASE SoftDelete(c)
    BY <1>1, <2>4, LockTypes DEF SoftDelete, TypeOK
  <2>5. QED
    BY <1>3, <2>1, <2>2, <2>3, <2>4
<1>8. TypeOK'
  BY <1>4, <1>6, <1>7 DEF TypeOK
<1>9. Control'
  BY <1>1, <1>4, <1>6, <1>7 DEF Control
<1>10. QED
  BY <1>8, <1>9

\* The ends of a call, and other clients.
LEMMA ReturnTypes ==
    ASSUME TypeInv, NEW c \in Caller, ReturnOk(c) \/ ReturnError(c)
    PROVE  TypeInv'
<1> USE DEF TypeInv
<1>1. PICK res \in {"ok", "err"} : Return(c, res)
  BY DEF ReturnOk, ReturnError
<1>2. UNCHANGED <<store, used, now, txn, own, call>> /\ own[c] = "app"
  BY DEF ReturnOk, ReturnError
<1>3. 1 \in DOMAIN Program[call[c].root]
  BY ProgramShape DEF TypeOK
<1>4. TypeOK'
  BY <1>1, <1>2 DEF Return, Goto, Answer, store, txn, TypeOK, States
<1>5. Control'
  BY <1>1, <1>2, <1>3 DEF Return, Goto, Answer, store, txn, TypeOK, Control
<1>6. QED
  BY <1>4, <1>5

LEMMA OtherTypes == TypeInv /\ OtherClient => TypeInv'
<1> USE DEF TypeInv
<1> SUFFICES ASSUME TypeInv, OtherClient PROVE TypeInv'
  OBVIOUS
<1>1. CASE \E r \in Row : Insert(r)
  <2>1. TypeOK'
    BY <1>1 DEF Insert, txn, TypeOK
  <2>2. Control'
    BY <1>1 DEF Insert, txn, Control
  <2>3. QED
    BY <2>1, <2>2
<1>2. CASE \E m \in Moves : Move(m[1], m[2], m[3])
  <2>1. PICK m \in Moves : Move(m[1], m[2], m[3])
    BY <1>2
  <2>2. m[1] \in Row /\ m[2] \in Col /\ m[3] \in Row
    BY Parameters
  <2>3. fk' \in [Row -> [Col -> Row \cup {Nil}]]
    BY <2>1, <2>2 DEF Move, TypeOK
  <2>4. TypeOK'
    BY <2>1, <2>3 DEF Move, txn, TypeOK
  <2>5. Control'
    BY <2>1 DEF Move, txn, Control
  <2>6. QED
    BY <2>4, <2>5
<1>3. QED
  BY <1>1, <1>2 DEF OtherClient

LEMMA NextTypeInv == TypeInv /\ [Next]_vars => TypeInv'
<1> SUFFICES ASSUME TypeInv, [Next]_vars PROVE TypeInv'
  OBVIOUS
<1>1. CASE UNCHANGED vars
  BY <1>1 DEF vars, TypeInv, TypeOK, Control
<1>2. CASE OtherClient
  BY <1>2, OtherTypes
<1>3. ASSUME NEW c \in Caller, NewCall(c) \/ EmptyBatch(c) \/ CallStep(c) \/ AppStep(c) \/ Crash(c)
      PROVE  TypeInv'
  <2>1. CASE NewCall(c) \/ EmptyBatch(c) \/ StartTx(c) \/ StartTxFails(c) \/ AppBegin(c)
    BY <2>1, StartTypes
  <2>2. CASE PreHook(c) \/ PreHookFails(c) \/ PostHook(c) \/ PostHookFails(c)
    BY <2>2, HookTypes DEF PreHook, PreHookFails, PostHook, PostHookFails
  <2>3. CASE Query(c) \/ Delete(c) \/ Unlink(c) \/ SoftDelete(c) \/ StatementFails(c)
    BY <2>3, StatementTypes
  <2>8. CASE Scan(c) \/ LockRow(c)
    BY <2>8, LockingTypes
  <2>4. CASE Commit(c) \/ CommitLost(c) \/ CommitFails(c) \/ Rollback(c)
    BY <2>4, EndTxTypes DEF Commit, CommitLost, CommitFails, Rollback
  <2>5. CASE ReturnOk(c) \/ ReturnError(c)
    BY <2>5, ReturnTypes
  <2>6. CASE AppCommit(c) \/ AppRollback(c) \/ Crash(c)
    BY <2>6, EndTxTypes DEF AppCommit, AppRollback, Crash
  <2>7. QED
    BY <1>3, <2>1, <2>2, <2>3, <2>4, <2>5, <2>6, <2>8 DEF CallStep, AppStep
<1>4. QED
  BY <1>1, <1>2, <1>3 DEF Next

\* Every reachable state is well typed: no call runs past the end of its program,
\* and a row committed by anyone carries an id that was handed out for it.
THEOREM TypeCorrect == Spec => []TypeOK
<1>1. TypeInv => TypeOK
  BY DEF TypeInv
<1>2. QED
  BY <1>1, InitTypeInv, NextTypeInv, PTL DEF Spec

-----------------------------------------------------------------------------
(* No orphans.  NoOrphans says nothing of a transaction in progress, so it *)
(* is strengthened with what the transaction's own view satisfies and with *)
(* what the statements already executed have achieved.                     *)

Prog(c) == Program[call[c].root]

\* At most one transaction is open.
Exclusive == \A c, d \in Caller : own[c] # "none" /\ own[d] # "none" => c = d

\* Ids not yet handed out have their initial keys and no pending writes, and keys
\* refer to rows of the declared parent's type.
KeysKept ==
    /\ \A r \in Row \ used : fk[r] = Ref[r]
    /\ \A c \in Caller : clr[c] \subseteq used \X Col
    /\ \A r \in Row, d \in Policy : d.child = TypeOf[r] /\ fk[r][d.col] # Nil
          => TypeOf[fk[r][d.col]] = d.parent

\* NoOrphans in the view of every open transaction: it could commit now.
ViewWhole(c) ==
    \A r \in ViewLive(c), d \in Policy :
        d.child = TypeOf[r] /\ d.mode \in {"delete", "unlink"}
            => ViewFk(c, r, d.col) \in ViewLive(c) \cup {Nil}

ViewsWhole == \A c \in Caller : own[c] # "none" => ViewWhole(c)

\* Of the statements executed so far whose block is still open: a statement that
\* deletes or unlinks has left no row its predicate selects, one that stamps has
\* stamped every such row, and a query's answer still holds every such row.
Done(c, k) ==
    LET s == Prog(c)[k] IN
    /\ s.kind \in Covering /\ (s.src = 0 \/ ip[c] <= Prog(c)[s.src].end) => Selected(c, s) = {}
    /\ s.kind = "soft" /\ (s.src = 0 \/ ip[c] <= Prog(c)[s.src].end) =>
          \A r \in Selected(c, s) : soft[c][r] > 0
    /\ s.kind = "query" /\ ip[c] <= s.end => Selected(c, s) \subseteq ids[c][k]

Progress == \A c \in Caller : pc[c] = "ops" =>
               \A k \in DOMAIN Prog(c) : k < ip[c] => Done(c, k)

\* On a serializable database, where nobody waits for a lock.
Inv == Serializable /\ TypeInv /\ Exclusive /\ KeysKept /\ NoOrphans /\ ViewsWhole /\ Progress

LEMMA InitInv == Serializable /\ Init => Inv
<1> SUFFICES ASSUME Serializable, Init PROVE Inv
  OBVIOUS
<1>1. TypeInv
  BY InitTypeInv
<1>2. Exclusive /\ ViewsWhole /\ Progress
  BY DEF Init, Exclusive, ViewsWhole, Progress
<1>3. KeysKept
  BY KeysTyped, Parameters DEF Init, KeysKept
<1>4. NoOrphans
  BY StartWhole, KeysTyped, Parameters DEF Init, NoOrphans
<1>5. QED
  BY <1>1, <1>2, <1>3, <1>4 DEF Inv

\* A transaction with no writes sees what is committed.
LEMMA EmptyView ==
    ASSUME TypeInv, NEW c \in Caller, own[c] = "none"
    PROVE  /\ ViewLive(c) = live
           /\ \A r \in Row, col \in Col : ViewFk(c, r, col) = fk[r][col]
BY DEF ViewLive, ViewFk, TypeInv, Control

\* Steps that write nothing and begin, continue or abandon calls.
LEMMA ControlKeeps ==
    ASSUME Inv, TypeInv', Exclusive', UNCHANGED <<live, fk, used, ins, del, clr, soft>>,
           \A d \in Caller : pc'[d] = "ops" =>
              \/ ip'[d] = 1
              \/ /\ pc[d] = "ops" /\ ip'[d] = ip[d]
                 /\ call'[d] = call[d] /\ ids'[d] = ids[d]
    PROVE  Inv'
<1>1. KeysKept' /\ NoOrphans'
  BY DEF Inv, KeysKept, NoOrphans
<1>2. ViewsWhole'
  <2>1. SUFFICES ASSUME NEW d \in Caller PROVE ViewWhole(d)
    BY <2>1 DEF ViewsWhole, ViewWhole, ViewLive, ViewFk
  <2>2. CASE own[d] # "none"
    BY <2>2 DEF Inv, ViewsWhole
  <2>3. CASE own[d] = "none"
    <3>1. live \subseteq Row /\ TypeInv /\ NoOrphans
      BY DEF Inv, TypeInv, TypeOK
    <3>2. \A r \in Row, e \in Policy : e.child = TypeOf[r] => e.col \in Col
      BY KeysTyped
    <3>3. QED
      BY <2>3, <3>1, <3>2, EmptyView DEF NoOrphans, ViewWhole
  <2>4. QED
    BY <2>2, <2>3
<1>3. Progress'
  <2>1. SUFFICES ASSUME NEW d \in Caller, pc'[d] = "ops", NEW k \in DOMAIN Prog(d)', k < ip'[d]
                 PROVE  Done(d, k)'
    BY <2>1 DEF Progress
  <2>2. k \in Nat \ {0}
    BY ProgramShape DEF Prog, TypeInv, TypeOK
  <2>3. /\ pc[d] = "ops" /\ ip'[d] = ip[d]
        /\ call'[d] = call[d] /\ ids'[d] = ids[d]
    BY <2>1, <2>2
  <2>4. Done(d, k)
    BY <2>1, <2>3 DEF Inv, Progress, Prog
  <2>5. Prog(d)' = Prog(d)
    BY <2>3 DEF Prog
  <2>6. \A s : Selected(d, s)' = Selected(d, s)
    BY <2>3 DEF Selected, ViewLive, ViewFk, Arg
  <2>7. QED
    BY <2>3, <2>4, <2>5, <2>6 DEF Done
<1>4. QED
  BY <1>1, <1>2, <1>3 DEF Inv

LEMMA ControlSteps ==
    ASSUME Serializable, Inv, TypeInv', NEW c \in Caller,
           \/ NewCall(c) \/ EmptyBatch(c) \/ StartTx(c) \/ StartTxFails(c) \/ AppBegin(c)
           \/ StatementFails(c) \/ ReturnOk(c) \/ ReturnError(c)
    PROVE  Inv'
<1>1. UNCHANGED <<live, fk, used, ins, del, clr, soft>>
  BY DEF NewCall, Call, EmptyBatch, StartTx, StartTxFails, AppBegin, StatementFails, ReturnOk,
         ReturnError, store, txn
<1>2. Exclusive'
  <2>1. CASE StartTx(c) \/ AppBegin(c)
    <3>1. Serializable => Alone(c)
      BY <2>1 DEF StartTx, AppBegin
    <3>2. Alone(c)
      BY <3>1
    <3>3. \A d \in Caller : d # c => own'[d] = "none"
      BY <2>1, <3>2 DEF StartTx, AppBegin, Alone, Inv, TypeInv, TypeOK
    <3>4. QED
      BY <3>3 DEF Exclusive
  <2>2. CASE ~(StartTx(c) \/ AppBegin(c))
    BY <2>2 DEF NewCall, Call, EmptyBatch, StartTxFails, StatementFails, ReturnOk, ReturnError,
                Exclusive, Inv
  <2>3. QED
    BY <2>1, <2>2
<1>3. ASSUME NEW d \in Caller, pc'[d] = "ops"
      PROVE  \/ ip'[d] = 1
             \/ /\ pc[d] = "ops" /\ ip'[d] = ip[d]
                /\ call'[d] = call[d] /\ ids'[d] = ids[d]
  <2>1. TypeOK /\ Control
    BY DEF Inv, TypeInv
  <2>2. CASE d # c
    BY <1>3, <2>1, <2>2 DEF NewCall, Call, EmptyBatch, StartTx, StartTxFails, AppBegin, StatementFails,
         ReturnOk, ReturnError, Return, Goto, TypeOK
  <2>3. CASE d = c
    <3>1. (ip[c] = 1 /\ ip'[c] = ip[c]) \/ pc[c] = "ops" \/ ReturnOk(c) \/ ReturnError(c)
      BY <2>1 DEF NewCall, Call, EmptyBatch, StartTx, StartTxFails, AppBegin, StatementFails,
                  Control
    <3>2. pc[c] = "ops" => StatementFails(c) \/ ReturnOk(c) \/ ReturnError(c)
      BY DEF NewCall, Call, EmptyBatch, StartTx, StartTxFails, AppBegin
    <3>3. ~(StatementFails(c) \/ ReturnOk(c) \/ ReturnError(c))
      BY <1>3, <2>1, <2>3 DEF StatementFails, ReturnOk, ReturnError, Return, Goto, TypeOK
    <3>4. QED
      BY <2>3, <3>1, <3>2, <3>3
  <2>4. QED
    BY <2>2, <2>3
<1>4. QED
  BY <1>1, <1>2, <1>3, ControlKeeps

\* When one transaction is open, every other caller is idle or about to begin.
LEMMA OthersWait ==
    ASSUME Inv, NEW c \in Caller, own[c] # "none", NEW d \in Caller, d # c
    PROVE  own[d] = "none" /\ pc[d] \in {"idle", "begin"}
BY DEF Inv, Exclusive, TypeInv, Control

\* The end of a transaction: a commit publishes a view without orphans.
LEMMA EndKeeps ==
    ASSUME Inv, TypeInv', NEW c \in Caller, own[c] # "none", NEW res, EndTx(c, res),
           Apply(c) \/ UNCHANGED store
    PROVE  Inv'
<1>1. \A d \in Caller : own'[d] = "none" /\ pc'[d] \in {"idle", "begin"}
  BY OthersWait DEF EndTx, Return, Goto, Inv, TypeInv, TypeOK
<1>2. Exclusive' /\ ViewsWhole' /\ Progress'
  BY <1>1 DEF Exclusive, ViewsWhole, Progress
<1>3. \A d \in Caller : clr'[d] \subseteq used' \X Col
  BY DEF EndTx, Discard, Inv, KeysKept, TypeInv, TypeOK
<1>4. CASE UNCHANGED store
  <2>1. KeysKept' /\ NoOrphans'
    BY <1>3, <1>4 DEF store, EndTx, Inv, KeysKept, NoOrphans
  <2>2. QED
    BY <1>2, <2>1 DEF Inv
<1>5. CASE Apply(c)
  <2>1. live' = ViewLive(c) /\ ViewLive(c) \subseteq Row /\ used' = used
    BY <1>5, SelectedRows DEF Apply, EndTx, Inv, TypeInv
  <2>2. \A r \in Row, col \in Col : fk'[r][col] = ViewFk(c, r, col)
    BY <1>5 DEF Apply
  <2>3. NoOrphans'
    <3>1. ViewWhole(c)
      BY DEF Inv, ViewsWhole
    <3>2. QED
      BY <2>1, <2>2, <3>1, KeysTyped DEF NoOrphans, ViewWhole
  <2>4. KeysKept'
    <3>1. ASSUME NEW r \in Row \ used PROVE fk'[r] = Ref[r]
      <4>1. \A col \in Col : fk'[r][col] = fk[r][col]
        BY <2>2 DEF ViewFk, Inv, KeysKept
      <4>2. fk' \in [Row -> [Col -> Row \cup {Nil}]] /\ fk \in [Row -> [Col -> Row \cup {Nil}]]
        BY DEF Inv, TypeInv, TypeOK
      <4>3. fk'[r] = fk[r]
        BY <4>1, <4>2
      <4>4. QED
        BY <4>3 DEF Inv, KeysKept
    <3>2. ASSUME NEW r \in Row, NEW d \in Policy, d.child = TypeOf[r], fk'[r][d.col] # Nil
          PROVE  TypeOf[fk'[r][d.col]] = d.parent
      <4>1. d.col \in Col
        BY <3>2, KeysTyped
      <4>2. fk'[r][d.col] = fk[r][d.col]
        BY <2>2, <3>2, <4>1 DEF ViewFk
      <4>3. QED
        BY <3>2, <4>2 DEF Inv, KeysKept
    <3>3. QED
      BY <1>3, <2>1, <3>1, <3>2 DEF KeysKept
  <2>5. QED
    BY <1>2, <2>3, <2>4 DEF Inv
<1>6. QED
  BY <1>4, <1>5

\* A hook's row is new and hangs on rows its transaction sees.
LEMMA HookKeeps ==
    ASSUME Inv, TypeInv', NEW c \in Caller, NEW from \in {"pre", "post"},
           NEW to \in {"ops", "finish", "abort"}, to = "ops" => from = "pre", Hook(c, from, to)
    PROVE  Inv'
<1>1. own[c] # "none" /\ TypeInv
  BY DEF Hook, Inv, TypeInv, Control
<1>2. Exclusive'
  BY DEF Hook, Inv, Exclusive
<1>3. Progress'
  <2>1. ASSUME NEW d \in Caller, pc'[d] = "ops" PROVE ip'[d] = 1
    <3>1. CASE d = c
      BY <2>1, <3>1 DEF Hook, Goto, Inv, TypeInv, TypeOK, Control
    <3>2. CASE d # c
      <4>1. pc[d] \in {"idle", "begin"}
        BY <1>1, <3>2, OthersWait DEF Inv
      <4>2. pc'[d] = pc[d]
        BY <3>2 DEF Hook, Goto, Inv, TypeInv, TypeOK
      <4>3. QED
        BY <2>1, <4>1, <4>2
    <3>3. QED
      BY <3>1, <3>2
  <2>2. \A d \in Caller : \A k \in DOMAIN Prog(d)' : k \in Nat \ {0}
    BY ProgramShape DEF Prog, TypeInv, TypeOK
  <2>3. QED
    BY <2>1, <2>2 DEF Progress
<1>4. NoOrphans'
  BY DEF Hook, store, Inv, NoOrphans
<1>5. KeysKept'
  BY DEF Hook, HookWrites, store, Inv, KeysKept
<1>6. ViewsWhole'
  <2>1. SUFFICES ViewWhole(c)'
    BY <1>1, OthersWait DEF ViewsWhole, Hook
  <2>2. ViewWhole(c)
    BY <1>1 DEF Inv, ViewsWhole
  <2>3. CASE UNCHANGED <<ins, used>>
    BY <2>2, <2>3 DEF Hook, store, ViewWhole, ViewLive, ViewFk
  <2>4. ASSUME NEW r \in HookRows \ used, RefsIn(r, ViewLive(c)), ins' = [ins EXCEPT ![c] = @ \cup {r}]
        PROVE  ViewWhole(c)'
    <3>1. ViewLive(c) \subseteq ViewLive(c)' /\ ViewLive(c)' \subseteq ViewLive(c) \cup {r}
      BY <2>4 DEF Hook, store, ViewLive, Inv, TypeInv, TypeOK
    <3>2. \A x \in Row, col \in Col : ViewFk(c, x, col)' = ViewFk(c, x, col)
      BY DEF Hook, store, ViewFk
    <3>3. \A col \in Col : ViewFk(c, r, col) \in ViewLive(c) \cup {Nil}
      BY <2>4, Parameters DEF RefsIn, ViewFk, Inv, KeysKept
    <3>4. ViewLive(c) \subseteq Row /\ r \in Row
      BY <1>1, <2>4, SelectedRows, Parameters DEF TypeInv
    <3>5. QED
      BY <2>2, <3>1, <3>2, <3>3, <3>4, KeysTyped DEF ViewWhole
  <2>5. QED
    BY <2>3, <2>4 DEF Hook, HookWrites
<1>7. QED
  BY <1>2, <1>3, <1>4, <1>5, <1>6 DEF Inv

\* Other clients write only when no transaction is open, and only whole rows.
LEMMA OtherKeeps ==
    ASSUME Serializable, Inv, TypeInv', OtherClient
    PROVE  Inv'
<1>1. (\A d \in Caller : own[d] = "none") /\ UNCHANGED <<clr, own, pc, ip, ids, call>>
  <2>1. Quiet /\ UNCHANGED <<clr, own, pc, ip, ids, call>>
    BY DEF OtherClient, Insert, Move, txn
  <2>2. QED
    BY <2>1 DEF Quiet
<1>2. \A d \in Caller : pc[d] \in {"idle", "begin"}
  BY <1>1 DEF Inv, TypeInv, Control
<1>3. Exclusive' /\ ViewsWhole' /\ Progress'
  BY <1>1, <1>2 DEF Exclusive, ViewsWhole, Progress
<1>4. ASSUME NEW r \in Row, Insert(r) PROVE NoOrphans' /\ KeysKept'
  <2>1. \A col \in Col : fk[r][col] \in live \cup {Nil}
    BY <1>4 DEF Insert, RefsIn, Inv, KeysKept
  <2>2. NoOrphans'
    BY <1>4, <2>1, KeysTyped DEF Insert, Inv, NoOrphans
  <2>3. KeysKept'
    BY <1>1, <1>4 DEF Insert, Inv, KeysKept
  <2>4. QED
    BY <2>2, <2>3
<1>5. ASSUME NEW m \in Moves, Move(m[1], m[2], m[3]) PROVE NoOrphans' /\ KeysKept'
  <2>1. m[1] \in Row /\ m[2] \in Col /\ m[3] \in live /\ m[1] \in used
    BY <1>5, Parameters DEF Move, Inv, TypeInv, TypeOK
  <2>2. \A r \in Row, col \in Col :
           fk'[r][col] = IF r = m[1] /\ col = m[2] THEN m[3] ELSE fk[r][col]
    BY <1>5, <2>1 DEF Move, Inv, TypeInv, TypeOK
  <2>3. \A r \in Row : r # m[1] => fk'[r] = fk[r]
    BY <1>5, <2>1 DEF Move, Inv, TypeInv, TypeOK
  <2>4. NoOrphans'
    BY <1>5, <2>1, <2>2, KeysTyped DEF Move, Inv, TypeInv, TypeOK, NoOrphans
  <2>5. KeysKept'
    <3>1. \A r \in Row \ used' : fk'[r] = Ref[r]
      BY <1>5, <2>1, <2>3 DEF Move, Inv, KeysKept
    <3>2. ASSUME NEW r \in Row, NEW d \in Policy, d.child = TypeOf[r], fk'[r][d.col] # Nil
          PROVE  TypeOf[fk'[r][d.col]] = d.parent
      BY <2>1, <2>2, <3>2, KeysTyped DEF Inv, KeysKept
    <3>3. \A d \in Caller : clr'[d] \subseteq used' \X Col
      BY <1>1, <1>5 DEF Move, Inv, KeysKept
    <3>4. QED
      BY <3>1, <3>2, <3>3 DEF KeysKept
  <2>6. QED
    BY <2>4, <2>5
<1>6. QED
  BY <1>3, <1>4, <1>5 DEF OtherClient, Inv

\* A statement reads a variable only after the query that fills it, so what it
\* compares keys with are rows.
LEMMA ArgRows ==
    ASSUME TypeInv, NEW c \in Caller, NEW k \in DOMAIN Prog(c)
    PROVE  /\ Prog(c)[k] \in Statements /\ k \in Nat \ {0} /\ k \in Pos
           /\ Prog(c)[k].src # 0 => /\ Prog(c)[k].src \in DOMAIN Prog(c) /\ Prog(c)[k].src < k
                                    /\ k < Prog(c)[Prog(c)[k].src].end
           /\ Nil \notin Arg(c, Prog(c)[k].src)
<1> DEFINE P == Prog(c)
<1>1. call[c].root \in Root /\ call[c].arg \subseteq Row
  BY DEF TypeInv, TypeOK
<1>2. P[k] \in Statements /\ k \in Nat \ {0} /\ DOMAIN P = 1 .. Len(P) /\ Len(P) \in Nat /\ k \in Pos
  BY <1>1, ProgramShape DEF Prog, Pos
<1>3. P[k].src \in Nat
  BY <1>2 DEF Statements
<1>4. P[k].src # 0 => P[k].src < k /\ k < P[P[k].src].end
  BY <1>1, ProgramScoped DEF Prog
<1>5. P[k].src # 0 => P[k].src \in DOMAIN P
  BY <1>2, <1>3, <1>4
<1>6. P[k].src # 0 => P[k].src \in Pos
  BY <1>1, <1>5 DEF Pos, Prog
<1>7. Arg(c, P[k].src) \subseteq Row
  BY <1>1, <1>6 DEF Arg, TypeInv, TypeOK
<1>8. QED
  BY <1>2, <1>4, <1>5, <1>7, Parameters

\* As a transaction deletes rows and unlinks keys, predicates select fewer rows.
LEMMA SelectedShrinks ==
    ASSUME NEW c \in Caller, NEW s, UNCHANGED call,
           ViewLive(c)' \subseteq ViewLive(c),
           \A r \in ViewLive(c)' : ViewFk(c, r, s.col)' \in {Nil, ViewFk(c, r, s.col)},
           Arg(c, s.src)' = Arg(c, s.src), Nil \notin Arg(c, s.src)
    PROVE  Selected(c, s)' \subseteq Selected(c, s)
BY DEF Selected

\* A statement that writes: what was done stays done, and now so is this one.
LEMMA WriteProgress ==
    ASSUME Inv, TypeInv', NEW c \in Caller, pc[c] = "ops", own[c] # "none",
           UNCHANGED <<live, fk, ins, own, ids, call>>,
           NEW s, s = Stmt(c), s.kind # "query", Advance(c, ip[c] + 1),
           ViewLive(c)' \subseteq ViewLive(c),
           \A r \in Row : \A col : ViewFk(c, r, col)' \in {Nil, ViewFk(c, r, col)},
           s.kind \in Covering => Selected(c, s)' = {},
           s.kind = "soft" => \A r \in Selected(c, s)' : soft'[c][r] > 0,
           \A r \in Row : soft[c][r] > 0 => soft'[c][r] > 0
    PROVE  Progress'
<1>1. TypeInv /\ ViewLive(c) \subseteq Row
  BY SelectedRows DEF Inv, TypeInv
<1>2. SUFFICES ASSUME pc'[c] = "ops", NEW k \in DOMAIN Prog(c), k < ip'[c] PROVE Done(c, k)'
  <2>1. ASSUME NEW d \in Caller, d # c PROVE pc'[d] \in {"idle", "begin"}
    <3>1. pc'[d] = pc[d]
      BY <1>1, <2>1 DEF Advance, Goto, TypeInv, TypeOK
    <3>2. QED
      BY <2>1, <3>1, OthersWait
  <2>2. QED
    BY <1>2, <2>1 DEF Progress, Prog
<1>3. ip[c] \in Nat \ {0} /\ ip'[c] = ip[c] + 1 /\ k \in Nat \ {0}
  <2>1. ip'[c] = ip[c] + 1
    BY <1>1, <1>2 DEF Advance, Goto, TypeInv, TypeOK
  <2>2. QED
    BY <1>1, <2>1, ArgRows DEF TypeInv, TypeOK
<1>4. PICK t : t = Prog(c)[k]
  OBVIOUS
<1>5. Prog(c)' = Prog(c)
  BY DEF Prog
<1>6. Selected(c, t)' \subseteq Selected(c, t)
  <2>1. Arg(c, t.src)' = Arg(c, t.src)
    BY DEF Arg
  <2>2. Nil \notin Arg(c, t.src)
    BY <1>1, <1>4, ArgRows
  <2>3. \A r \in ViewLive(c)' : ViewFk(c, r, t.col)' \in {Nil, ViewFk(c, r, t.col)}
    BY <1>1
  <2>4. QED
    BY <2>1, <2>2, <2>3, SelectedShrinks
<1>7. CASE k = ip[c]
  <2>1. t = s
    BY <1>4, <1>7 DEF Stmt, Prog
  <2>2. QED
    BY <1>4, <1>5, <2>1 DEF Done
<1>8. CASE k < ip[c]
  <2>1. Done(c, k)
    BY <1>8 DEF Inv, Progress, Prog
  <2>2. t.end \in Nat
    BY <1>1, <1>4, ArgRows DEF Statements
  <2>3. t.src # 0 => Prog(c)[t.src].end \in Nat
    BY <1>1, <1>4, ArgRows DEF Statements
  <2>4. Selected(c, t) \subseteq Row
    BY <1>1, SelectedRows DEF TypeInv
  <2>5. QED
    BY <1>3, <1>4, <1>5, <1>6, <2>1, <2>2, <2>3, <2>4 DEF Done
<1>9. QED
  BY <1>2, <1>3, <1>7, <1>8

\* Deleting what a statement selects orphans no row: a row that hangs on a selected
\* row would have been deleted or unlinked before.
LEMMA DeleteWhole ==
    ASSUME Inv, NEW c \in Caller, AtStmt(c, {"bulk", "drop", "self"}), own[c] # "none",
           NEW r \in ViewLive(c), NEW d \in Policy, d.child = TypeOf[r], d.mode \in {"delete", "unlink"}
    PROVE  ViewFk(c, r, d.col) \notin Selected(c, Stmt(c))
<1> DEFINE P == Prog(c)
<1> DEFINE i == ip[c]
<1> DEFINE p == ViewFk(c, r, d.col)
<1>1. SUFFICES ASSUME p \in Selected(c, P[i]) PROVE FALSE
  BY DEF Stmt, Prog
<1>2. /\ TypeInv /\ call[c].root \in Root /\ i \in DOMAIN P /\ pc[c] = "ops"
      /\ r \in Row /\ p \in Row /\ p # Nil
  <2>1. /\ TypeInv /\ TypeOK /\ call[c].root \in Root /\ i \in DOMAIN P /\ pc[c] = "ops"
    BY DEF Inv, TypeInv, TypeOK, Control, AtStmt, Prog
  <2>2. p \in ViewLive(c) /\ r \in Row /\ p \in Row
    BY <1>1, <2>1, SelectedRows
  <2>3. QED
    BY <2>1, <2>2, Parameters
<1>3. P[i].kind \in {"bulk", "drop", "self"} /\ TypeOf[p] = P[i].type /\ p \in ViewLive(c)
  BY <1>1 DEF AtStmt, Stmt, Selected, Prog
<1>4. d.parent = P[i].type
  BY <1>2, <1>3 DEF ViewFk, Inv, KeysKept
<1>5. PICK k \in DOMAIN P :
        /\ k < i /\ P[k].kind \in Covering /\ P[k].type = d.child /\ P[k].col = d.col
        /\ \/ P[i].kind = "self" /\ P[k].src = 0
           \/ P[i].kind = "drop" /\ P[k].src # 0 /\ P[P[k].src].end = i
  BY <1>2, <1>3, <1>4, ProgramCovers DEF Prog, Dealing
<1>a. i \in Nat /\ \A j \in DOMAIN P : j < i => Done(c, j)
  BY <1>2 DEF Inv, Progress, Prog, TypeInv, TypeOK
<1>6. i \in Nat /\ Done(c, k)
  BY <1>5, <1>a
<1>7. Selected(c, P[k]) = {}
  BY <1>5, <1>6 DEF Done
<1>8. SUFFICES p \in Arg(c, P[k].src)
  BY <1>5, <1>7 DEF Selected, Covering
<1>9. CASE P[i].kind = "self" /\ P[k].src = 0
  BY <1>1, <1>9 DEF Selected, Arg
<1>10. CASE P[i].kind = "drop" /\ P[k].src # 0 /\ P[P[k].src].end = i
  <2> DEFINE q == P[k].src
  <2>1. q \in DOMAIN P /\ q < k /\ k \in Nat /\ q \in Nat
    BY <1>2, <1>10, ArgRows
  <2>2. P[q].kind = "query"
    BY <1>2, <1>10, ReadsQuery DEF Prog
  <2>3. P[i] = [P[q] EXCEPT !.kind = "drop"]
    <3>1. P[P[q].end] = [P[q] EXCEPT !.kind = "drop"]
      BY <1>2, <2>1, <2>2, QueryEnds DEF Prog
    <3>2. QED
      BY <1>10, <3>1
  <2>4. Done(c, q)
    BY <1>5, <1>a, <2>1
  <2>5. Selected(c, P[q]) \subseteq ids[c][q]
    BY <1>6, <1>10, <2>2, <2>4 DEF Done
  <2>6. P[q] \in Statements
    BY <1>2, <2>1, ArgRows
  <2>7. P[i].type = P[q].type /\ P[i].col = P[q].col /\ P[i].src = P[q].src
    BY <2>3, <2>6 DEF Statements
  <2>8. Selected(c, P[i]) = Selected(c, P[q])
    BY <1>10, <2>2, <2>7 DEF Selected
  <2>9. QED
    BY <1>1, <1>10, <2>5, <2>8 DEF Arg
<1>11. QED
  BY <1>5, <1>9, <1>10

\* How the blocks of the program at hand nest.
LEMMA Blocks ==
    ASSUME TypeInv, NEW c \in Caller, NEW i \in DOMAIN Prog(c)
    PROVE  /\ Prog(c)[i].src # 0 => Prog(c)[Prog(c)[i].src].kind = "query"
           /\ Prog(c)[i].kind = "query" =>
                 /\ i < Prog(c)[i].end
                 /\ Prog(c)[Prog(c)[i].end] = [Prog(c)[i] EXCEPT !.kind = "drop"]
                 /\ \A k \in DOMAIN Prog(c) : i < k /\ k < Prog(c)[i].end =>
                       /\ Prog(c)[k].src >= i
                       /\ Prog(c)[k].kind = "query" => Prog(c)[k].end < Prog(c)[i].end
<1>1. call[c].root \in Root
  BY DEF TypeInv, TypeOK
<1>2. QED
  BY <1>1, ProgramScoped DEF Prog

\* A query's answer holds every row it selects; when there is none, nothing of its
\* block is left open.
LEMMA QueryProgress ==
    ASSUME Inv, TypeInv', NEW c \in Caller, Query(c)
    PROVE  Progress'
<1>1. PICK i : i = ip[c]
  OBVIOUS
<1>2. PICK s : s = Prog(c)[i]
  OBVIOUS
<1>3. PICK found : found = Selected(c, s)
  OBVIOUS
<1>4. /\ TypeInv /\ pc[c] = "ops" /\ own[c] # "none" /\ s.kind = "query"
      /\ i \in DOMAIN Prog(c) /\ Stmt(c) = s
      /\ ids' = [ids EXCEPT ![c][i] = found]
      /\ Advance(c, IF found = {} THEN s.end + 1 ELSE i + 1)
      /\ UNCHANGED <<store, used, now, txn, own, call, result>>
  BY <1>1, <1>2, <1>3 DEF Query, AtStmt, Stmt, Prog, Inv, TypeInv, TypeOK, Control
<1>5. SUFFICES ASSUME pc'[c] = "ops", NEW k \in DOMAIN Prog(c), k < ip'[c] PROVE Done(c, k)'
  <2>1. ASSUME NEW d \in Caller, d # c PROVE pc'[d] \in {"idle", "begin"}
    <3>1. pc'[d] = pc[d]
      BY <1>4, <2>1 DEF Advance, Goto, TypeInv, TypeOK
    <3>2. QED
      BY <1>4, <2>1, <3>1, OthersWait
  <2>2. QED
    BY <1>4, <1>5, <2>1 DEF Progress, Prog
<1>6. /\ i \in Nat /\ k \in Nat \ {0} /\ s.end \in Nat /\ i < s.end
      /\ ip'[c] = IF found = {} THEN s.end + 1 ELSE i + 1
      /\ Prog(c)[s.end] = [s EXCEPT !.kind = "drop"]
      /\ s.src < i /\ s \in Statements
  <2>1. s \in Statements /\ i \in Nat \ {0} /\ k \in Nat \ {0}
    BY <1>2, <1>4, <1>5, ArgRows
  <2>2. i < s.end /\ Prog(c)[s.end] = [s EXCEPT !.kind = "drop"]
    BY <1>2, <1>4, Blocks
  <2>3. ip'[c] = IF found = {} THEN s.end + 1 ELSE i + 1
    BY <1>4, <1>5 DEF Advance, Goto, TypeInv, TypeOK
  <2>4. s.src < i
    BY <1>2, <1>4, <2>1, ArgRows
  <2>5. QED
    BY <2>1, <2>2, <2>3, <2>4 DEF Statements
<1>7. PICK t : t = Prog(c)[k]
  OBVIOUS
<1>8. t \in Statements /\ t.end \in Nat /\ t.src \in Nat
      /\ (t.src # 0 => t.src \in DOMAIN Prog(c) /\ t.src < k /\ k < Prog(c)[t.src].end)
  BY <1>4, <1>5, <1>7, ArgRows DEF Statements
<1>9. Prog(c)' = Prog(c)
  BY <1>4 DEF Prog
<1>10. ASSUME NEW x, x.src # i PROVE Selected(c, x)' = Selected(c, x)
  <2>1. Arg(c, x.src)' = Arg(c, x.src)
    BY <1>4, <1>10 DEF Arg, TypeInv, TypeOK
  <2>2. ViewLive(c)' = ViewLive(c) /\ \A r, col : ViewFk(c, r, col)' = ViewFk(c, r, col)
    BY <1>4 DEF store, txn, ViewLive, ViewFk
  <2>3. QED
    BY <1>4, <2>1, <2>2 DEF Selected
<1>11. i \in Pos /\ ids'[c][i] = found /\ \A q \in Pos : q # i => ids'[c][q] = ids[c][q]
  BY <1>4, ArgRows DEF TypeInv, TypeOK
<1>12. CASE k < i
  <2>1. Done(c, k)
    BY <1>1, <1>4, <1>5, <1>12 DEF Inv, Progress
  <2>2. Selected(c, t)' = Selected(c, t)
    BY <1>6, <1>8, <1>10, <1>12
  <2>3. ids'[c][k] = ids[c][k]
    BY <1>4, <1>5, <1>6, <1>11, <1>12, ArgRows
  <2>4. ip'[c] > i
    BY <1>6
  <2>5. t.src # 0 => Prog(c)[t.src].end \in Nat
    BY <1>4, <1>8, ArgRows DEF Statements
  <2>6. ip'[c] \in Nat
    BY <1>6
  <2>7. soft' = soft
    BY <1>4 DEF txn
  <2>8. QED
    BY <1>1, <1>6, <1>7, <1>8, <1>9, <2>1, <2>2, <2>3, <2>4, <2>5, <2>6, <2>7 DEF Done
<1>13. CASE k = i
  <2>1. t = s /\ Selected(c, t)' = found
    BY <1>2, <1>3, <1>6, <1>7, <1>10, <1>13
  <2>2. QED
    BY <1>4, <1>7, <1>9, <1>11, <1>13, <2>1 DEF Done, Covering
<1>14. CASE i < k
  <2>1. found = {} /\ ip'[c] = s.end + 1 /\ k <= s.end
    BY <1>5, <1>6, <1>14
  <2>2. CASE k = s.end
    <3>1. t = [s EXCEPT !.kind = "drop"]
      BY <1>6, <1>7, <2>2
    <3>2. t.type = s.type /\ t.col = s.col /\ t.src = s.src /\ t.kind = "drop"
      BY <1>6, <3>1 DEF Statements
    <3>3. Selected(c, t)' = Selected(c, t) /\ Selected(c, t) = Selected(c, s)
      BY <1>4, <1>6, <1>10, <3>2 DEF Selected
    <3>4. QED
      BY <1>3, <1>7, <1>9, <2>1, <3>2, <3>3 DEF Done
  <2>3. CASE k < s.end
    <3>1. t.src >= i /\ (t.kind = "query" => t.end < s.end)
      BY <1>2, <1>4, <1>5, <1>7, <1>14, <2>3, Blocks
    <3>2. PICK q : q = t.src
      OBVIOUS
    <3>3. q \in DOMAIN Prog(c) /\ q < k /\ i <= q /\ q \in Nat /\ q # 0
      BY <1>4, <1>6, <1>8, <3>1, <3>2, ArgRows
    <3>4. Prog(c)[q].kind = "query" /\ Prog(c)[q].end \in Nat
      <4>1. Prog(c)[q].kind = "query"
        BY <1>4, <1>5, <1>7, <3>2, <3>3, Blocks
      <4>2. Prog(c)[q] \in Statements
        BY <1>4, <3>3, ArgRows
      <4>3. QED
        BY <4>1, <4>2 DEF Statements
    <3>5. Prog(c)[q].end <= s.end
      <4>1. CASE q = i
        BY <1>2, <1>6, <4>1
      <4>2. CASE i < q
        <5>1. q < s.end
          BY <1>6, <2>3, <3>3
        <5>2. Prog(c)[q].end < s.end
          BY ZenonT(30), <1>2, <1>4, <3>3, <3>4, <4>2, <5>1, Blocks
        <5>3. QED
          BY <1>6, <3>4, <5>2
      <4>3. QED
        BY <1>6, <3>3, <4>1, <4>2
    <3>6. ~(ip'[c] <= Prog(c)[q].end) /\ (t.kind = "query" => ~(ip'[c] <= t.end))
      BY <1>6, <1>8, <2>1, <3>1, <3>4, <3>5
    <3>7. QED
      BY <1>7, <1>9, <3>2, <3>3, <3>6 DEF Done, Covering
  <2>4. QED
    BY <1>6, <2>1, <2>2, <2>3
<1>15. QED
  BY <1>6, <1>12, <1>13, <1>14

\* The statements.
LEMMA StatementKeeps ==
    ASSUME Inv, TypeInv', NEW c \in Caller, Query(c) \/ Delete(c) \/ Unlink(c) \/ SoftDelete(c)
    PROVE  Inv'
<1>1. PICK s : s = Stmt(c)
  OBVIOUS
<1>2. /\ TypeInv /\ pc[c] = "ops" /\ own[c] # "none" /\ s = Prog(c)[ip[c]]
      /\ ip[c] \in DOMAIN Prog(c) /\ s \in Statements
      /\ Nil \notin Arg(c, s.src) /\ Selected(c, s) \subseteq Row /\ Taken(c) = Selected(c, s)
  <2>1. pc[c] = "ops" /\ TypeInv /\ Serializable
    BY DEF Query, Delete, Unlink, SoftDelete, AtStmt, Inv
  <2>2. own[c] # "none" /\ ip[c] \in DOMAIN Prog(c) /\ s = Prog(c)[ip[c]]
    BY <1>1, <2>1 DEF Stmt, Prog, TypeInv, Control
  <2>3. QED
    BY <1>1, <2>1, <2>2, ArgRows, SelectedRows, TakenRows DEF TypeInv
<1>3. UNCHANGED <<live, fk, used, ins, own, call>>
  BY DEF Query, Delete, Unlink, SoftDelete, store, txn
<1>4. Exclusive' /\ NoOrphans'
  BY <1>3 DEF Inv, Exclusive, NoOrphans
<1>5. ViewWhole(c)
  BY <1>2 DEF Inv, ViewsWhole
<1>6. SUFFICES KeysKept' /\ ViewWhole(c)' /\ Progress'
  <2>1. ViewWhole(c)' => ViewsWhole'
    BY <1>2, <1>3, OthersWait DEF ViewsWhole
  <2>2. QED
    BY <1>4, <2>1 DEF Inv
<1>7. ~Unlink(c) => KeysKept'
  <2>1. ~Unlink(c) => clr' = clr
    BY DEF Query, Delete, SoftDelete, txn
  <2>2. QED
    BY <1>3, <2>1 DEF Inv, KeysKept
<1>8. CASE Query(c)
  <2>1. ViewWhole(c)'
    BY <1>5, <1>8 DEF Query, store, txn, ViewWhole, ViewLive, ViewFk
  <2>2. ~Unlink(c)
    BY <1>8 DEF Query, Unlink, AtStmt
  <2>3. QED
    BY <1>7, <1>8, <2>1, <2>2, QueryProgress
<1>9. CASE SoftDelete(c)
  <2>1. ViewLive(c)' = ViewLive(c) /\ \A r, col : ViewFk(c, r, col)' = ViewFk(c, r, col)
    BY <1>9 DEF SoftDelete, store, ViewLive, ViewFk
  <2>2. ViewWhole(c)'
    BY <1>5, <2>1 DEF ViewWhole
  <2>3. s.kind = "soft" /\ Advance(c, ip[c] + 1) /\ UNCHANGED ids
    BY <1>1, <1>9 DEF SoftDelete, AtStmt
  <2>4. \A r \in Row : soft'[c][r] = IF r \in Selected(c, s) THEN now ELSE soft[c][r]
    BY <1>2, <1>9 DEF SoftDelete, TypeInv, TypeOK
  <2>5. now > 0 /\ Selected(c, s)' = Selected(c, s)
    BY <1>3, <2>1, <2>3 DEF Selected, Arg, Inv, TypeInv, TypeOK
  <2>6. Progress'
    <3>1. now \in Nat /\ \A r \in Row : soft[c][r] > 0 => soft'[c][r] > 0
      BY <2>4, <2>5 DEF Inv, TypeInv, TypeOK
    <3>2. \A r \in Selected(c, s)' : soft'[c][r] > 0
      BY <1>2, <2>4, <2>5, <3>1
    <3>3. s.kind # "query" /\ s.kind \notin Covering
      BY <2>3 DEF Covering
    <3>4. /\ ViewLive(c)' \subseteq ViewLive(c)
          /\ \A r \in Row : \A col : ViewFk(c, r, col)' \in {Nil, ViewFk(c, r, col)}
      BY <2>1
    <3>5. QED
      BY <1>1, <1>2, <1>3, <2>3, <3>1, <3>2, <3>3, <3>4, WriteProgress
  <2>7. ~Unlink(c)
    BY <1>9 DEF SoftDelete, Unlink, AtStmt
  <2>8. QED
    BY <1>7, <2>2, <2>6, <2>7
<1>10. CASE Delete(c)
  <2>1. s.kind \in {"bulk", "drop", "self"} /\ Advance(c, ip[c] + 1) /\ UNCHANGED <<ids, clr, soft>>
    BY <1>1, <1>10 DEF Delete, AtStmt
  <2>2. PICK S : S = Selected(c, s)
    OBVIOUS
  <2>3. ViewLive(c)' = ViewLive(c) \ S /\ \A r, col : ViewFk(c, r, col)' = ViewFk(c, r, col)
    BY <1>2, <1>10, <2>2 DEF Delete, store, ViewLive, ViewFk, TypeInv, TypeOK
  <2>4. ViewWhole(c)'
    <3>1. AtStmt(c, {"bulk", "drop", "self"})
      BY <1>10 DEF Delete
    <3>2. ASSUME NEW r \in ViewLive(c), NEW d \in Policy, d.child = TypeOf[r],
                 d.mode \in {"delete", "unlink"}
          PROVE  ViewFk(c, r, d.col) \notin S
      BY <1>1, <1>2, <2>2, <3>1, <3>2, DeleteWhole
    <3>3. QED
      BY <1>5, <2>3, <3>2 DEF ViewWhole
  <2>5. Selected(c, s)' = {}
    <3>1. Arg(c, s.src)' = Arg(c, s.src)
      BY <1>3, <2>1 DEF Arg
    <3>2. Selected(c, s)' \subseteq Selected(c, s) \ S
      BY <1>3, <2>3, <3>1 DEF Selected
    <3>3. QED
      BY <2>2, <3>2
  <2>6. s.kind # "query" /\ ViewLive(c)' \subseteq ViewLive(c)
    BY <2>1, <2>3
  <2>7. Progress'
    BY <1>1, <1>2, <1>3, <2>1, <2>3, <2>5, <2>6, WriteProgress
  <2>8. ~Unlink(c)
    BY <1>10 DEF Delete, Unlink, AtStmt
  <2>9. QED
    BY <1>7, <2>4, <2>7, <2>8
<1>11. CASE Unlink(c)
  <2>1. s.kind = "unlink" /\ Advance(c, ip[c] + 1) /\ UNCHANGED <<ids, del, soft>>
    BY <1>1, <1>11 DEF Unlink, AtStmt
  <2>2. PICK S : S = Selected(c, s)
    OBVIOUS
  <2>3. clr'[c] = clr[c] \cup { <<r, s.col>> : r \in S } /\ \A d \in Caller : d # c => clr'[d] = clr[d]
    <3>1. clr' = [clr EXCEPT ![c] = @ \cup { <<r, s.col>> : r \in S }]
      BY <1>1, <1>2, <1>11, <2>2 DEF Unlink
    <3>2. QED
      BY <1>2, <3>1 DEF TypeInv, TypeOK
  <2>4. ViewLive(c)' = ViewLive(c)
    BY <1>3, <2>1 DEF ViewLive
  <2>5. \A r, col : ViewFk(c, r, col)' \in {Nil, ViewFk(c, r, col)}
    BY <1>3, <2>3 DEF ViewFk
  <2>6. \A r \in S : ViewFk(c, r, s.col)' = Nil
    BY <2>3 DEF ViewFk
  <2>7. ViewWhole(c)'
    BY <1>5, <2>4, <2>5 DEF ViewWhole
  <2>8. Selected(c, s)' = {}
    <3>1. Arg(c, s.src)' = Arg(c, s.src)
      BY <1>3, <2>1 DEF Arg
    <3>2. ASSUME NEW r \in Selected(c, s)' PROVE FALSE
      <4>1. r \in ViewLive(c) /\ TypeOf[r] = s.type /\ ViewFk(c, r, s.col)' \in Arg(c, s.src)
        BY <2>1, <2>4, <3>1, <3>2 DEF Selected
      <4>2. ViewFk(c, r, s.col)' = ViewFk(c, r, s.col)
        BY <1>2, <2>5, <4>1
      <4>3. r \in S
        BY <2>1, <2>2, <4>1, <4>2 DEF Selected
      <4>4. QED
        BY <1>2, <2>6, <4>1, <4>3
    <3>3. QED
      BY <3>2
  <2>9. Progress'
    BY <1>1, <1>2, <1>3, <2>1, <2>4, <2>5, <2>8, WriteProgress
  <2>10. KeysKept'
    <3>1. S \subseteq used
      BY <1>2, <2>2, SelectedRows DEF ViewLive, TypeInv, TypeOK, Control
    <3>2. \A r \in S : s.col \in Col
      <4>1. TAKE r \in S
      <4>2. r \in Row /\ TypeOf[r] = s.type
        BY <1>2, <2>2 DEF Selected
      <4>3. QED
        BY <1>2, <2>1, <4>2, Parameters DEF Prog, TypeInv, TypeOK
    <3>3. \A d \in Caller : clr'[d] \subseteq used' \X Col
      BY <1>3, <2>3, <3>1, <3>2 DEF Inv, KeysKept
    <3>4. QED
      BY <1>3, <3>3 DEF Inv, KeysKept
  <2>11. QED
    BY <2>7, <2>9, <2>10
<1>12. QED
  BY <1>8, <1>9, <1>10, <1>11

\* There are no locks on a serializable database.
LEMMA NoLocking ==
    ASSUME Serializable, NEW c \in Caller
    PROVE  ~Scan(c) /\ ~LockRow(c)
BY DEF Scan, LockRow, AtLocks

LEMMA NextInv ==
    ASSUME Serializable, Inv, [Next]_vars
    PROVE  Inv'
<1>1. TypeInv'
  BY NextTypeInv DEF Inv
<1>2. CASE UNCHANGED vars
  <2>1. UNCHANGED <<live, fk, used, ins, del, clr, soft, own, pc, ip, ids, call>>
    BY <1>2 DEF vars
  <2>2. Exclusive'
    BY <2>1 DEF Inv, Exclusive
  <2>3. QED
    BY <1>1, <2>1, <2>2, ControlKeeps
<1>3. CASE OtherClient
  BY <1>1, <1>3, OtherKeeps
<1>4. ASSUME NEW c \in Caller, NewCall(c) \/ EmptyBatch(c) \/ CallStep(c) \/ AppStep(c) \/ Crash(c)
      PROVE  Inv'
  <2>1. CASE \/ NewCall(c) \/ EmptyBatch(c) \/ StartTx(c) \/ StartTxFails(c) \/ AppBegin(c)
             \/ StatementFails(c) \/ ReturnOk(c) \/ ReturnError(c)
    BY <1>1, <2>1, ControlSteps
  <2>2. CASE PreHook(c) \/ PreHookFails(c) \/ PostHook(c) \/ PostHookFails(c)
    BY <1>1, <2>2, HookKeeps DEF PreHook, PreHookFails, PostHook, PostHookFails
  <2>3. CASE Query(c) \/ Delete(c) \/ Unlink(c) \/ SoftDelete(c)
    BY <1>1, <2>3, StatementKeeps
  <2>4. CASE Commit(c) \/ CommitLost(c) \/ CommitFails(c) \/ Rollback(c)
    BY <1>1, <2>4, EndKeeps DEF Commit, CommitLost, CommitFails, Rollback
  <2>5. CASE AppCommit(c) \/ AppRollback(c) \/ Crash(c)
    BY <1>1, <2>5, EndKeeps DEF AppCommit, AppRollback, Crash
  <2>6. ~Scan(c) /\ ~LockRow(c)
    BY NoLocking
  <2>7. QED
    BY <1>4, <2>1, <2>2, <2>3, <2>4, <2>5, <2>6 DEF CallStep, AppStep
<1>5. QED
  BY <1>2, <1>3, <1>4 DEF Next

\* On a database that admits one writing transaction at a time, and with programs
\* that cover every declared dependency, no reachable state has an orphan: whatever
\* the rows, the hooks, the failures, the crashes and the other clients' writes.
THEOREM CascadeLeavesNoOrphans ==
    ASSUME Serializable
    PROVE  Spec => []NoOrphans
<1>1. Init => Inv
  BY InitInv
<1>2. Inv /\ [Next]_vars => Inv'
  BY NextInv
<1>3. Inv => NoOrphans
  BY DEF Inv
<1>4. QED
  BY <1>1, <1>2, <1>3, PTL DEF Spec

-----------------------------------------------------------------------------
(* A caller's transaction.                                                 *)

\* The transaction of caller c is still open and holds all it held.
KeptTx(c) ==
    /\ own'[c] = "app"
    /\ ins[c] \subseteq ins'[c] /\ del[c] \subseteq del'[c] /\ clr[c] \subseteq clr'[c]

\* What another caller does leaves c's transaction alone.
LEMMA OthersKeepTx ==
    ASSUME TypeOK, NEW c \in Caller, own[c] = "app", NEW d \in Caller, d # c,
           NewCall(d) \/ EmptyBatch(d) \/ CallStep(d) \/ AppStep(d) \/ Crash(d)
    PROVE  KeptTx(c)
<1>1. CASE NewCall(d) \/ EmptyBatch(d) \/ StartTx(d) \/ StartTxFails(d) \/ AppBegin(d)
  BY <1>1 DEF NewCall, Call, EmptyBatch, StartTx, StartTxFails, AppBegin, txn, KeptTx, TypeOK
<1>2. CASE PreHook(d) \/ PreHookFails(d) \/ PostHook(d) \/ PostHookFails(d)
  BY <1>2 DEF PreHook, PreHookFails, PostHook, PostHookFails, Hook, HookWrites, KeptTx, TypeOK
<1>3. CASE \/ Query(d) \/ Scan(d) \/ LockRow(d)
           \/ Delete(d) \/ Unlink(d) \/ SoftDelete(d) \/ StatementFails(d)
  BY <1>3 DEF Query, Scan, LockRow, Delete, Unlink, SoftDelete, StatementFails, txn, KeptTx, TypeOK
<1>4. CASE Commit(d) \/ CommitLost(d) \/ CommitFails(d) \/ Rollback(d)
           \/ AppCommit(d) \/ AppRollback(d) \/ Crash(d)
  BY <1>4 DEF Commit, CommitLost, CommitFails, Rollback, AppCommit, AppRollback, Crash,
              EndTx, Discard, KeptTx, TypeOK
<1>5. CASE ReturnOk(d) \/ ReturnError(d)
  BY <1>5 DEF ReturnOk, ReturnError, txn, KeptTx, TypeOK
<1>6. QED
  BY <1>1, <1>2, <1>3, <1>4, <1>5 DEF CallStep, AppStep

\* A step of the call itself: it only ever adds to the transaction.
LEMMA CallKeepsTx ==
    ASSUME TypeInv, NEW c \in Caller, own[c] = "app", pc[c] # "idle",
           NewCall(c) \/ EmptyBatch(c) \/ CallStep(c) \/ AppStep(c) \/ Crash(c)
    PROVE  KeptTx(c) \/ Crash(c)
<1>1. TypeOK /\ pc[c] # "begin"
  BY DEF TypeInv, Control
<1>2. CASE PreHook(c) \/ PreHookFails(c) \/ PostHook(c) \/ PostHookFails(c)
  BY <1>1, <1>2 DEF PreHook, PreHookFails, PostHook, PostHookFails, Hook, HookWrites, KeptTx, TypeOK
<1>3. CASE \/ Query(c) \/ Scan(c) \/ LockRow(c)
           \/ Delete(c) \/ Unlink(c) \/ SoftDelete(c) \/ StatementFails(c)
  BY <1>1, <1>3 DEF Query, Scan, LockRow, Delete, Unlink, SoftDelete, StatementFails, txn, KeptTx, TypeOK
<1>4. CASE ReturnOk(c) \/ ReturnError(c)
  BY <1>1, <1>4 DEF ReturnOk, ReturnError, txn, KeptTx, TypeOK
<1>5. ~(NewCall(c) \/ EmptyBatch(c) \/ StartTx(c) \/ StartTxFails(c) \/ AppStep(c))
  BY <1>1 DEF NewCall, Call, EmptyBatch, StartTx, StartTxFails, AppStep, AppBegin, AppCommit, AppRollback
<1>6. ~(Commit(c) \/ CommitLost(c) \/ CommitFails(c) \/ Rollback(c))
  BY DEF Commit, CommitLost, CommitFails, Rollback
<1>7. QED
  BY <1>2, <1>3, <1>4, <1>5, <1>6 DEF CallStep

LEMMA NextKeepsTx ==
    ASSUME TypeInv, [Next]_vars, NEW c \in Caller, own[c] = "app", pc[c] # "idle"
    PROVE  KeptTx(c) \/ Crash(c)
<1>1. CASE UNCHANGED vars
  BY <1>1 DEF vars, KeptTx
<1>2. CASE OtherClient
  BY <1>2 DEF OtherClient, Insert, Move, txn, KeptTx
<1>3. ASSUME NEW d \in Caller, NewCall(d) \/ EmptyBatch(d) \/ CallStep(d) \/ AppStep(d) \/ Crash(d)
      PROVE  KeptTx(c) \/ Crash(c)
  BY <1>3, OthersKeepTx, CallKeepsTx DEF TypeInv
<1>4. QED
  BY <1>1, <1>2, <1>3 DEF Next

\* A call inside its caller's transaction never ends it and never takes back what
\* the caller wrote before, on any database and with any program: the inTransaction
\* path of the generated functions has no commit and no rollback.
THEOREM CallersTransactionIsKept == Spec => CallerKeepsTx
<1>1. TypeInv /\ [Next]_vars =>
          [\A c \in Caller : own[c] = "app" /\ pc[c] # "idle" =>
              \/ /\ own'[c] = "app"
                 /\ ins[c] \subseteq ins'[c] /\ del[c] \subseteq del'[c] /\ clr[c] \subseteq clr'[c]
              \/ Crash(c)]_vars
  BY NextKeepsTx DEF KeptTx
<1>2. QED
  BY <1>1, InitTypeInv, NextTypeInv, PTL DEF Spec, CallerKeepsTx

-----------------------------------------------------------------------------
(* OkMeansGone.  It speaks of calls that have answered, so it is           *)
(* strengthened with what is known of a call past its last statement, and  *)
(* with where rows come from: arguments are ids handed out that no hook    *)
(* inserts, pending rows are hooks'.  Where rows are locked one by one, the*)
(* last statement has found, and not yet let go of, all that is left of    *)
(* the call's arguments.                                                   *)

Gone(c) ==
    /\ call[c].arg \subseteq used \ HookRows
    /\ \A r \in call[c].arg : TypeOf[r] = call[c].root
    /\ ins[c] \subseteq HookRows
    /\ result[c] = "ok" => pc[c] = "idle"
    /\ pc[c] \in {"post", "finish"} => call[c].arg \cap ViewLive(c) = {}
    /\ result[c] = "ok" =>
          call[c].arg \cap (IF own[c] = "app" THEN ViewLive(c) ELSE live) = {}
    /\ lock[c].scanned => pc[c] = "ops" /\ Stmt(c).kind \in Locking
    /\ lock[c].scanned /\ ip[c] = Len(Prog(c)) =>
          call[c].arg \cap ViewLive(c) \subseteq lock[c].todo \cup lock[c].held

GoneInv == \A c \in Caller : Gone(c)

LEMMA InitGone == Init => GoneInv
BY DEF Init, NoLocks, GoneInv, Gone

\* Whoever moves, the rows that appear are hooks' rows or carry a new id.
LEMMA RowsAppear ==
    ASSUME TypeInv, GoneInv, [Next]_vars
    PROVE  live' \subseteq live \cup HookRows \cup (Row \ used) /\ used \subseteq used'
<1>1. CASE UNCHANGED vars
  BY <1>1 DEF vars
<1>2. CASE OtherClient
  BY <1>2 DEF OtherClient, Insert, Move
<1>3. ASSUME NEW c \in Caller, NewCall(c) \/ EmptyBatch(c) \/ CallStep(c) \/ AppStep(c) \/ Crash(c)
      PROVE  live' \subseteq live \cup HookRows \cup (Row \ used) /\ used \subseteq used'
  <2>1. CASE Commit(c) \/ CommitLost(c) \/ AppCommit(c)
    BY <2>1 DEF Commit, CommitLost, AppCommit, Apply, EndTx, ViewLive, GoneInv, Gone
  <2>2. CASE PreHook(c) \/ PreHookFails(c) \/ PostHook(c) \/ PostHookFails(c)
    BY <2>2 DEF PreHook, PreHookFails, PostHook, PostHookFails, Hook, HookWrites, store
  <2>3. CASE ~ (\/ Commit(c) \/ CommitLost(c) \/ AppCommit(c)
                \/ PreHook(c) \/ PreHookFails(c) \/ PostHook(c) \/ PostHookFails(c))
    <3>1. CASE NewCall(c) \/ EmptyBatch(c) \/ StartTx(c) \/ StartTxFails(c) \/ AppBegin(c)
      BY <3>1 DEF NewCall, Call, EmptyBatch, StartTx, StartTxFails, AppBegin, store
    <3>2. CASE \/ Query(c) \/ Scan(c) \/ LockRow(c)
               \/ Delete(c) \/ Unlink(c) \/ SoftDelete(c) \/ StatementFails(c)
      BY <3>2 DEF Query, Scan, LockRow, Delete, Unlink, SoftDelete, StatementFails, store
    <3>3. CASE CommitFails(c) \/ Rollback(c) \/ ReturnOk(c) \/ ReturnError(c) \/ AppRollback(c) \/ Crash(c)
      BY <3>3 DEF CommitFails, Rollback, ReturnOk, ReturnError, AppRollback, Crash, EndTx, store
    <3>4. QED
      BY <1>3, <2>3, <3>1, <3>2, <3>3 DEF CallStep, AppStep
  <2>4. QED
    BY <2>1, <2>2, <2>3
<1>4. QED
  BY <1>1, <1>2, <1>3 DEF Next

\* What caller c's part of the state is.
Mine(c) == <<call[c], ins[c], del[c], clr[c], soft[c], lock[c], own[c], pc[c], ip[c], result[c]>>

\* A step of another caller or client leaves c's part alone.
LEMMA MineStays ==
    ASSUME TypeOK, NEW c \in Caller, [Next]_vars,
           ~(NewCall(c) \/ EmptyBatch(c) \/ CallStep(c) \/ AppStep(c) \/ Crash(c))
    PROVE  UNCHANGED Mine(c)
<1>1. CASE UNCHANGED vars
  BY <1>1 DEF vars, Mine
<1>2. CASE OtherClient
  BY <1>2 DEF OtherClient, Insert, Move, txn, Mine
<1>3. ASSUME NEW d \in Caller, d # c,
             NewCall(d) \/ EmptyBatch(d) \/ CallStep(d) \/ AppStep(d) \/ Crash(d)
      PROVE  UNCHANGED Mine(c)
  <2>1. CASE NewCall(d) \/ EmptyBatch(d) \/ StartTx(d) \/ StartTxFails(d) \/ AppBegin(d)
    BY <1>3, <2>1 DEF NewCall, Call, EmptyBatch, StartTx, StartTxFails, AppBegin, Goto, Answer,
                      txn, Mine, TypeOK
  <2>2. CASE PreHook(d) \/ PreHookFails(d) \/ PostHook(d) \/ PostHookFails(d)
    BY <1>3, <2>2 DEF PreHook, PreHookFails, PostHook, PostHookFails, Hook, HookWrites, Goto,
                      Mine, TypeOK
  <2>3. CASE \/ Query(d) \/ Scan(d) \/ LockRow(d)
             \/ Delete(d) \/ Unlink(d) \/ SoftDelete(d) \/ StatementFails(d)
    BY <1>3, <2>3 DEF Query, Scan, LockRow, Writes, Delete, Unlink, SoftDelete, StatementFails,
                      Advance, Goto, txn, Mine, TypeOK
  <2>4. CASE Commit(d) \/ CommitLost(d) \/ CommitFails(d) \/ Rollback(d)
             \/ AppCommit(d) \/ AppRollback(d) \/ Crash(d)
    BY <1>3, <2>4 DEF Commit, CommitLost, CommitFails, Rollback, AppCommit, AppRollback, Crash,
                      EndTx, Return, Goto, Answer, Discard, Mine, TypeOK
  <2>5. CASE ReturnOk(d) \/ ReturnError(d)
    BY <1>3, <2>5 DEF ReturnOk, ReturnError, Return, Goto, Answer, txn, Mine, TypeOK
  <2>6. QED
    BY <1>3, <2>1, <2>2, <2>3, <2>4, <2>5 DEF CallStep, AppStep
<1>4. QED
  BY <1>1, <1>2, <1>3 DEF Next

\* Rows that are gone for c stay gone while others move: their ids are used up.
LEMMA BystanderGone ==
    ASSUME TypeInv, NEW c \in Caller, Gone(c), UNCHANGED Mine(c),
           live' \subseteq live \cup HookRows \cup (Row \ used), used \subseteq used'
    PROVE  Gone(c)'
<1>1. UNCHANGED <<call[c], ins[c], del[c], lock[c], own[c], pc[c], ip[c], result[c]>>
  BY DEF Mine
<1>2. \A r \in call[c].arg : (r \notin live => r \notin live') /\ (r \notin ViewLive(c) => r \notin ViewLive(c)')
  BY <1>1 DEF Gone, ViewLive
<1>3. Stmt(c)' = Stmt(c) /\ Prog(c)' = Prog(c)
  BY <1>1 DEF Stmt, Prog
<1>4. QED
  BY <1>1, <1>2, <1>3 DEF Gone

\* The last statement of a function deletes what it was called for.
LEMMA LastStatementDeletes ==
    ASSUME TypeInv, NEW c \in Caller, Gone(c),
           Query(c) \/ Delete(c) \/ Unlink(c) \/ SoftDelete(c), pc'[c] \in {"post", "finish"}
    PROVE  call[c].arg \cap ViewLive(c)' = {}
<1> DEFINE P == Prog(c)
<1>1. /\ pc[c] = "ops" /\ call[c].root \in Root /\ P = Program[call[c].root]
      /\ ip[c] \in DOMAIN P /\ Stmt(c) = P[ip[c]] /\ pc \in [Caller -> States]
  BY DEF Query, Delete, Unlink, SoftDelete, AtStmt, TypeInv, TypeOK, Control, Prog, Stmt
<1>2. Len(P) \in Nat /\ DOMAIN P = 1 .. Len(P) /\ P[ip[c]] \in Statements
  BY <1>1, ProgramShape
<1>3. P[Len(P)].kind = "self" /\ P[Len(P)].type = call[c].root
  BY <1>1, ProgramEndsWithSelf
<1>4. ASSUME NEW i, Advance(c, i) PROVE ~(i <= Len(P))
  BY <1>1, <1>4 DEF Advance
<1>5. ~Query(c)
  <2>1. SUFFICES ASSUME Query(c) PROVE FALSE
    OBVIOUS
  <2>2. P[ip[c]].kind = "query" /\ P[ip[c]].end \in Nat
    BY <1>1, <1>2, <2>1 DEF Query, AtStmt, Statements
  <2>3. P[ip[c]].end < Len(P) /\ ip[c] < P[ip[c]].end
    BY ZenonT(30), <1>1, <2>2, ProgramScoped
  <2>4. P[ip[c]].end + 1 <= Len(P) /\ ip[c] + 1 <= Len(P)
    BY <1>1, <1>2, <2>2, <2>3
  <2>5. QED
    BY <1>1, <1>4, <2>1, <2>4 DEF Query
<1>6. ip[c] = Len(P)
  <2>1. Advance(c, ip[c] + 1)
    BY <1>5 DEF Delete, Unlink, SoftDelete
  <2>2. QED
    BY <1>1, <1>2, <1>4, <2>1
<1>7. Stmt(c).kind = "self" /\ Stmt(c).type = call[c].root
  BY <1>1, <1>3, <1>6
<1>8. Delete(c)
  BY <1>5, <1>7 DEF Unlink, SoftDelete, AtStmt
<1>9. Selected(c, Stmt(c)) = call[c].arg \cap ViewLive(c)
  BY <1>7 DEF Selected, Gone
<1>10. Taken(c) = Selected(c, Stmt(c))
  <2>1. CASE Serializable
    BY <2>1, TakenRows DEF TypeInv
  <2>2. CASE ~Serializable
    <3>1. lock[c].scanned /\ lock[c].todo = {}
      BY <1>8, <2>2 DEF Delete, Writes
    <3>2. Selected(c, Stmt(c)) \subseteq lock[c].held
      BY <1>6, <1>9, <3>1 DEF Gone
    <3>3. QED
      BY <2>2, <3>2 DEF Taken
  <2>3. QED
    BY <2>1, <2>2
<1>11. ViewLive(c)' = ViewLive(c) \ Taken(c)
  BY <1>8 DEF Delete, store, ViewLive, TypeInv, TypeOK
<1>12. QED
  BY <1>9, <1>10, <1>11

LEMMA CallerGone ==
    ASSUME TypeInv, TypeInv', GoneInv, NEW c \in Caller,
           NewCall(c) \/ EmptyBatch(c) \/ CallStep(c) \/ AppStep(c) \/ Crash(c)
    PROVE  Gone(c)'
<1>1. TypeOK /\ Control /\ Gone(c) /\ (pc[c] # "ops" => ~lock[c].scanned)
  BY DEF TypeInv, GoneInv, Gone
<1>2. CASE NewCall(c)
  <2>1. PICK t \in Root, arg \in SUBSET (used \ HookRows), b \in BOOLEAN :
            Call(c, t, arg, b) /\ \A r \in arg : TypeOf[r] = t
    BY <1>2 DEF NewCall
  <2>2. /\ call'[c].arg = arg /\ call'[c].root = t /\ result'[c] = "none"
        /\ ins' = ins /\ used' = used /\ pc'[c] \in {"begin", "ops", "pre"} /\ ~lock'[c].scanned
    BY <1>1, <2>1 DEF Call, Goto, Answer, FirstStep, txn, TypeOK
  <2>3. QED
    BY <1>1, <2>1, <2>2 DEF Gone
<1>3. CASE EmptyBatch(c)
  <2>1. /\ call'[c].arg = {} /\ pc'[c] = "idle"
        /\ ins' = ins /\ used' = used /\ ~lock'[c].scanned
    BY <1>1, <1>3 DEF EmptyBatch, txn, TypeOK
  <2>2. QED
    BY <1>1, <2>1 DEF Gone
<1>4. CASE StartTx(c) \/ StartTxFails(c) \/ AppBegin(c)
  <2>1. /\ pc'[c] \notin {"post", "finish"} /\ result'[c] # "ok"
        /\ ins' = ins /\ used' = used /\ call' = call /\ ~lock'[c].scanned
    BY <1>1, <1>4 DEF StartTx, StartTxFails, AppBegin, Goto, Answer, FirstStep, txn, TypeOK, Gone
  <2>2. QED
    BY <1>1, <2>1 DEF Gone
<1>5. ASSUME NEW from \in {"pre", "post"}, NEW to \in {"ops", "finish", "abort"},
             to = "finish" => from = "post", Hook(c, from, to)
      PROVE  Gone(c)'
  <2>1. /\ used \subseteq used' /\ call' = call /\ live' = live /\ del' = del
        /\ ins'[c] \subseteq ins[c] \cup HookRows
        /\ result'[c] # "ok" /\ pc[c] = from /\ pc'[c] = to /\ ~lock'[c].scanned
    BY <1>1, <1>5 DEF Hook, HookWrites, Goto, store, TypeOK, Gone
  <2>2. QED
    BY <1>1, <1>5, <2>1 DEF Gone, ViewLive
<1>6. CASE Query(c) \/ Delete(c) \/ Unlink(c) \/ SoftDelete(c)
  <2>1. /\ used' = used /\ call' = call /\ ins' = ins /\ result'[c] # "ok"
    BY <1>1, <1>6 DEF Query, Delete, Unlink, SoftDelete, AtStmt, txn, Gone
  <2>2. ~lock'[c].scanned
    BY <1>1, <1>6 DEF Query, Delete, Unlink, SoftDelete, Writes, AtStmt, Locking, txn, Gone, TypeOK
  <2>3. QED
    BY <1>1, <1>6, <2>1, <2>2, LastStatementDeletes DEF Gone
<1>7. CASE StatementFails(c)
  <2>1. ~lock'[c].scanned /\ pc'[c] = "abort" /\ UNCHANGED <<used, call, ins, result, live, del, own>>
    BY <1>1, <1>7 DEF StatementFails, Goto, store, TypeOK
  <2>2. QED
    BY <1>1, <1>7, <2>1 DEF StatementFails, Gone, ViewLive
<1>a. CASE Scan(c) \/ LockRow(c)
  <2>1. UNCHANGED <<live, used, call, ins, del, own, pc, ip, result>> /\ pc[c] = "ops"
    BY <1>a DEF Scan, LockRow, AtLocks, AtStmt, store
  <2>2. Stmt(c)' = Stmt(c) /\ Prog(c)' = Prog(c) /\ ViewLive(c)' = ViewLive(c) /\ Stmt(c).kind \in Locking
    BY <1>a, <2>1 DEF Stmt, Prog, ViewLive, Scan, LockRow, AtLocks, AtStmt
  <2>3. ASSUME ip[c] = Len(Prog(c)), lock'[c].scanned
        PROVE  call[c].arg \cap ViewLive(c) \subseteq lock'[c].todo \cup lock'[c].held
    <3>1. Stmt(c).kind = "self" /\ Stmt(c).type = call[c].root
      BY <1>1, <2>3, ProgramEndsWithSelf DEF Stmt, Prog, TypeOK
    <3>2. Selected(c, Stmt(c)) = call[c].arg \cap ViewLive(c)
      BY <1>1, <3>1 DEF Selected, Gone
    <3>3. CASE Scan(c)
      BY <1>1, <3>2, <3>3 DEF Scan, TypeOK
    <3>4. CASE LockRow(c)
      <4>1. PICK r \in lock[c].todo :
                lock' = [lock EXCEPT ![c].todo = @ \ {r},
                                     ![c].held = @ \cup ({r} \cap Selected(c, Stmt(c)))]
        BY <3>4 DEF LockRow
      <4>2. /\ lock'[c].todo = lock[c].todo \ {r} /\ lock'[c].scanned = lock[c].scanned
            /\ lock'[c].held = lock[c].held \cup ({r} \cap Selected(c, Stmt(c)))
        BY <1>1, <4>1 DEF TypeOK
      <4>3. call[c].arg \cap ViewLive(c) \subseteq lock[c].todo \cup lock[c].held
        BY <1>1, <2>3, <4>2 DEF Gone
      <4>4. QED
        BY <3>2, <4>2, <4>3
    <3>5. QED
      BY <1>a, <3>3, <3>4
  <2>4. QED
    BY <1>1, <2>1, <2>2, <2>3 DEF Gone
<1>8. CASE Commit(c) \/ CommitLost(c)
  <2>1. /\ used' = used /\ call' = call /\ ins'[c] = {} /\ live' = ViewLive(c)
        /\ pc[c] = "finish" /\ pc'[c] = "idle" /\ own'[c] = "none" /\ ~lock'[c].scanned
    BY <1>1, <1>8 DEF Commit, CommitLost, Apply, EndTx, Discard, NoLocks, Return, Goto, TypeOK
  <2>2. QED
    BY <1>1, <2>1 DEF Gone
<1>9. CASE CommitFails(c) \/ Rollback(c) \/ AppCommit(c) \/ AppRollback(c) \/ Crash(c)
  <2>1. /\ used' = used /\ call' = call /\ ins'[c] = {} /\ result'[c] # "ok" /\ pc'[c] = "idle"
        /\ ~lock'[c].scanned
    BY <1>1, <1>9 DEF CommitFails, Rollback, AppCommit, AppRollback, Crash, EndTx, Discard, NoLocks, Return,
                      Goto, Answer, TypeOK
  <2>2. QED
    BY <1>1, <2>1 DEF Gone
<1>10. CASE ReturnOk(c)
  <2>1. /\ used' = used /\ call' = call /\ ins' = ins /\ live' = live /\ del' = del /\ own' = own
        /\ pc[c] = "finish" /\ own[c] = "app" /\ pc'[c] = "idle" /\ ~lock'[c].scanned
    BY <1>1, <1>10 DEF ReturnOk, Return, Goto, store, txn, TypeOK
  <2>2. QED
    BY <1>1, <2>1 DEF Gone, ViewLive
<1>11. CASE ReturnError(c)
  <2>1. /\ used' = used /\ call' = call /\ ins' = ins /\ result'[c] = "err" /\ pc'[c] = "idle"
        /\ ~lock'[c].scanned
    BY <1>1, <1>11 DEF ReturnError, Return, Goto, Answer, txn, TypeOK
  <2>2. QED
    BY <1>1, <2>1 DEF Gone
<1>12. QED
  BY <1>2, <1>3, <1>4, <1>5, <1>6, <1>7, <1>8, <1>9, <1>10, <1>11, <1>a
     DEF CallStep, AppStep, PreHook, PreHookFails, PostHook, PostHookFails

LEMMA NextGone == TypeInv /\ GoneInv /\ [Next]_vars => GoneInv'
<1> SUFFICES ASSUME TypeInv, GoneInv, [Next]_vars, NEW c \in Caller PROVE Gone(c)'
  BY DEF GoneInv
<1>1. TypeInv' /\ Gone(c) /\ TypeOK
  BY NextTypeInv DEF GoneInv, TypeInv
<1>2. CASE NewCall(c) \/ EmptyBatch(c) \/ CallStep(c) \/ AppStep(c) \/ Crash(c)
  BY <1>1, <1>2, CallerGone
<1>3. CASE ~(NewCall(c) \/ EmptyBatch(c) \/ CallStep(c) \/ AppStep(c) \/ Crash(c))
  BY <1>1, <1>3, MineStays, RowsAppear, BystanderGone
<1>4. QED
  BY <1>2, <1>3

\* A call that answered ok has removed its roots for good, on any database, also one
\* whose transactions run side by side: later commits of others, hooks and inserts
\* do not bring them back (the delete of the entity itself ends every function).
THEOREM OkAlwaysMeansGone == Spec => []OkMeansGone
<1>1. GoneInv => OkMeansGone
  BY DEF GoneInv, Gone, OkMeansGone
<1>2. QED
  BY <1>1, InitTypeInv, NextTypeInv, InitGone, NextGone, PTL DEF Spec
-----------------------------------------------------------------------------
(* Locks.  A transaction that runs one cascade holds rows of the types of  *)
(* the statements so far only; where programs lock types in one order,     *)
(* whoever a call waits for stands at its type or further on.              *)

\* The rows a call holds were taken by a statement it has executed, or is at; those
\* it has still to lock are for the statement it is at.
TakenBefore(c) ==
    \A r \in lock[c].held : \E i \in LockSteps(call[c].root) :
        i <= ip[c] /\ Prog(c)[i].type = TypeOf[r]

Locked(c) ==
    /\ own[c] # "app"
    /\ pc[c] \in {"idle", "begin", "pre"} => lock[c].held = {}
    /\ pc[c] = "ops" => TakenBefore(c)
    /\ \A r \in lock[c].todo : AtLocks(c) /\ TypeOf[r] = Stmt(c).type

LockInv == \A c \in Caller : Locked(c)

LEMMA InitLock == Init => LockInv
BY DEF Init, NoLocks, AtLocks, AtStmt, LockInv, Locked

\* A row is locked for the statement at hand.
LEMMA RowLocks ==
    ASSUME TypeInv, NEW c \in Caller, Locked(c), Scan(c) \/ LockRow(c)
    PROVE  Locked(c)'
<1>1. /\ UNCHANGED <<call, own, pc, ip>> /\ pc[c] = "ops" /\ Prog(c)' = Prog(c)
      /\ Prog(c) = Program[call[c].root] /\ Stmt(c) = Prog(c)[ip[c]] /\ TakenBefore(c)
      /\ ip[c] \in LockSteps(call[c].root) /\ ip[c] \in Nat
  BY DEF Scan, LockRow, AtLocks, AtStmt, Prog, Stmt, LockSteps, Locked, TypeInv, TypeOK, Control
<1>2. /\ lock'[c].held \subseteq lock[c].held \cup Selected(c, Stmt(c))
      /\ lock'[c].todo \subseteq lock[c].todo \cup Selected(c, Stmt(c))
  <2>1. lock \in [Caller -> [scanned : BOOLEAN, todo : SUBSET Row, held : SUBSET Row]]
    BY DEF TypeInv, TypeOK
  <2>2. CASE Scan(c)
    BY <2>1, <2>2 DEF Scan
  <2>3. CASE LockRow(c)
    <3>1. PICK r \in lock[c].todo :
              lock' = [lock EXCEPT ![c].todo = @ \ {r},
                                   ![c].held = @ \cup ({r} \cap Selected(c, Stmt(c)))]
      BY <2>3 DEF LockRow
    <3>2. /\ lock'[c].todo = lock[c].todo \ {r}
          /\ lock'[c].held = lock[c].held \cup ({r} \cap Selected(c, Stmt(c)))
      BY <2>1, <3>1
    <3>3. QED
      BY <3>2
  <2>4. QED
    BY <2>2, <2>3
<1>3. \A r \in Selected(c, Stmt(c)) : Prog(c)[ip[c]].type = TypeOf[r]
  BY <1>1 DEF Selected
<1>4. TakenBefore(c)'
  BY <1>1, <1>2, <1>3 DEF TakenBefore
<1>5. AtLocks(c)' /\ Stmt(c)' = Stmt(c)
  BY <1>1 DEF Scan, LockRow, AtLocks, AtStmt, Stmt
<1>6. \A r \in lock'[c].todo : TypeOf[r] = Stmt(c).type
  BY <1>1, <1>2, <1>3 DEF Locked
<1>7. QED
  BY <1>1, <1>4, <1>5, <1>6 DEF Locked

\* A statement that is done takes no more locks, and the pointer moves past it.
LEMMA StatementLocks ==
    ASSUME TypeInv, NEW c \in Caller, Locked(c),
           Query(c) \/ Delete(c) \/ Unlink(c) \/ SoftDelete(c)
    PROVE  Locked(c)'
<1> DEFINE t == call[c].root
           S == Selected(c, Stmt(c))
<1>1. /\ pc[c] = "ops" /\ t \in Root /\ Prog(c) = Program[t] /\ own' = own /\ call' = call
      /\ ip[c] \in DOMAIN Program[t] /\ Stmt(c) = Program[t][ip[c]] /\ TakenBefore(c)
  BY DEF Query, Delete, Unlink, SoftDelete, AtStmt, TypeInv, TypeOK, Control, Prog, Stmt, Locked
<1>2. /\ Len(Program[t]) \in Nat /\ DOMAIN Program[t] = 1 .. Len(Program[t]) /\ ip[c] \in Nat
  BY <1>1, ProgramShape
<1>3. PICK i \in Nat : i > ip[c] /\ Advance(c, i)
  <2>1. CASE Query(c)
    <3>1. Stmt(c).kind = "query" /\ Stmt(c) \in Statements
      BY <1>1, <2>1, ProgramShape DEF Query, AtStmt
    <3>2. Stmt(c).end \in Nat
      BY <3>1 DEF Statements
    <3>3. Program[t][ip[c]].kind = "query"
      BY <1>1, <3>1
    <3>4. ip[c] < Program[t][ip[c]].end
      BY <1>1, <3>3, QueryEnds
    <3> DEFINE i == IF S = {} THEN Stmt(c).end + 1 ELSE ip[c] + 1
    <3>5. Advance(c, i)
      BY <2>1 DEF Query
    <3>a. Stmt(c).end > ip[c] /\ i \in {Stmt(c).end + 1, ip[c] + 1}
      BY <1>1, <3>4
    <3> HIDE DEF i
    <3>6. i \in Nat /\ i > ip[c]
      BY <1>2, <3>2, <3>a
    <3>7. QED
      BY <3>5, <3>6
  <2>2. CASE ~Query(c)
    BY <1>2, <2>2 DEF Delete, Unlink, SoftDelete
  <2>3. QED
    BY <2>1, <2>2
<1>4. pc'[c] \in {"ops", "post", "finish"} /\ (pc'[c] = "ops" => ip'[c] > ip[c] /\ ip'[c] \in Nat)
  BY <1>1, <1>3 DEF Advance, Goto, TypeInv, TypeOK
<1>5. lock'[c].held = lock[c].held
  BY DEF Query, Delete, Unlink, SoftDelete, Writes, txn, TypeInv, TypeOK
<1>b. lock'[c].todo = {}
  <2>1. lock[c].todo # {} => AtLocks(c)
    BY DEF Locked
  <2>2. CASE Query(c)
    BY <2>1, <2>2 DEF Query, AtLocks, AtStmt, Locking, txn
  <2>3. CASE Writes(c)
    BY <2>1, <2>3 DEF Writes, AtLocks, TypeInv, TypeOK
  <2>4. QED
    BY <2>2, <2>3 DEF Delete, Unlink, SoftDelete
<1>6. pc'[c] = "ops" => TakenBefore(c)'
  <2>1. LockSteps(t) \subseteq Nat
    BY <1>2 DEF LockSteps
  <2>2. QED
    BY <1>1, <1>2, <1>4, <1>5, <2>1 DEF TakenBefore, Prog
<1>7. QED
  BY <1>1, <1>4, <1>6, <1>b DEF Locked

LEMMA CallerLocks ==
    ASSUME TypeInv, NEW c \in Caller, Locked(c), "app" \notin Modes,
           NewCall(c) \/ EmptyBatch(c) \/ CallStep(c) \/ AppStep(c) \/ Crash(c)
    PROVE  Locked(c)'
<1>1. TypeOK /\ Control /\ own[c] # "app" /\ (pc[c] # "ops" => lock[c].todo = {})
  BY DEF TypeInv, Locked, AtLocks, AtStmt
<1>2. CASE NewCall(c)
  <2>1. pc[c] = "idle" /\ pc'[c] = "begin" /\ UNCHANGED <<own, lock>>
    BY <1>1, <1>2 DEF NewCall, Call, Goto, txn, TypeOK
  <2>2. QED
    BY <1>1, <2>1 DEF Locked
<1>3. CASE EmptyBatch(c)
  <2>1. pc[c] = "idle" /\ UNCHANGED <<pc, own, lock>>
    BY <1>3 DEF EmptyBatch, txn
  <2>2. QED
    BY <1>1, <2>1 DEF Locked
<1>4. CASE StartTx(c) \/ StartTxFails(c)
  <2>1. pc[c] = "begin" /\ own'[c] \in {"cascade", own[c]} /\ UNCHANGED lock
    BY <1>1, <1>4 DEF StartTx, StartTxFails, txn, TypeOK
  <2>2. QED
    BY <1>1, <2>1 DEF Locked, TakenBefore
<1>5. ~AppStep(c) /\ ~ReturnOk(c) /\ ~ReturnError(c)
  BY <1>1 DEF AppStep, AppBegin, AppCommit, AppRollback, ReturnOk, ReturnError
<1>6. ASSUME NEW from \in {"pre", "post"}, NEW to \in {"ops", "finish", "abort"},
             to = "ops" => from = "pre", Hook(c, from, to)
      PROVE  Locked(c)'
  <2>1. pc[c] = from /\ pc'[c] = to /\ UNCHANGED <<own, lock>>
    BY <1>1, <1>6 DEF Hook, Goto, TypeOK
  <2>2. QED
    BY <1>1, <1>6, <2>1 DEF Locked, TakenBefore
<1>7. CASE Query(c) \/ Delete(c) \/ Unlink(c) \/ SoftDelete(c)
  BY <1>7, StatementLocks
<1>a. CASE Scan(c) \/ LockRow(c)
  BY <1>a, RowLocks
<1>8. CASE StatementFails(c)
  <2>1. pc'[c] = "abort" /\ own' = own /\ lock'[c].todo = {}
    BY <1>1, <1>8 DEF StatementFails, Goto, TypeOK
  <2>2. QED
    BY <1>1, <2>1 DEF Locked
<1>9. CASE Commit(c) \/ CommitLost(c) \/ CommitFails(c) \/ Rollback(c) \/ Crash(c)
  <2>1. pc'[c] = "idle" /\ own'[c] = "none" /\ lock'[c].held = {} /\ lock'[c].todo = {}
    BY <1>1, <1>9 DEF Commit, CommitLost, CommitFails, Rollback, Crash, EndTx, Discard, NoLocks, Return,
                      Goto, TypeOK
  <2>2. QED
    BY <1>1, <2>1 DEF Locked
<1>10. QED
  BY <1>2, <1>3, <1>4, <1>5, <1>6, <1>7, <1>8, <1>9, <1>a
     DEF CallStep, PreHook, PreHookFails, PostHook, PostHookFails

LEMMA NextLock ==
    ASSUME TypeInv, LockInv, "app" \notin Modes, [Next]_vars
    PROVE  LockInv'
<1> SUFFICES ASSUME NEW c \in Caller PROVE Locked(c)'
  BY DEF LockInv
<1>1. Locked(c) /\ TypeOK
  BY DEF LockInv, TypeInv
<1>2. CASE NewCall(c) \/ EmptyBatch(c) \/ CallStep(c) \/ AppStep(c) \/ Crash(c)
  BY <1>1, <1>2, CallerLocks
<1>3. CASE ~(NewCall(c) \/ EmptyBatch(c) \/ CallStep(c) \/ AppStep(c) \/ Crash(c))
  <2>1. UNCHANGED Mine(c)
    BY <1>1, <1>3, MineStays
  <2>2. UNCHANGED <<call[c], lock[c], own[c], pc[c], ip[c]>>
    BY <2>1 DEF Mine
  <2>3. AtLocks(c)' = AtLocks(c) /\ Stmt(c)' = Stmt(c) /\ Prog(c)' = Prog(c)
    BY <2>2 DEF AtLocks, AtStmt, Stmt, Prog
  <2>4. QED
    BY <1>1, <2>2, <2>3 DEF Locked, TakenBefore
<1>4. QED
  BY <1>2, <1>3

\* Whoever a call waits for holds rows of the type the call stands at, and stands there
\* itself or at a type its program locks later.
LEMMA WaitsAhead ==
    ASSUME TypeInv, LockInv, NEW c \in Caller, NEW d \in Caller, NEW e \in Caller,
           Waits(c, d), Waits(d, e)
    PROVE  /\ Stmt(c).type \in LockedTypes
           /\ Stmt(d).type = Stmt(c).type \/ <<Stmt(c).type, Stmt(d).type>> \in LockedBefore
<1>1. ASSUME NEW a \in Caller, AtLocks(a)
      PROVE  /\ pc[a] = "ops" /\ call[a].root \in Root /\ ip[a] \in LockSteps(call[a].root)
             /\ ip[a] \in Nat /\ Stmt(a) = Program[call[a].root][ip[a]] /\ Stmt(a).type \in LockedTypes
  BY <1>1 DEF AtLocks, AtStmt, LockSteps, LockedTypes, Stmt, TypeInv, TypeOK, Control
<1>2. AtLocks(c) /\ AtLocks(d)
  BY DEF Waits
<1>3. PICK r \in lock[d].held : TypeOf[r] = Stmt(c).type
  BY DEF Waits, LockInv, Locked
<1> DEFINE t == call[d].root
<1>4. PICK i \in LockSteps(t) : i <= ip[d] /\ Program[t][i].type = Stmt(c).type
  BY <1>1, <1>2, <1>3 DEF LockInv, Locked, TakenBefore, Prog
<1>5. i \in Nat
  BY <1>1, <1>2, <1>4, ProgramShape DEF LockSteps
<1>6. CASE i = ip[d]
  BY <1>1, <1>2, <1>4, <1>6
<1>7. CASE i < ip[d]
  <2>1. <<i, ip[d]>> \in { y \in LockSteps(t) \X LockSteps(t) : y[1] < y[2] }
    BY <1>1, <1>2, <1>7
  <2>2. <<Program[t][i].type, Program[t][ip[d]].type>> \in LockedBefore
    BY <1>1, <1>2, <2>1 DEF LockedBefore
  <2>3. QED
    BY <1>1, <1>2, <1>4, <2>2
<1>8. QED
  BY <1>1, <1>2, <1>4, <1>5, <1>6, <1>7

\* In a wait cycle, take the calls at the table that is locked last: those they wait for
\* stand at that table too.
LEMMA CycleInOneTable ==
    ASSUME TypeInv, LockInv, OneLockOrder, NEW K \in SUBSET Caller, WaitCycle(K)
    PROVE  \E c \in K : WaitCycle({ d \in K : Stmt(d).type = Stmt(c).type })
<1>1. ASSUME NEW c \in K
      PROVE  \E d \in K \ {c} :
                /\ Waits(c, d) /\ Stmt(c).type \in LockedTypes
                /\ Stmt(d).type = Stmt(c).type \/ <<Stmt(c).type, Stmt(d).type>> \in LockedBefore
  <2>1. PICK d \in K \ {c} : Waits(c, d)
    BY DEF WaitCycle
  <2>2. PICK e \in K \ {d} : Waits(d, e)
    BY DEF WaitCycle
  <2>3. QED
    BY <2>1, <2>2, WaitsAhead
<1> DEFINE tables == { Stmt(c).type : c \in K }
<1>2. tables \in (SUBSET LockedTypes) \ {{}}
  <2>1. K # {}
    BY DEF WaitCycle
  <2>2. \A c \in K : Stmt(c).type \in LockedTypes
    BY <1>1
  <2>3. QED
    BY <2>1, <2>2
<1>3. PICK last \in tables : \A type \in tables \ {last} : <<last, type>> \notin LockedBefore
  <2>1. \A S \in (SUBSET LockedTypes) \ {{}} :
            \E last \in S : \A type \in S \ {last} : <<last, type>> \notin LockedBefore
    BY DEF OneLockOrder
  <2> HIDE DEF tables
  <2>2. QED
    BY <1>2, <2>1
<1>4. PICK c \in K : Stmt(c).type = last
  BY <1>3
<1> DEFINE C == { d \in K : Stmt(d).type = Stmt(c).type }
<1>5. ASSUME NEW d \in C PROVE \E e \in C \ {d} : Waits(d, e)
  <2>1. PICK e \in K \ {d} :
            /\ Waits(d, e)
            /\ Stmt(e).type = Stmt(d).type \/ <<Stmt(d).type, Stmt(e).type>> \in LockedBefore
    BY <1>1
  <2>2. Stmt(e).type = Stmt(d).type
    BY <1>3, <1>4, <2>1
  <2>3. QED
    BY <2>1, <2>2
<1>6. WaitCycle(C)
  BY <1>4, <1>5 DEF WaitCycle
<1>7. QED
  BY <1>6

\* Concurrent standalone cascades, however many, deadlock at most over the rows of one
\* table, whatever rows they share, if their programs lock the tables in one order:
\* dependents come before their parents in every generated function.  A caller's own
\* transaction may run several cascades, in any order, which is why it is left out.
THEOREM NeverDeadlocksAcrossTables ==
    ASSUME OneLockOrder, "app" \notin Modes
    PROVE  Spec => []DeadlocksInOneTable
<1>1. TypeInv /\ LockInv /\ [Next]_vars => LockInv'
  BY NextLock
<1>2. TypeInv /\ LockInv => DeadlocksInOneTable
  BY CycleInOneTable DEF DeadlocksInOneTable
<1>3. QED
  BY <1>1, <1>2, InitTypeInv, NextTypeInv, InitLock, PTL DEF Spec

-----------------------------------------------------------------------------
(* The runtime implements CascadeStore, one atomic step per transaction;   *)
(* and a repeated call is a no-op.  While a transaction is open its steps  *)
(* are stutters of the store, so the invariant says which atomic step its  *)
(* commit would be: a cascade from a set A of roots, the arguments of the  *)
(* calls made in it so far.                                                *)

\* The rows a transaction works on: stored, or inserted by its hooks.
Stored(c) == live \cup ins[c]

\* T holds A and every hard-deleted dependent of its members: what A dooms is the
\* least such set.
Closing(c, A, T) ==
    \A r \in Stored(c) :
        /\ r \in A => r \in T
        /\ \A d \in Policy : d.child = TypeOf[r] /\ d.mode = "delete" /\ fk[r][d.col] \in T => r \in T

Within(c, A, X) == \A T \in SUBSET Row : Closing(c, A, T) => X \subseteq T

\* The argument of a call under way, and the rows that it has still to delete:
\* its argument and the ids of every block that is open.
Running(c) == pc[c] \in {"pre", "ops"}
InCall(c) == IF Running(c) THEN call[c].arg ELSE {}
Pending(c, p) ==
    /\ Running(c)
    /\ \/ p \in call[c].arg
       \/ \E q \in Pos : p \in ids[c][q] /\ ip[c] <= Prog(c)[q].end

\* The arguments so far; those of calls that are through are gone.
Args(c, A) ==
    /\ A \subseteq used \ HookRows /\ \A r \in A : TypeOf[r] \in Root
    /\ own[c] = "cascade" => A = call[c].arg
    /\ pc[c] # "idle" => call[c].arg \subseteq A
    /\ (A \ InCall(c)) \cap ViewLive(c) = {}

\* Only doomed rows are deleted.
DeletesDoomed(c, A) == del[c] \subseteq Stored(c) /\ Within(c, A, del[c])

\* A query's answer holds doomed rows that its predicate selected.
IdsDoomed(c, A) ==
    \A q \in Pos :
        /\ Within(c, A, ids[c][q])
        /\ \A r \in ids[c][q] :
              /\ q \in DOMAIN Prog(c) /\ q < ip[c] /\ Prog(c)[q].kind = "query" /\ r \in Stored(c)
              /\ TypeOf[r] = Prog(c)[q].type /\ fk[r][Prog(c)[q].col] \in Arg(c, Prog(c)[q].src)

\* A key is cleared only by a declared unlink, from a row that is deleted or will be.
ClearsDeclared(c) ==
    \A x \in clr[c] :
        /\ fk[x[1]][x[2]] \in Stored(c)
        /\ fk[x[1]][x[2]] \in del[c] \/ Pending(c, fk[x[1]][x[2]])
        /\ \E d \in Policy : d.child = TypeOf[x[1]] /\ d.col = x[2] /\ d.mode = "unlink"

\* Exactly the soft dependents of what goes are stamped, later than before.
StampsDeclared(c, A) ==
    \A r \in Row : soft[c][r] > 0 =>
        /\ r \in Stored(c) /\ soft[c][r] < now /\ soft[c][r] > stamp[r]
        /\ \E d \in Policy :
              /\ d.child = TypeOf[r] /\ d.mode = "soft"
              /\ fk[r][d.col] \in A \cup del[c] \/ Pending(c, fk[r][d.col])

StampsComplete(c, A) ==
    \A r \in ViewLive(c), d \in Policy :
        d.child = TypeOf[r] /\ d.mode = "soft" /\ fk[r][d.col] \in del[c] \cup (A \ InCall(c))
            => soft[c][r] > 0

Sim(c, A) ==
    /\ Args(c, A) /\ DeletesDoomed(c, A) /\ IdsDoomed(c, A)
    /\ ClearsDeclared(c) /\ StampsDeclared(c, A) /\ StampsComplete(c, A)

\* A transaction that may still commit; after an error it is rolled back.
OnCourse(c) == own[c] # "none" /\ pc[c] # "abort" /\ ~(pc[c] = "idle" /\ result[c] = "err")

Simulated == \A c \in Caller : OnCourse(c) => \E A \in SUBSET Row : Sim(c, A)

\* Stamps lie in the past, rows not stored yet are as they will be inserted, and a
\* caller at rest has no locals.
Ledger ==
    /\ \A r \in Row : stamp[r] < now /\ (r \notin used => stamp[r] = 0)
    /\ \A c \in Caller :
          /\ ins[c] \cap live = {}
          /\ \A r \in ins[c] : fk[r] = Ref[r] /\ stamp[r] = 0
          /\ own[c] = "cascade" => pc[c] \notin {"idle", "begin"}
          /\ own[c] = "none" => \A r \in Row : soft[c][r] = 0
          /\ pc[c] \in {"idle", "begin"} => \A q \in Pos : ids[c][q] = {}

StoreInv == Inv /\ GoneInv /\ Ledger /\ Simulated

LEMMA InitStoreInv == Serializable /\ Init => StoreInv
<1> SUFFICES ASSUME Serializable, Init PROVE StoreInv
  OBVIOUS
<1>1. Ledger
  BY DEF Init, Ledger
<1>2. Simulated
  BY DEF Init, Simulated, OnCourse
<1>3. QED
  BY <1>1, <1>2, InitInv, InitGone DEF StoreInv

LEMMA InitRefines == Init => Store!Init
<1> SUFFICES ASSUME Init PROVE Store!Init
  OBVIOUS
<1>1. live \in SUBSET Row
  BY Parameters DEF Init
<1>2. [r \in live |-> [fk |-> fk[r], stamp |-> stamp[r]]] = [r \in live |-> Store!Fresh(r)]
  BY <1>1 DEF Init, Store!Fresh
<1>3. used = DOMAIN [r \in live |-> [fk |-> fk[r], stamp |-> stamp[r]]]
  BY DEF Init
<1>4. QED
  BY <1>1, <1>2, <1>3 DEF Store!Init

-----------------------------------------------------------------------------
(* What a statement selects.                                               *)

\* A caller at one of its statements, and what is known of it.
LEMMA AtWork ==
    ASSUME StoreInv, NEW c \in Caller, Query(c) \/ Delete(c) \/ Unlink(c) \/ SoftDelete(c)
    PROVE  /\ TypeInv /\ TypeOK /\ Gone(c) /\ pc[c] = "ops" /\ own[c] # "none" /\ OnCourse(c)
           /\ call[c].root \in Root /\ ip[c] \in DOMAIN Prog(c) /\ ip[c] \in Nat \ {0}
           /\ Stmt(c) = Prog(c)[ip[c]] /\ Stmt(c) \in Statements
           /\ ViewWhole(c) /\ ViewLive(c) \subseteq Stored(c) /\ Stored(c) \subseteq Row
           /\ UNCHANGED <<live, fk, stamp, used, ins, own, call, result>>
<1>1. pc[c] = "ops" /\ TypeInv /\ TypeOK /\ Gone(c)
  BY DEF Query, Delete, Unlink, SoftDelete, AtStmt, StoreInv, Inv, TypeInv, GoneInv
<1>2. own[c] # "none" /\ call[c].root \in Root /\ ip[c] \in DOMAIN Prog(c) /\ Stmt(c) = Prog(c)[ip[c]]
  BY <1>1 DEF Prog, Stmt, TypeInv, TypeOK, Control
<1>3. ip[c] \in Nat \ {0} /\ Stmt(c) \in Statements
  BY <1>1, <1>2, ArgRows
<1>4. ViewWhole(c) /\ OnCourse(c)
  BY <1>1, <1>2 DEF StoreInv, Inv, ViewsWhole, OnCourse
<1>5. ViewLive(c) \subseteq Stored(c) /\ Stored(c) \subseteq Row
  BY <1>1 DEF ViewLive, Stored, TypeOK
<1>6. UNCHANGED <<live, fk, stamp, used, ins, own, call, result>>
  BY DEF Query, Delete, Unlink, SoftDelete, store, txn
<1>7. QED
  BY <1>1, <1>2, <1>3, <1>4, <1>5, <1>6

\* A row selected by a key has the key in the database, and the row that it refers to
\* is an argument or an id of an open block.
LEMMA SelectedByKey ==
    ASSUME StoreInv, NEW c \in Caller, Query(c) \/ Delete(c) \/ Unlink(c) \/ SoftDelete(c),
           Stmt(c).kind # "self", NEW r \in Selected(c, Stmt(c))
    PROVE  /\ fk[r][Stmt(c).col] = ViewFk(c, r, Stmt(c).col)
           /\ fk[r][Stmt(c).col] \in Arg(c, Stmt(c).src)
           /\ Pending(c, fk[r][Stmt(c).col])
           /\ \E d \in Policy : d.child = TypeOf[r] /\ d.col = Stmt(c).col /\ d.mode = Effect(Stmt(c).kind)
<1> DEFINE P == Prog(c)
<1>1. PICK s : s = Stmt(c)
  OBVIOUS
<1>2. /\ TypeInv /\ pc[c] = "ops" /\ call[c].root \in Root /\ ip[c] \in DOMAIN P
      /\ s = P[ip[c]] /\ s \in Statements /\ ip[c] \in Nat
  BY <1>1, AtWork
<1>3. TypeOf[r] = s.type /\ ViewFk(c, r, s.col) \in Arg(c, s.src)
  BY <1>1 DEF Selected
<1>4. fk[r][s.col] = ViewFk(c, r, s.col)
  BY <1>2, <1>3, ArgRows DEF ViewFk
<1>5. \E d \in Policy : d.child = TypeOf[r] /\ d.col = s.col /\ d.mode = Effect(s.kind)
  BY ZenonT(30), <1>1, <1>2, <1>3, ProgramDeclared DEF Prog
<1>6. Pending(c, fk[r][s.col])
  <2>1. CASE s.src = 0
    BY <1>2, <1>3, <1>4, <2>1 DEF Pending, Running, Arg
  <2>2. CASE s.src # 0
    <3>1. s.src \in DOMAIN P /\ ip[c] < P[s.src].end
      BY <1>2, <2>2, ArgRows
    <3>2. s.src \in Pos /\ P[s.src] \in Statements
      BY <1>2, <3>1, ArgRows
    <3>3. ip[c] <= P[s.src].end
      BY <1>2, <3>1, <3>2 DEF Statements
    <3>4. QED
      BY <1>2, <1>3, <1>4, <2>2, <3>2, <3>3 DEF Pending, Running, Arg
  <2>3. QED
    BY <2>1, <2>2
<1>7. QED
  BY <1>1, <1>3, <1>4, <1>5, <1>6

\* What a query returns and a delete removes is doomed: it is an argument or hangs by
\* a hard delete on an argument or on a row of an earlier answer.
LEMMA SelectedWithin ==
    ASSUME StoreInv, NEW c \in Caller, Query(c) \/ Delete(c), NEW A, Sim(c, A)
    PROVE  Within(c, A, Selected(c, Stmt(c)))
<1>1. PICK s : s = Stmt(c)
  OBVIOUS
<1>2. /\ TypeInv /\ pc[c] = "ops" /\ s = Prog(c)[ip[c]] /\ ip[c] \in DOMAIN Prog(c)
      /\ ViewWhole(c) /\ ViewLive(c) \subseteq Stored(c) /\ s.kind \in {"query", "bulk", "drop", "self"}
  <2>1. s.kind \in {"query", "bulk", "drop", "self"}
    BY <1>1 DEF Query, Delete, AtStmt
  <2>2. QED
    BY <1>1, <2>1, AtWork
<1>3. SUFFICES ASSUME NEW T \in SUBSET Row, Closing(c, A, T), NEW r \in Selected(c, s)
               PROVE  r \in T
  BY <1>1, <1>3 DEF Within
<1>4. r \in ViewLive(c) /\ r \in Stored(c) /\ call[c].arg \subseteq A
  BY <1>2 DEF Selected, Sim, Args
<1>5. CASE s.kind = "self"
  BY <1>3, <1>4, <1>5 DEF Selected, Closing
<1>6. CASE s.kind # "self"
  <2>1. PICK p : p = fk[r][s.col]
    OBVIOUS
  <2>2. p \in Arg(c, s.src) /\ p = ViewFk(c, r, s.col)
    BY <1>1, <1>6, <2>1, SelectedByKey
  <2>3. PICK d \in Policy : d.child = TypeOf[r] /\ d.col = s.col /\ d.mode = "delete"
    <3>1. Effect(s.kind) = "delete"
      BY <1>2, <1>6 DEF Effect
    <3>2. \E d \in Policy : d.child = TypeOf[r] /\ d.col = s.col /\ d.mode = Effect(s.kind)
      BY <1>1, <1>6, SelectedByKey
    <3>3. QED
      BY <3>1, <3>2
  <2>4. p \in Stored(c)
    <3>1. p # Nil
      BY <1>2, <2>2, ArgRows
    <3>2. ViewFk(c, r, d.col) \in ViewLive(c) \cup {Nil}
      <4>1. ViewWhole(c) /\ r \in ViewLive(c)
        BY <1>2, <1>4
      <4>2. QED
        BY <2>3, <4>1 DEF ViewWhole
    <3>3. QED
      BY <1>2, <2>2, <2>3, <3>1, <3>2
  <2>5. p \in T
    <3>1. CASE s.src = 0
      BY <1>3, <1>4, <2>2, <2>4, <3>1 DEF Arg, Closing
    <3>2. CASE s.src # 0
      <4>1. s.src \in Pos
        BY <1>2, <3>2, ArgRows
      <4>2. Within(c, A, ids[c][s.src])
        BY <4>1 DEF Sim, IdsDoomed
      <4>3. QED
        BY <1>3, <2>2, <3>2, <4>2 DEF Arg, Within
    <3>3. QED
      BY <3>1, <3>2
  <2>6. QED
    BY <1>3, <1>4, <2>1, <2>3, <2>5 DEF Closing
<1>7. QED
  BY <1>5, <1>6

-----------------------------------------------------------------------------
(* What a statement leaves behind.                                         *)

\* Only unlinked keys differ in a transaction's view.
LEMMA KeySeen ==
    ASSUME NEW c \in Caller, ClearsDeclared(c), NEW r, NEW d \in Policy,
           d.child = TypeOf[r], d.mode # "unlink"
    PROVE  ViewFk(c, r, d.col) = fk[r][d.col]
<1>1. SUFFICES ASSUME <<r, d.col>> \in clr[c] PROVE FALSE
  BY DEF ViewFk
<1>2. PICK e \in Policy : e.child = TypeOf[r] /\ e.col = d.col /\ e.mode = "unlink"
  BY <1>1 DEF ClearsDeclared
<1>3. QED
  BY <1>2, ColumnsDeclaredOnce

\* The drop at the end of a block selects what the block's query returned, unless it
\* is deleted already.
LEMMA DropSelects ==
    ASSUME StoreInv, NEW c \in Caller, Delete(c), NEW A, Sim(c, A),
           NEW q \in Pos, NEW p \in ids[c][q], Prog(c)[q].end = ip[c]
    PROVE  Stmt(c).kind = "drop" /\ (p \in ViewLive(c) => p \in Selected(c, Stmt(c)))
<1> DEFINE P == Prog(c)
<1>1. TypeInv /\ call[c].root \in Root /\ ip[c] \in DOMAIN P /\ Stmt(c) = P[ip[c]]
  BY AtWork
<1>2. /\ q \in DOMAIN P /\ P[q].kind = "query" /\ TypeOf[p] = P[q].type
      /\ fk[p][P[q].col] \in Arg(c, P[q].src)
  BY DEF Sim, IdsDoomed
<1>3. P[q] \in Statements
  BY <1>1, <1>2, ArgRows
<1>4. Stmt(c) = [P[q] EXCEPT !.kind = "drop"]
  BY <1>1, <1>2, Blocks
<1>5. Stmt(c).type = P[q].type /\ Stmt(c).col = P[q].col /\ Stmt(c).src = P[q].src /\ Stmt(c).kind = "drop"
  BY <1>3, <1>4 DEF Statements
<1>6. PICK d \in Policy : d.child = TypeOf[p] /\ d.col = P[q].col /\ d.mode = "delete"
  <2>1. Effect(P[q].kind) = "delete"
    BY <1>2 DEF Effect
  <2>2. QED
    BY <1>1, <1>2, <2>1, ProgramDeclared DEF Prog
<1>7. ViewFk(c, p, d.col) = fk[p][d.col]
  BY <1>6, KeySeen DEF Sim
<1>8. QED
  BY <1>2, <1>5, <1>6, <1>7 DEF Selected

\* Where the call goes on: with the next statement, behind an empty block, or, only
\* after the delete of the entity itself, no further.
LEMMA GoesOn ==
    ASSUME StoreInv, NEW c \in Caller, Query(c) \/ Delete(c) \/ Unlink(c) \/ SoftDelete(c)
    PROVE  \/ /\ pc'[c] = "ops"
              /\ \/ ip'[c] = ip[c] + 1
                 \/ Query(c) /\ ip'[c] = Stmt(c).end + 1
           \/ /\ pc'[c] \in {"post", "finish"} /\ ip'[c] = ip[c] /\ ip[c] = Len(Prog(c))
              /\ Delete(c) /\ Stmt(c).kind = "self" /\ Stmt(c).type = call[c].root
<1> DEFINE P == Prog(c)
<1>1. /\ TypeInv /\ TypeOK /\ pc[c] = "ops" /\ call[c].root \in Root /\ ip[c] \in DOMAIN P
      /\ ip[c] \in Nat \ {0} /\ Stmt(c) = P[ip[c]] /\ Stmt(c) \in Statements
  BY AtWork
<1>2. Len(P) \in Nat /\ DOMAIN P = 1 .. Len(P) /\ P = Program[call[c].root]
  BY <1>1, ProgramShape DEF Prog
<1>3. CASE Query(c)
  <2>1. Stmt(c).kind = "query" /\ Stmt(c).end \in Nat
    <3>1. Stmt(c).kind = "query"
      BY <1>3 DEF Query, AtStmt
    <3>2. QED
      BY <1>1, <3>1 DEF Statements
  <2>2. Stmt(c).end < Len(P) /\ ip[c] < Stmt(c).end
    <3>1. P[ip[c]].kind = "query" /\ P = Program[call[c].root]
      BY <1>1, <1>2, <2>1
    <3>2. P[ip[c]].end < Len(P) /\ ip[c] < P[ip[c]].end
      BY <1>1, <3>1, QueryEnds
    <3>3. QED
      BY <1>1, <3>2
  <2>3. PICK i \in {Stmt(c).end + 1, ip[c] + 1} : Advance(c, i)
    BY <1>3 DEF Query
  <2>4. i <= Len(P)
    BY <1>1, <1>2, <2>1, <2>2, <2>3
  <2>5. ip'[c] = i /\ pc'[c] = "ops"
    BY <1>1, <1>2, <2>3, <2>4 DEF Advance, TypeOK
  <2>6. QED
    BY <1>3, <2>3, <2>5
<1>4. CASE ~Query(c)
  <2>1. Advance(c, ip[c] + 1)
    BY <1>4 DEF Delete, Unlink, SoftDelete
  <2>2. CASE ip[c] + 1 <= Len(P)
    BY <1>1, <1>2, <2>1, <2>2 DEF Advance, TypeOK
  <2>3. CASE ~(ip[c] + 1 <= Len(P))
    <3>1. ip[c] = Len(P)
      BY <1>1, <1>2, <2>3
    <3>2. P[Len(P)].kind = "self" /\ P[Len(P)].type = call[c].root
      BY <1>1, <1>2, ProgramEndsWithSelf
    <3>3. Delete(c)
      BY <1>1, <1>4, <3>1, <3>2 DEF Unlink, SoftDelete, AtStmt
    <3>4. pc'[c] \in {"post", "finish"} /\ ip'[c] = ip[c]
      BY <1>1, <1>2, <2>1, <2>3 DEF Advance, Goto, TypeOK
    <3>5. QED
      BY <1>1, <3>1, <3>2, <3>3, <3>4
  <2>4. QED
    BY <2>2, <2>3
<1>5. QED
  BY <1>3, <1>4

\* What a statement does to its transaction.
LEMMA Effects ==
    ASSUME StoreInv, NEW c \in Caller, Query(c) \/ Delete(c) \/ Unlink(c) \/ SoftDelete(c)
    PROVE  /\ del'[c] = IF Delete(c) THEN del[c] \cup Selected(c, Stmt(c)) ELSE del[c]
           /\ ids'[c] = IF Query(c) THEN [ids[c] EXCEPT ![ip[c]] = Selected(c, Stmt(c))] ELSE ids[c]
           /\ clr'[c] = IF Unlink(c) THEN clr[c] \cup { <<r, Stmt(c).col>> : r \in Selected(c, Stmt(c)) }
                        ELSE clr[c]
           /\ soft'[c] = IF SoftDelete(c)
                         THEN [r \in Row |-> IF r \in Selected(c, Stmt(c)) THEN now ELSE soft[c][r]]
                         ELSE soft[c]
           /\ now' = IF SoftDelete(c) THEN now + 1 ELSE now
           /\ ViewLive(c)' = IF Delete(c) THEN ViewLive(c) \ Selected(c, Stmt(c)) ELSE ViewLive(c)
<1>1. TypeOK /\ UNCHANGED <<live, ins>> /\ Taken(c) = Selected(c, Stmt(c))
  BY AtWork, TakenRows DEF StoreInv, Inv
<1>2. CASE Query(c)
  <2>1. ~Delete(c) /\ ~Unlink(c) /\ ~SoftDelete(c)
    BY <1>2 DEF Query, Delete, Unlink, SoftDelete, AtStmt
  <2>2. QED
    BY <1>1, <1>2, <2>1 DEF Query, txn, TypeOK, ViewLive
<1>3. CASE Delete(c)
  <2>1. ~Query(c) /\ ~Unlink(c) /\ ~SoftDelete(c)
    BY <1>3 DEF Query, Delete, Unlink, SoftDelete, AtStmt
  <2>2. QED
    BY <1>1, <1>3, <2>1 DEF Delete, TypeOK, ViewLive
<1>4. CASE Unlink(c)
  <2>1. ~Query(c) /\ ~Delete(c) /\ ~SoftDelete(c)
    BY <1>4 DEF Query, Delete, Unlink, SoftDelete, AtStmt
  <2>2. QED
    BY <1>1, <1>4, <2>1 DEF Unlink, TypeOK, ViewLive
<1>5. CASE SoftDelete(c)
  <2>1. ~Query(c) /\ ~Delete(c) /\ ~Unlink(c)
    BY <1>5 DEF Query, Delete, Unlink, SoftDelete, AtStmt
  <2>2. QED
    BY <1>1, <1>5, <2>1 DEF SoftDelete, TypeOK, ViewLive
<1>6. QED
  BY <1>2, <1>3, <1>4, <1>5

\* A stored row that a call has still to delete is deleted now or still pending.
LEMMA PendingSettles ==
    ASSUME StoreInv, NEW c \in Caller, Query(c) \/ Delete(c) \/ Unlink(c) \/ SoftDelete(c),
           NEW A, Sim(c, A), NEW p \in Stored(c), Pending(c, p)
    PROVE  p \in del'[c] \/ Pending(c, p)'
<1> DEFINE P == Prog(c)
<1>1. /\ TypeInv /\ TypeOK /\ Gone(c) /\ pc[c] = "ops" /\ call[c].root \in Root /\ ip[c] \in DOMAIN P
      /\ ip[c] \in Nat \ {0} /\ Stmt(c) = P[ip[c]] /\ Stmt(c) \in Statements /\ UNCHANGED <<call, live, ins>>
  BY AtWork
<1>2. SUFFICES ASSUME p \notin del'[c] PROVE Pending(c, p)'
  OBVIOUS
<1>3. CASE p \in call[c].arg
  <2>1. SUFFICES ASSUME pc'[c] # "ops" PROVE FALSE
    BY <1>1, <1>3, <2>1 DEF Pending, Running
  <2>2. pc'[c] \in {"post", "finish"}
    BY <2>1, GoesOn
  <2>3. p \notin ViewLive(c)'
    BY <1>1, <1>3, <2>2, LastStatementDeletes
  <2>4. QED
    BY <1>1, <1>2, <2>3 DEF Stored, ViewLive
<1>4. CASE p \notin call[c].arg
  <2>1. PICK q \in Pos : p \in ids[c][q] /\ ip[c] <= P[q].end
    BY <1>4 DEF Pending
  <2>2. q \in DOMAIN P /\ q < ip[c] /\ P[q].kind = "query"
    BY <2>1 DEF Sim, IdsDoomed
  <2>3. P[q] \in Statements /\ P[q].end \in Nat /\ q \in Nat /\ P[q].end < Len(P) /\ Len(P) \in Nat
    <3>1. P[q] \in Statements /\ P[q].end \in Nat /\ q \in Nat
      BY <1>1, <2>2, ArgRows DEF Statements
    <3>2. P[q].end < Len(P) /\ Len(P) \in Nat
      BY <1>1, <2>2, ProgramScoped, ProgramShape DEF Prog
    <3>3. QED
      BY <3>1, <3>2
  <2>4. P[q].end # ip[c]
    <3>1. SUFFICES ASSUME P[q].end = ip[c] PROVE FALSE
      OBVIOUS
    <3>2. Stmt(c).kind = "drop"
      <4>1. Stmt(c) = [P[q] EXCEPT !.kind = "drop"]
        BY <1>1, <2>2, <3>1, Blocks
      <4>2. QED
        BY <2>3, <4>1 DEF Statements
    <3>3. Delete(c)
      BY <3>2 DEF Query, Unlink, SoftDelete, AtStmt
    <3>4. p \in ViewLive(c) => p \in Selected(c, Stmt(c))
      BY <2>1, <3>1, <3>3, DropSelects
    <3>5. p \in del'[c]
      BY <3>3, <3>4, Effects DEF Stored, ViewLive
    <3>6. QED
      BY <1>2, <3>5
  <2>5. pc'[c] = "ops"
    BY <1>1, <2>1, <2>3, GoesOn
  <2>6. ids'[c][q] = ids[c][q]
    <3>1. q # ip[c]
      BY <1>1, <2>2, <2>3
    <3>2. CASE Query(c)
      <4>1. ids'[c] = [ids[c] EXCEPT ![ip[c]] = Selected(c, Stmt(c))]
        BY <3>2, Effects
      <4>2. ids[c] \in [Pos -> SUBSET Row]
        BY <1>1 DEF TypeOK
      <4>3. QED
        BY <2>1, <3>1, <4>1, <4>2
    <3>3. CASE ~Query(c)
      BY <3>3, Effects
    <3>4. QED
      BY <3>2, <3>3
  <2>7. ip'[c] <= P[q].end
    <3>1. CASE ip'[c] = ip[c] + 1
      BY <1>1, <2>1, <2>3, <2>4, <3>1
    <3>2. CASE Query(c) /\ ip'[c] = Stmt(c).end + 1
      <4>1. Stmt(c).kind = "query" /\ Stmt(c).end \in Nat
        BY <1>1, <3>2 DEF Query, AtStmt, Statements
      <4>2. ip[c] < P[q].end
        BY <1>1, <2>1, <2>3, <2>4
      <4>3. Stmt(c).end < P[q].end
        <5>1. TypeInv /\ q \in DOMAIN Prog(c) /\ ip[c] \in DOMAIN Prog(c) /\ Prog(c)[q].kind = "query"
          BY <1>1, <2>2
        <5>2. \A k \in DOMAIN Prog(c) : q < k /\ k < Prog(c)[q].end =>
                 (Prog(c)[k].kind = "query" => Prog(c)[k].end < Prog(c)[q].end)
          BY <5>1, Blocks
        <5>3. q < ip[c] /\ ip[c] < Prog(c)[q].end /\ Stmt(c) = Prog(c)[ip[c]]
          BY <1>1, <2>2, <4>2
        <5>4. QED
          BY <4>1, <5>1, <5>2, <5>3
      <4>4. QED
        BY <2>3, <3>2, <4>1, <4>3
    <3>3. QED
      BY <2>5, <3>1, <3>2, GoesOn
  <2>8. Prog(c)' = P
    BY <1>1 DEF Prog
  <2>9. QED
    BY <2>1, <2>5, <2>6, <2>7, <2>8 DEF Pending, Running
<1>5. QED
  BY <1>3, <1>4

\* The soft dependents of what a delete removes are stamped before it, and those of
\* the arguments also when an argument is not stored.
LEMMA SoftCovered ==
    ASSUME StoreInv, NEW c \in Caller, Delete(c), NEW A, Sim(c, A),
           NEW r \in ViewLive(c), NEW d \in Policy, d.child = TypeOf[r], d.mode = "soft",
           \/ fk[r][d.col] \in Selected(c, Stmt(c))
           \/ /\ Stmt(c).kind = "self" /\ Stmt(c).type = call[c].root
              /\ fk[r][d.col] \in call[c].arg
    PROVE  soft[c][r] > 0
<1> DEFINE P == Prog(c)
<1> DEFINE i == ip[c]
<1>1. PICK p : p = fk[r][d.col]
  OBVIOUS
<1>2. /\ TypeInv /\ TypeOK /\ Gone(c) /\ pc[c] = "ops" /\ call[c].root \in Root /\ i \in DOMAIN P
      /\ i \in Nat \ {0} /\ Stmt(c) = P[i] /\ Stmt(c) \in Statements
      /\ r \in Row /\ P[i].kind \in {"bulk", "drop", "self"}
  <2>1. Stmt(c).kind \in {"bulk", "drop", "self"}
    BY DEF Delete, AtStmt
  <2>2. r \in Row
    BY AtWork
  <2>3. QED
    BY <2>1, <2>2, AtWork
<1>3. TypeOf[p] = P[i].type /\ p \in Row /\ p # Nil
  <2>1. p \in Row /\ TypeOf[p] = P[i].type
    BY <1>1, <1>2 DEF Selected, ViewLive, Gone, TypeOK
  <2>2. QED
    BY <2>1, Parameters
<1>4. d.parent = P[i].type
  BY <1>1, <1>2, <1>3 DEF StoreInv, Inv, KeysKept
<1>5. PICK k \in DOMAIN P :
        /\ k < i /\ P[k].kind = "soft" /\ P[k].type = d.child /\ P[k].col = d.col
        /\ \/ P[i].kind = "self" /\ P[k].src = 0
           \/ P[i].kind = "drop" /\ P[k].src # 0 /\ P[P[k].src].end = i
  <2>1. Dealing(d.mode) = {"soft"} /\ d.mode \in {"delete", "unlink", "soft"}
    BY DEF Dealing
  <2>2. i \in DOMAIN P /\ call[c].root \in Root /\ P[i].kind \in {"bulk", "drop", "self"}
    BY <1>2
  <2>3. PICK k \in DOMAIN P :
          /\ k < i /\ P[k].kind \in Dealing(d.mode) /\ P[k].type = d.child /\ P[k].col = d.col
          /\ \/ P[i].kind = "self" /\ P[k].src = 0
             \/ P[i].kind = "drop" /\ P[k].src # 0 /\ P[P[k].src].end = i
    BY <1>4, <2>1, <2>2, ProgramCovers DEF Prog
  <2>4. QED
    BY <2>1, <2>3
<1>6. Done(c, k)
  BY <1>2, <1>5 DEF StoreInv, Inv, Progress, Prog
<1>7. P[k].src = 0 \/ i <= P[P[k].src].end
  BY <1>2, <1>5
<1>8. \A x \in Selected(c, P[k]) : soft[c][x] > 0
  BY <1>5, <1>6, <1>7 DEF Done
<1>9. SUFFICES p \in Arg(c, P[k].src)
  <2>1. ViewFk(c, r, d.col) = fk[r][d.col]
    BY KeySeen DEF Sim
  <2>2. r \in Selected(c, P[k])
    BY <1>1, <1>5, <1>9, <2>1 DEF Selected
  <2>3. QED
    BY <1>8, <2>2
<1>10. CASE P[i].kind = "self" /\ P[k].src = 0
  BY <1>1, <1>2, <1>10 DEF Selected, Arg
<1>11. CASE P[i].kind = "drop" /\ P[k].src # 0 /\ P[P[k].src].end = i
  <2> DEFINE q == P[k].src
  <2>1. q \in DOMAIN P /\ q < k /\ k \in Nat /\ q \in Nat
    BY <1>2, <1>11, ArgRows
  <2>2. P[q].kind = "query" /\ P[q] \in Statements
    BY <1>2, <1>11, <2>1, ArgRows, Blocks
  <2>3. P[i] = [P[q] EXCEPT !.kind = "drop"]
    BY <1>2, <1>11, <2>1, <2>2, Blocks
  <2>4. Done(c, q)
    BY <1>2, <1>5, <2>1 DEF StoreInv, Inv, Progress, Prog
  <2>5. Selected(c, P[q]) \subseteq ids[c][q]
    BY <1>2, <1>11, <2>2, <2>4 DEF Done
  <2>6. P[i].type = P[q].type /\ P[i].col = P[q].col /\ P[i].src = P[q].src
    BY <2>2, <2>3 DEF Statements
  <2>7. Selected(c, P[i]) = Selected(c, P[q])
    BY <1>11, <2>2, <2>6 DEF Selected
  <2>8. QED
    BY <1>1, <1>2, <1>11, <2>5, <2>7 DEF Arg
<1>12. QED
  BY <1>5, <1>10, <1>11

-----------------------------------------------------------------------------
(* A statement leaves its transaction on course.                           *)

\* What a transaction works on and what it dooms change with nothing but these.
LEMMA SameRows ==
    ASSUME NEW c \in Caller, UNCHANGED <<live, fk, ins[c]>>, NEW A, NEW X
    PROVE  Stored(c)' = Stored(c) /\ (Within(c, A, X) => Within(c, A, X)')
BY DEF Stored, Closing, Within

LEMMA StatementArgs ==
    ASSUME StoreInv, NEW c \in Caller, Query(c) \/ Delete(c) \/ Unlink(c) \/ SoftDelete(c),
           NEW A, Sim(c, A)
    PROVE  Args(c, A)'
<1>1. /\ TypeInv /\ TypeOK /\ Gone(c) /\ pc[c] = "ops" /\ UNCHANGED <<call, used, own>>
      /\ Args(c, A) /\ call[c].arg \subseteq A /\ ViewLive(c)' \subseteq ViewLive(c)
  BY AtWork, Effects DEF Sim, Args
<1>2. (A \ InCall(c))' \cap ViewLive(c)' = {}
  <2>1. CASE pc'[c] = "ops"
    BY <1>1, <2>1 DEF Args, InCall, Running
  <2>2. CASE pc'[c] # "ops"
    <3>1. pc'[c] \in {"post", "finish"}
      BY <2>2, GoesOn
    <3>2. call[c].arg \cap ViewLive(c)' = {}
      BY <1>1, <3>1, LastStatementDeletes
    <3>3. QED
      BY <1>1, <3>2 DEF Args, InCall, Running
  <2>3. QED
    BY <2>1, <2>2
<1>3. QED
  BY <1>1, <1>2 DEF Args

LEMMA StatementDeletes ==
    ASSUME StoreInv, NEW c \in Caller, Query(c) \/ Delete(c) \/ Unlink(c) \/ SoftDelete(c),
           NEW A, Sim(c, A)
    PROVE  DeletesDoomed(c, A)'
<1>1. UNCHANGED <<live, fk, ins>> /\ ViewLive(c) \subseteq Stored(c) /\ DeletesDoomed(c, A)
  BY AtWork DEF Sim
<1>2. CASE Delete(c)
  <2>1. Selected(c, Stmt(c)) \subseteq Stored(c) /\ Within(c, A, Selected(c, Stmt(c)))
    BY <1>1, <1>2, SelectedWithin DEF Selected
  <2>2. del'[c] = del[c] \cup Selected(c, Stmt(c))
    BY <1>2, Effects
  <2>3. Within(c, A, del'[c])
    BY <1>1, <2>1, <2>2 DEF DeletesDoomed, Within
  <2>4. QED
    BY <1>1, <2>1, <2>2, <2>3, SameRows DEF DeletesDoomed
<1>3. CASE ~Delete(c)
  BY <1>1, <1>3, Effects, SameRows DEF DeletesDoomed
<1>4. QED
  BY <1>2, <1>3

LEMMA StatementIds ==
    ASSUME StoreInv, NEW c \in Caller, Query(c) \/ Delete(c) \/ Unlink(c) \/ SoftDelete(c),
           NEW A, Sim(c, A)
    PROVE  IdsDoomed(c, A)'
<1> DEFINE P == Prog(c)
<1>1. /\ TypeInv /\ TypeOK /\ UNCHANGED <<live, fk, ins, call>> /\ ip[c] \in DOMAIN P /\ ip[c] \in Nat
      /\ Stmt(c) = P[ip[c]] /\ Stmt(c) \in Statements /\ ViewLive(c) \subseteq Stored(c)
      /\ P' = P /\ Stored(c)' = Stored(c) /\ IdsDoomed(c, A) /\ ids[c] \in [Pos -> SUBSET Row]
  BY AtWork, SameRows DEF Prog, Sim, TypeOK
<1>2. /\ ip'[c] \in Nat /\ ip[c] <= ip'[c] /\ (Query(c) => ip[c] < ip'[c])
  <2>1. Query(c) => Stmt(c).end \in Nat /\ ip[c] < Stmt(c).end
    <3>1. SUFFICES ASSUME Query(c) PROVE Stmt(c).end \in Nat /\ ip[c] < Stmt(c).end
      OBVIOUS
    <3>2. Stmt(c).kind = "query"
      BY <3>1 DEF Query, AtStmt
    <3>3. ip[c] < P[ip[c]].end
      BY <1>1, <3>2, Blocks
    <3>4. QED
      BY <1>1, <3>2, <3>3 DEF Statements
  <2>2. ~(Query(c) /\ Delete(c))
    BY DEF Query, Delete, AtStmt
  <2>3. QED
    BY <1>1, <2>1, <2>2, GoesOn
<1>3. SUFFICES ASSUME NEW q \in Pos
               PROVE  /\ Within(c, A, ids[c][q])'
                      /\ \A r \in ids'[c][q] :
                            /\ q \in DOMAIN P /\ q < ip'[c] /\ P[q].kind = "query" /\ r \in Stored(c)
                            /\ TypeOf[r] = P[q].type /\ fk[r][P[q].col] \in Arg(c, P[q].src)'
  BY <1>1, <1>3 DEF IdsDoomed
<1>4. ASSUME q \in DOMAIN P, q <= ip[c] PROVE Arg(c, P[q].src)' = Arg(c, P[q].src)
  <2>1. P[q].src # 0 => P[q].src \in DOMAIN P /\ P[q].src < q /\ P[q].src \in Nat /\ P[q].src \in Pos
    <3>1. P[q].src # 0 => P[q].src \in DOMAIN P /\ P[q].src < q
      BY <1>1, <1>4, ArgRows
    <3>2. QED
      BY <1>1, <3>1, ArgRows
  <2>2. q \in Nat /\ (P[q].src # 0 => P[q].src # ip[c])
    BY <1>1, <1>4, <2>1, ArgRows
  <2>3. P[q].src # 0 => ids'[c][P[q].src] = ids[c][P[q].src]
    BY <1>1, <2>1, <2>2, Effects
  <2>4. QED
    BY <1>1, <2>3 DEF Arg
<1>5. CASE Query(c) /\ q = ip[c]
  <2>1. ids'[c][q] = Selected(c, Stmt(c))
    BY <1>1, <1>3, <1>5, Effects
  <2>2. Stmt(c).kind = "query"
    BY <1>5 DEF Query, AtStmt
  <2>3. Within(c, A, Selected(c, Stmt(c)))
    BY <1>5, SelectedWithin
  <2>4. ASSUME NEW r \in Selected(c, Stmt(c))
        PROVE  r \in Stored(c) /\ TypeOf[r] = P[q].type /\ fk[r][P[q].col] \in Arg(c, P[q].src)'
    <3>1. fk[r][P[q].col] \in Arg(c, P[q].src)
      BY <1>1, <1>5, <2>2, SelectedByKey
    <3>2. Arg(c, P[q].src)' = Arg(c, P[q].src)
      BY <1>1, <1>4, <1>5
    <3>3. QED
      BY <1>1, <1>5, <3>1, <3>2 DEF Selected
  <2>5. Within(c, A, ids[c][q])'
    BY <1>1, <2>1, <2>3, SameRows
  <2>6. q \in DOMAIN P /\ q < ip'[c] /\ P[q].kind = "query"
    BY <1>1, <1>2, <1>5, <2>2
  <2>7. QED
    BY <2>1, <2>4, <2>5, <2>6
<1>6. CASE ~(Query(c) /\ q = ip[c])
  <2>1. ids'[c][q] = ids[c][q]
    BY <1>1, <1>3, <1>6, Effects
  <2>2. Within(c, A, ids[c][q])'
    BY <1>1, <2>1, SameRows DEF IdsDoomed
  <2>3. ASSUME NEW r \in ids[c][q]
        PROVE  /\ q \in DOMAIN P /\ q < ip'[c] /\ P[q].kind = "query" /\ r \in Stored(c)
               /\ TypeOf[r] = P[q].type /\ fk[r][P[q].col] \in Arg(c, P[q].src)'
    <3>1. /\ q \in DOMAIN P /\ q < ip[c] /\ P[q].kind = "query" /\ r \in Stored(c)
          /\ TypeOf[r] = P[q].type /\ fk[r][P[q].col] \in Arg(c, P[q].src)
      BY <1>1 DEF IdsDoomed
    <3>2. q \in Nat
      BY <1>1, <3>1, ArgRows
    <3>3. q < ip'[c] /\ q <= ip[c]
      BY <1>1, <1>2, <3>1, <3>2
    <3>4. QED
      BY <1>4, <3>1, <3>3
  <2>4. QED
    BY <2>1, <2>2, <2>3
<1>7. QED
  BY <1>5, <1>6

LEMMA StatementClears ==
    ASSUME StoreInv, NEW c \in Caller, Query(c) \/ Delete(c) \/ Unlink(c) \/ SoftDelete(c),
           NEW A, Sim(c, A)
    PROVE  ClearsDeclared(c)'
<1>1. UNCHANGED <<live, fk, ins>> /\ Stored(c)' = Stored(c) /\ del[c] \subseteq del'[c]
  BY AtWork, SameRows, Effects
<1>2. SUFFICES ASSUME NEW x \in clr'[c]
               PROVE  /\ fk[x[1]][x[2]] \in Stored(c)
                      /\ fk[x[1]][x[2]] \in del[c] \/ Pending(c, fk[x[1]][x[2]])
                      /\ \E d \in Policy : d.child = TypeOf[x[1]] /\ d.col = x[2] /\ d.mode = "unlink"
  <2>1. ASSUME NEW x \in clr'[c]
        PROVE  fk[x[1]][x[2]] \in del'[c] \/ Pending(c, fk[x[1]][x[2]])'
    BY <1>1, <1>2, <2>1, PendingSettles
  <2>2. QED
    BY <1>1, <1>2, <2>1 DEF ClearsDeclared
<1>3. CASE x \in clr[c]
  BY <1>3 DEF Sim, ClearsDeclared
<1>4. CASE x \notin clr[c]
  <2>1. Unlink(c)
    BY <1>2, <1>4, Effects
  <2>2. PICK r \in Selected(c, Stmt(c)) : x = <<r, Stmt(c).col>>
    BY <1>2, <1>4, <2>1, Effects
  <2>3. Stmt(c).kind = "unlink"
    BY <2>1 DEF Unlink, AtStmt
  <2>4. PICK p : p = fk[r][Stmt(c).col]
    OBVIOUS
  <2>5. p = ViewFk(c, r, Stmt(c).col) /\ p \in Arg(c, Stmt(c).src) /\ Pending(c, p)
    BY <2>1, <2>3, <2>4, SelectedByKey
  <2>6. PICK d \in Policy : d.child = TypeOf[r] /\ d.col = Stmt(c).col /\ d.mode = "unlink"
    <3>1. Effect(Stmt(c).kind) = "unlink"
      BY <2>3 DEF Effect
    <3>2. \E d \in Policy : d.child = TypeOf[r] /\ d.col = Stmt(c).col /\ d.mode = Effect(Stmt(c).kind)
      BY <2>1, <2>3, SelectedByKey
    <3>3. QED
      BY <3>1, <3>2
  <2>7. p \in Stored(c)
    <3>1. /\ TypeInv /\ Stmt(c) = Prog(c)[ip[c]] /\ ip[c] \in DOMAIN Prog(c)
          /\ ViewWhole(c) /\ ViewLive(c) \subseteq Stored(c)
      BY AtWork
    <3>2. r \in ViewLive(c)
      BY DEF Selected
    <3>3. ViewFk(c, r, d.col) \in ViewLive(c) \cup {Nil}
      BY <2>6, <3>1, <3>2 DEF ViewWhole
    <3>4. p # Nil
      BY <2>5, <3>1, ArgRows
    <3>5. QED
      BY <2>5, <2>6, <3>1, <3>3, <3>4
  <2>8. x[1] = r /\ x[2] = Stmt(c).col
    BY <2>2
  <2>9. QED
    BY <2>4, <2>5, <2>6, <2>7, <2>8
<1>5. QED
  BY <1>3, <1>4

LEMMA StatementStamps ==
    ASSUME StoreInv, NEW c \in Caller, Query(c) \/ Delete(c) \/ Unlink(c) \/ SoftDelete(c),
           NEW A, Sim(c, A)
    PROVE  StampsDeclared(c, A)' /\ StampsComplete(c, A)'
<1>1. /\ UNCHANGED <<live, fk, stamp, ins, call>> /\ Stored(c)' = Stored(c) /\ del[c] \subseteq del'[c]
      /\ TypeInv /\ TypeOK /\ Gone(c) /\ ViewLive(c) \subseteq Stored(c) /\ Stored(c) \subseteq Row
      /\ pc[c] = "ops"
  BY AtWork, SameRows, Effects
<1>2. now \in Nat /\ now' \in Nat /\ now <= now' /\ (SoftDelete(c) => now < now')
  <2>1. now \in Nat
    BY <1>1 DEF TypeOK
  <2>2. now' = IF SoftDelete(c) THEN now + 1 ELSE now
    BY Effects
  <2>3. QED
    BY <2>1, <2>2
<1>3. SoftDelete(c) => Stmt(c).kind = "soft"
  BY DEF SoftDelete, AtStmt
<1>4. \A r \in Row : soft'[c][r] = IF SoftDelete(c) /\ r \in Selected(c, Stmt(c)) THEN now ELSE soft[c][r]
  BY Effects
<1>5. \A r \in Row : soft[c][r] \in Nat /\ stamp[r] \in Nat /\ stamp[r] < now /\ soft'[c][r] \in Nat
  <2>1. \A r \in Row : soft[c][r] \in Nat /\ stamp[r] \in Nat /\ stamp[r] < now
    BY <1>1 DEF TypeOK, StoreInv, Ledger
  <2>2. QED
    BY <1>2, <1>4, <2>1
<1>6. StampsDeclared(c, A)'
  <2>1. SUFFICES ASSUME NEW r \in Row, soft'[c][r] > 0
                 PROVE  /\ r \in Stored(c) /\ soft'[c][r] < now' /\ soft'[c][r] > stamp[r]
                        /\ \E d \in Policy :
                              /\ d.child = TypeOf[r] /\ d.mode = "soft"
                              /\ fk[r][d.col] \in A \cup del[c] \/ Pending(c, fk[r][d.col])
    <3>1. ASSUME NEW p, p \in A \cup del[c] \/ Pending(c, p)
          PROVE  p \in A \cup del'[c] \/ Pending(c, p)'
      <4>1. CASE p \in A \cup del[c] \cup Stored(c)
        BY <1>1, <3>1, <4>1, PendingSettles
      <4>2. CASE p \notin A \cup del[c] \cup Stored(c)
        BY <1>1, <3>1, <4>2 DEF Pending, Sim, Args, IdsDoomed
      <4>3. QED
        BY <4>1, <4>2
    <3>2. QED
      BY <1>1, <2>1, <3>1 DEF StampsDeclared
  <2>2. CASE ~(SoftDelete(c) /\ r \in Selected(c, Stmt(c)))
    <3>1. soft'[c][r] = soft[c][r] /\ soft[c][r] > 0
      BY <1>4, <2>1, <2>2
    <3>2. /\ r \in Stored(c) /\ soft[c][r] < now /\ soft[c][r] > stamp[r]
          /\ \E d \in Policy :
                /\ d.child = TypeOf[r] /\ d.mode = "soft"
                /\ fk[r][d.col] \in A \cup del[c] \/ Pending(c, fk[r][d.col])
      BY <3>1 DEF Sim, StampsDeclared
    <3>3. soft'[c][r] < now'
      BY <1>2, <1>5, <3>1, <3>2
    <3>4. QED
      BY <3>1, <3>2, <3>3
  <2>3. CASE SoftDelete(c) /\ r \in Selected(c, Stmt(c))
    <3>1. soft'[c][r] = now /\ r \in Stored(c)
      BY <1>1, <1>4, <2>3 DEF Selected
    <3>2. Pending(c, fk[r][Stmt(c).col])
      BY <1>3, <2>3, SelectedByKey
    <3>3. Effect(Stmt(c).kind) = "soft"
      BY <1>3, <2>3 DEF Effect
    <3>4. \E d \in Policy : d.child = TypeOf[r] /\ d.col = Stmt(c).col /\ d.mode = "soft"
      BY <1>3, <2>3, <3>3, SelectedByKey
    <3>5. soft'[c][r] < now' /\ soft'[c][r] > stamp[r]
      BY <1>2, <1>5, <2>3, <3>1
    <3>6. QED
      BY <3>1, <3>2, <3>4, <3>5
  <2>4. QED
    BY <2>2, <2>3
<1>7. StampsComplete(c, A)'
  <2>1. SUFFICES ASSUME NEW r \in ViewLive(c)', NEW d \in Policy, d.child = TypeOf[r], d.mode = "soft",
                        fk[r][d.col] \in del'[c] \cup (A \ InCall(c)')
                 PROVE  soft'[c][r] > 0
    BY <1>1, <2>1 DEF StampsComplete
  <2>2. r \in ViewLive(c) /\ r \in Row
    BY <1>1, Effects
  <2>3. SUFFICES soft[c][r] > 0
    BY <1>1, <1>2, <1>4, <1>5, <2>2, <2>3 DEF TypeOK
  <2>4. CASE fk[r][d.col] \in del[c] \cup (A \ InCall(c))
    BY <2>1, <2>2, <2>4 DEF Sim, StampsComplete
  <2>5. CASE fk[r][d.col] \notin del[c] \cup (A \ InCall(c))
    <3>1. InCall(c) = call[c].arg
      BY <1>1 DEF InCall, Running
    <3>2. CASE fk[r][d.col] \in del'[c]
      <4>1. Delete(c) /\ fk[r][d.col] \in Selected(c, Stmt(c))
        BY <2>5, <3>2, Effects
      <4>2. QED
        BY <2>1, <2>2, <4>1, SoftCovered
    <3>3. CASE fk[r][d.col] \notin del'[c]
      <4>1. fk[r][d.col] \in call[c].arg /\ InCall(c)' # call[c].arg
        BY <2>1, <2>5, <3>1, <3>3
      <4>2. pc'[c] # "ops"
        BY <1>1, <4>1 DEF InCall, Running
      <4>3. Delete(c) /\ Stmt(c).kind = "self" /\ Stmt(c).type = call[c].root
        BY <4>2, GoesOn
      <4>4. QED
        BY <2>1, <2>2, <4>1, <4>3, SoftCovered
    <3>4. QED
      BY <3>2, <3>3
  <2>6. QED
    BY <2>4, <2>5
<1>8. QED
  BY <1>6, <1>7

LEMMA StatementSim ==
    ASSUME StoreInv, NEW c \in Caller, Query(c) \/ Delete(c) \/ Unlink(c) \/ SoftDelete(c),
           NEW A, Sim(c, A)
    PROVE  Sim(c, A)'
BY StatementArgs, StatementDeletes, StatementIds, StatementClears, StatementStamps DEF Sim

-----------------------------------------------------------------------------
(* Hooks, and what starts and ends calls.                                  *)

\* A step that touches nothing of a transaction leaves it on course.
LEMMA SimStutter ==
    ASSUME NEW c \in Caller, NEW A, Sim(c, A),
           UNCHANGED <<live, fk, stamp, used, now>>,
           UNCHANGED <<ins[c], del[c], clr[c], soft[c], own[c], pc[c], ip[c], ids[c], call[c]>>
    PROVE  Sim(c, A)'
<1>1. Stored(c)' = Stored(c) /\ ViewLive(c)' = ViewLive(c) /\ Prog(c)' = Prog(c) /\ InCall(c)' = InCall(c)
  BY DEF Stored, ViewLive, Prog, InCall, Running
<1>2. /\ \A p : Pending(c, p)' <=> Pending(c, p)
      /\ \A q : Arg(c, q)' = Arg(c, q)
  BY <1>1 DEF Pending, Running, Arg
<1>3. \A X : Within(c, A, X)' <=> Within(c, A, X)
  BY <1>1 DEF Within, Closing
<1>4. Args(c, A)' /\ DeletesDoomed(c, A)'
  BY <1>1, <1>3 DEF Sim, Args, DeletesDoomed
<1>5. IdsDoomed(c, A)'
  BY <1>1, <1>2, <1>3 DEF Sim, IdsDoomed
<1>6. ClearsDeclared(c)'
  BY <1>1, <1>2 DEF Sim, ClearsDeclared
<1>7. StampsDeclared(c, A)' /\ StampsComplete(c, A)'
  BY <1>1, <1>2 DEF Sim, StampsDeclared, StampsComplete
<1>8. QED
  BY <1>4, <1>5, <1>6, <1>7 DEF Sim

\* A hook leaves the call's locals and its writes alone; a row that it inserts hangs
\* on rows the transaction still has.
LEMMA HookSim ==
    ASSUME StoreInv, NEW c \in Caller, NEW A \in SUBSET Row, Sim(c, A),
           PreHook(c) \/ PostHook(c)
    PROVE  Sim(c, A)'
<1>1. /\ TypeOK /\ HookWrites(c) /\ Control
      /\ UNCHANGED <<live, fk, stamp, now, del, clr, soft, own, ip, ids, call>>
      /\ \/ pc[c] = "pre" /\ pc'[c] = "ops"
         \/ pc[c] = "post" /\ pc'[c] = "finish"
  <2>1. TypeOK /\ Control
    BY DEF StoreInv, Inv, TypeInv
  <2>2. CASE PreHook(c)
    BY <2>1, <2>2 DEF PreHook, Hook, Goto, store, TypeOK
  <2>3. CASE PostHook(c)
    BY <2>1, <2>3 DEF PostHook, Hook, Goto, store, TypeOK
  <2>4. QED
    BY <2>2, <2>3
<1>2. /\ Prog(c)' = Prog(c) /\ InCall(c)' = InCall(c)
      /\ \A p : Pending(c, p)' <=> Pending(c, p)
      /\ \A q : Arg(c, q)' = Arg(c, q)
  BY <1>1 DEF Prog, InCall, Pending, Running, Arg
<1>3. PICK new \in SUBSET (HookRows \ used) :
         /\ used' = used \cup new /\ ins'[c] = ins[c] \cup new
         /\ \A r \in new : RefsIn(r, ViewLive(c))
  <2>1. CASE UNCHANGED <<ins, used>>
    <3>1. used' = used \cup {} /\ ins'[c] = ins[c] \cup {} /\ {} \in SUBSET (HookRows \ used)
      BY <2>1
    <3>2. QED
      BY <3>1
  <2>2. CASE ~UNCHANGED <<ins, used>>
    <3>1. PICK r \in HookRows \ used :
             /\ RefsIn(r, ViewLive(c)) /\ ins' = [ins EXCEPT ![c] = @ \cup {r}] /\ used' = used \cup {r}
      BY <1>1, <2>2 DEF HookWrites
    <3>2. ins'[c] = ins[c] \cup {r}
      BY <1>1, <3>1 DEF TypeOK
    <3>3. QED
      BY <3>1, <3>2
  <2>3. QED
    BY <2>1, <2>2
<1>4. /\ Stored(c)' = Stored(c) \cup new /\ new \cap (A \cup del[c]) = {} /\ new \subseteq Row
      /\ ViewLive(c)' = ViewLive(c) \cup new /\ del[c] \subseteq Row
  <2>1. Stored(c) \subseteq used /\ new \subseteq Row /\ del[c] \subseteq Row
    BY <1>1, Parameters DEF Stored, TypeOK, Control
  <2>2. new \cap (A \cup del[c]) = {}
    BY <2>1 DEF Sim, Args, DeletesDoomed
  <2>3. QED
    BY <1>1, <1>3, <2>1, <2>2 DEF Stored, ViewLive
<1>5. \A X : Within(c, A, X) => Within(c, A, X)'
  BY <1>1, <1>4 DEF Within, Closing
<1>6. Args(c, A)'
  <2>1. pc[c] # "idle"
    BY <1>1
  <2>2. QED
    BY <1>1, <1>2, <1>3, <1>4, <2>1 DEF Sim, Args
<1>7. DeletesDoomed(c, A)'
  BY <1>1, <1>4, <1>5 DEF Sim, DeletesDoomed
<1>8. IdsDoomed(c, A)'
  BY <1>1, <1>2, <1>4, <1>5 DEF Sim, IdsDoomed
<1>9. ClearsDeclared(c)'
  BY <1>1, <1>2, <1>4 DEF Sim, ClearsDeclared
<1>10. StampsDeclared(c, A)'
  BY <1>1, <1>2, <1>4 DEF Sim, StampsDeclared
<1>11. StampsComplete(c, A)'
  <2>1. SUFFICES ASSUME NEW r \in ViewLive(c) \cup new, NEW d \in Policy, d.child = TypeOf[r], d.mode = "soft",
                        fk[r][d.col] \in del[c] \cup (A \ InCall(c))
                 PROVE  soft[c][r] > 0
    BY <1>1, <1>2, <1>4, <2>1 DEF StampsComplete
  <2>2. CASE r \in ViewLive(c)
    BY <2>1, <2>2 DEF Sim, StampsComplete
  <2>3. CASE r \in new
    <3>1. r \in Row \ used /\ d.col \in Col
      BY <1>3, <1>4, <2>1, <2>3, KeysTyped
    <3>2. fk[r][d.col] \in ViewLive(c) \cup {Nil}
      BY <1>3, <2>3, <3>1 DEF RefsIn, StoreInv, Inv, KeysKept
    <3>3. fk[r][d.col] \notin del[c] \cup (A \ InCall(c))
      BY <1>4, <3>2, Parameters DEF Sim, Args, ViewLive
    <3>4. QED
      BY <2>1, <3>3
  <2>4. QED
    BY <2>1, <2>2, <2>3
<1>12. QED
  BY <1>6, <1>7, <1>8, <1>9, <1>10, <1>11 DEF Sim

\* A call that starts in the caller's transaction adds its argument to the roots.
LEMMA NewCallSim ==
    ASSUME StoreInv, NEW c \in Caller, NEW A \in SUBSET Row, Sim(c, A), NewCall(c), own[c] # "none"
    PROVE  \E B \in SUBSET Row : Sim(c, B)'
<1>1. PICK t \in Root, arg \in SUBSET (used \ HookRows), b \in BOOLEAN :
          Call(c, t, arg, b) /\ \A r \in arg : TypeOf[r] = t
  BY DEF NewCall
<1>2. /\ TypeOK /\ UNCHANGED <<live, fk, stamp, used, now, ins, del, clr, soft, own, ip, ids>>
      /\ call'[c].arg = arg /\ pc[c] = "idle" /\ pc'[c] \in {"pre", "ops"} /\ own[c] = "app"
  BY <1>1 DEF Call, Goto, FirstStep, store, txn, StoreInv, Inv, TypeInv, TypeOK
<1>3. \A q \in Pos : ids[c][q] = {}
  BY <1>2 DEF StoreInv, Ledger
<1>4. PICK B : B = A \cup arg
  OBVIOUS
<1>5. /\ Stored(c)' = Stored(c) /\ ViewLive(c)' = ViewLive(c)
      /\ InCall(c) = {} /\ InCall(c)' = arg /\ \A p : ~Pending(c, p)
  BY <1>2 DEF Stored, ViewLive, InCall, Pending, Running
<1>6. \A X : Within(c, A, X) => Within(c, B, X)'
  BY <1>2, <1>4, <1>5 DEF Within, Closing
<1>7. Args(c, B)'
  BY <1>1, <1>2, <1>4, <1>5 DEF Sim, Args
<1>8. DeletesDoomed(c, B)'
  BY <1>2, <1>5, <1>6 DEF Sim, DeletesDoomed
<1>9. IdsDoomed(c, B)'
  <2>1. \A q \in Pos : ids'[c][q] = {}
    BY <1>2, <1>3
  <2>2. QED
    BY <2>1 DEF IdsDoomed, Within
<1>10. ClearsDeclared(c)'
  BY <1>2, <1>5 DEF Sim, ClearsDeclared
<1>11. StampsDeclared(c, B)' /\ StampsComplete(c, B)'
  BY <1>2, <1>4, <1>5 DEF Sim, StampsDeclared, StampsComplete
<1>12. B \in SUBSET Row
  BY <1>1, <1>2, <1>4 DEF TypeOK
<1>13. QED
  BY <1>7, <1>8, <1>9, <1>10, <1>11, <1>12 DEF Sim

\* A transaction with no writes yet, whose roots are the argument of a call under way
\* or none.
LEMMA FreshSim ==
    ASSUME NEW c \in Caller, NEW A,
           /\ del'[c] = {} /\ clr'[c] = {}
           /\ \A r \in Row : soft'[c][r] = 0
           /\ \A q \in Pos : ids'[c][q] = {},
           Args(c, A)', A \subseteq InCall(c)'
    PROVE  Sim(c, A)'
<1>1. DeletesDoomed(c, A)' /\ IdsDoomed(c, A)' /\ ClearsDeclared(c)' /\ StampsDeclared(c, A)'
  BY DEF DeletesDoomed, IdsDoomed, ClearsDeclared, StampsDeclared, Within
<1>2. StampsComplete(c, A)'
  BY DEF StampsComplete
<1>3. QED
  BY <1>1, <1>2 DEF Sim

LEMMA StartSim ==
    ASSUME StoreInv, NEW c \in Caller, StartTx(c) \/ AppBegin(c)
    PROVE  \E A \in SUBSET Row : Sim(c, A)'
<1>1. /\ TypeOK /\ Gone(c) /\ own[c] = "none" /\ pc[c] \in {"idle", "begin"}
      /\ UNCHANGED <<live, used, ins, del, clr, soft, ids, call>>
  BY DEF StartTx, AppBegin, store, txn, StoreInv, Inv, TypeInv, Control, GoneInv
<1>2. /\ ins'[c] = {} /\ del'[c] = {} /\ clr'[c] = {} /\ (\A r \in Row : soft'[c][r] = 0)
      /\ \A q \in Pos : ids'[c][q] = {}
  BY <1>1 DEF StoreInv, Inv, TypeInv, Control, Ledger
<1>3. CASE StartTx(c)
  <2>1. pc'[c] \in {"pre", "ops"} /\ own'[c] = "cascade" /\ call[c].root \in Root /\ call[c].arg \in SUBSET Row
    BY <1>1, <1>3 DEF StartTx, Goto, FirstStep, TypeOK
  <2>2. PICK A \in SUBSET Row : A = call[c].arg
    BY <2>1
  <2>3. InCall(c)' = A
    BY <1>1, <2>1, <2>2 DEF InCall, Running
  <2>4. Args(c, A)'
    BY <1>1, <2>1, <2>2, <2>3 DEF Args, Gone
  <2>5. QED
    BY <1>2, <2>3, <2>4, FreshSim
<1>4. CASE AppBegin(c)
  <2>1. pc'[c] = "idle" /\ own'[c] = "app"
    BY <1>1, <1>4 DEF AppBegin, TypeOK
  <2>2. Args(c, {})'
    BY <2>1 DEF Args
  <2>3. QED
    BY <1>2, <2>2, FreshSim
<1>5. QED
  BY <1>3, <1>4

\* Between calls: an empty batch, and the return of a call that went well.
LEMMA BetweenSim ==
    ASSUME StoreInv, NEW c \in Caller, NEW A, Sim(c, A), own[c] # "none",
           EmptyBatch(c) \/ ReturnOk(c)
    PROVE  Sim(c, A)'
<1>1. /\ TypeOK /\ UNCHANGED <<live, fk, stamp, used, now, ins, del, clr, soft, own>>
      /\ pc[c] \in {"idle", "finish"} /\ pc'[c] = "idle" /\ own[c] = "app"
      /\ \A q \in Pos : ids'[c][q] = {}
  <2>1. TypeOK /\ Ledger
    BY DEF StoreInv, Inv, TypeInv
  <2>2. CASE EmptyBatch(c)
    BY <2>1, <2>2 DEF EmptyBatch, store, txn, TypeOK, Ledger
  <2>3. CASE ReturnOk(c)
    BY <2>1, <2>3 DEF ReturnOk, Return, Goto, store, txn, TypeOK
  <2>4. QED
    BY <2>2, <2>3
<1>2. /\ Stored(c)' = Stored(c) /\ ViewLive(c)' = ViewLive(c)
      /\ InCall(c) = {} /\ InCall(c)' = {} /\ \A p : ~Pending(c, p)
  BY <1>1 DEF Stored, ViewLive, InCall, Pending, Running
<1>3. \A X : Within(c, A, X) => Within(c, A, X)'
  BY <1>1, <1>2 DEF Within, Closing
<1>4. Args(c, A)' /\ DeletesDoomed(c, A)'
  BY <1>1, <1>2, <1>3 DEF Sim, Args, DeletesDoomed
<1>5. IdsDoomed(c, A)'
  BY <1>1 DEF IdsDoomed, Within
<1>6. ClearsDeclared(c)' /\ StampsDeclared(c, A)' /\ StampsComplete(c, A)'
  BY <1>1, <1>2 DEF Sim, ClearsDeclared, StampsDeclared, StampsComplete
<1>7. QED
  BY <1>4, <1>5, <1>6 DEF Sim

-----------------------------------------------------------------------------
(* Every step keeps every transaction on course.                           *)

\* While a transaction is open, other callers only begin calls that cannot start.
LEMMA BystandersWait ==
    ASSUME Serializable, StoreInv, NEW x \in Caller, own[x] # "none", NEW c \in Caller, c # x,
           NewCall(c) \/ EmptyBatch(c) \/ CallStep(c) \/ AppStep(c) \/ Crash(c)
    PROVE  /\ UNCHANGED <<live, fk, stamp, used, now>>
           /\ UNCHANGED <<ins[x], del[x], clr[x], soft[x], own[x], pc[x], ip[x], ids[x], call[x]>>
<1>1. own[c] = "none" /\ pc[c] \in {"idle", "begin"} /\ TypeOK
  BY OthersWait DEF StoreInv, Inv, TypeInv
<1>2. ~Alone(c)
  BY DEF Alone
<1>3. ~StartTx(c) /\ ~AppBegin(c)
  BY <1>2 DEF StartTx, AppBegin
<1>4. ~(\/ PreHook(c) \/ PreHookFails(c) \/ PostHook(c) \/ PostHookFails(c)
        \/ Query(c) \/ Delete(c) \/ Unlink(c) \/ SoftDelete(c) \/ StatementFails(c))
  BY <1>1 DEF PreHook, PreHookFails, PostHook, PostHookFails, Hook, Query, Delete, Unlink, SoftDelete,
              StatementFails, AtStmt
<1>5. ~(\/ Commit(c) \/ CommitLost(c) \/ CommitFails(c) \/ Rollback(c) \/ ReturnOk(c) \/ ReturnError(c)
        \/ AppCommit(c) \/ AppRollback(c) \/ Crash(c))
  BY <1>1 DEF Commit, CommitLost, CommitFails, Rollback, ReturnOk, ReturnError, AppCommit, AppRollback, Crash
<1>6. CASE NewCall(c)
  BY <1>1, <1>6 DEF NewCall, Call, Goto, store, txn, TypeOK
<1>7. CASE EmptyBatch(c)
  BY <1>1, <1>7 DEF EmptyBatch, store, txn, TypeOK
<1>8. CASE StartTxFails(c)
  BY <1>1, <1>8 DEF StartTxFails, Goto, store, txn, TypeOK
<1>9. QED
  BY <1>3, <1>4, <1>5, <1>6, <1>7, <1>8, NoLocking DEF CallStep, AppStep

\* A caller's own step that leaves its transaction able to commit.
LEMMA OwnSim ==
    ASSUME StoreInv, NEW c \in Caller, OnCourse(c)',
           NewCall(c) \/ EmptyBatch(c) \/ CallStep(c) \/ AppStep(c) \/ Crash(c)
    PROVE  \E A \in SUBSET Row : Sim(c, A)'
<1>1. TypeOK /\ Control /\ Ledger /\ Simulated /\ own'[c] # "none"
  BY DEF StoreInv, Inv, TypeInv, OnCourse
<1>2. OnCourse(c) => \E A \in SUBSET Row : Sim(c, A)
  BY <1>1 DEF Simulated
<1>3. CASE NewCall(c)
  <2>1. OnCourse(c) /\ own[c] # "none"
    BY <1>1, <1>3 DEF NewCall, Call, OnCourse
  <2>2. QED
    BY <1>2, <1>3, <2>1, NewCallSim
<1>4. CASE EmptyBatch(c)
  <2>1. own[c] # "none" /\ pc[c] = "idle"
    BY <1>1, <1>4 DEF EmptyBatch
  <2>2. own[c] = "app"
    BY <1>1, <2>1 DEF Ledger, TypeOK
  <2>3. OnCourse(c)
    BY <1>4, <2>1, <2>2 DEF EmptyBatch, OnCourse
  <2>4. QED
    BY <1>2, <1>4, <2>1, <2>3, BetweenSim
<1>5. CASE StartTx(c) \/ AppBegin(c)
  BY <1>5, StartSim
<1>6. CASE PreHook(c) \/ PostHook(c)
  <2>1. OnCourse(c)
    BY <1>1, <1>6 DEF PreHook, PostHook, Hook, OnCourse, Control
  <2>2. QED
    BY <1>2, <1>6, <2>1, HookSim
<1>7. CASE Query(c) \/ Delete(c) \/ Unlink(c) \/ SoftDelete(c)
  <2>1. OnCourse(c)
    BY <1>7, AtWork
  <2>2. QED
    BY <1>2, <1>7, <2>1, StatementSim
<1>8. CASE ReturnOk(c)
  <2>1. OnCourse(c) /\ own[c] # "none"
    BY <1>8 DEF ReturnOk, OnCourse
  <2>2. QED
    BY <1>2, <1>8, <2>1, BetweenSim
<1>9. ~StartTxFails(c)
  BY <1>1 DEF StartTxFails, Control
<1>10. ~(PreHookFails(c) \/ PostHookFails(c) \/ StatementFails(c) \/ ReturnError(c))
  <2>1. ~(PreHookFails(c) \/ PostHookFails(c) \/ StatementFails(c))
    BY <1>1 DEF PreHookFails, PostHookFails, StatementFails, Hook, Goto, OnCourse, TypeOK
  <2>2. ~ReturnError(c)
    BY <1>1 DEF ReturnError, Return, Goto, Answer, OnCourse, TypeOK
  <2>3. QED
    BY <2>1, <2>2
<1>11. ~(\/ Commit(c) \/ CommitLost(c) \/ CommitFails(c) \/ Rollback(c)
         \/ AppCommit(c) \/ AppRollback(c) \/ Crash(c))
  BY <1>1 DEF Commit, CommitLost, CommitFails, Rollback, AppCommit, AppRollback, Crash, EndTx, TypeOK
<1>12. ~(Scan(c) \/ LockRow(c))
  BY NoLocking DEF StoreInv, Inv
<1>13. QED
  BY <1>3, <1>4, <1>5, <1>6, <1>7, <1>8, <1>9, <1>10, <1>11, <1>12 DEF CallStep, AppStep

LEMMA NextSimulated ==
    ASSUME Serializable, StoreInv, [Next]_vars
    PROVE  Simulated'
<1>1. SUFFICES ASSUME NEW x \in Caller, OnCourse(x)' PROVE \E A \in SUBSET Row : Sim(x, A)'
  BY <1>1 DEF Simulated
<1>2. CASE NewCall(x) \/ EmptyBatch(x) \/ CallStep(x) \/ AppStep(x) \/ Crash(x)
  BY <1>1, <1>2, OwnSim
<1>3. CASE ~(NewCall(x) \/ EmptyBatch(x) \/ CallStep(x) \/ AppStep(x) \/ Crash(x))
  <2>1. TypeOK /\ UNCHANGED Mine(x)
    BY <1>3, MineStays DEF StoreInv, Inv, TypeInv
  <2>2. OnCourse(x) /\ own[x] # "none"
    BY <1>1, <2>1 DEF Mine, OnCourse
  <2>3. PICK A \in SUBSET Row : Sim(x, A)
    BY <2>2 DEF StoreInv, Simulated
  <2>4. CASE UNCHANGED vars
    <3>1. /\ UNCHANGED <<live, fk, stamp, used, now>>
          /\ UNCHANGED <<ins[x], del[x], clr[x], soft[x], own[x], pc[x], ip[x], ids[x], call[x]>>
      BY <2>4 DEF vars
    <3>2. QED
      BY <2>3, <3>1, SimStutter
  <2>5. CASE OtherClient
    <3>1. Quiet
      BY <2>5 DEF OtherClient, Insert, Move
    <3>2. QED
      BY <2>2, <3>1 DEF Quiet
  <2>6. ASSUME NEW c \in Caller, NewCall(c) \/ EmptyBatch(c) \/ CallStep(c) \/ AppStep(c) \/ Crash(c)
        PROVE  \E B \in SUBSET Row : Sim(x, B)'
    <3>1. c # x
      BY <1>3, <2>6
    <3>2. /\ UNCHANGED <<live, fk, stamp, used, now>>
          /\ UNCHANGED <<ins[x], del[x], clr[x], soft[x], own[x], pc[x], ip[x], ids[x], call[x]>>
      BY <2>2, <2>6, <3>1, BystandersWait
    <3>3. QED
      BY <2>3, <3>2, SimStutter
  <2>7. QED
    BY <2>4, <2>5, <2>6 DEF Next
<1>4. QED
  BY <1>2, <1>3

-----------------------------------------------------------------------------
(* Every step keeps the ledger.                                            *)

LEMMA LedgerControl ==
    ASSUME StoreInv, NEW c \in Caller,
           \/ NewCall(c) \/ EmptyBatch(c) \/ StartTx(c) \/ StartTxFails(c) \/ AppBegin(c)
           \/ StatementFails(c) \/ ReturnOk(c) \/ ReturnError(c)
    PROVE  Ledger'
<1>1. TypeOK /\ Control /\ Ledger
  BY DEF StoreInv, Inv, TypeInv
<1>2. UNCHANGED <<live, fk, stamp, used, now, ins, soft>>
  BY DEF NewCall, Call, EmptyBatch, StartTx, StartTxFails, AppBegin, StatementFails, ReturnOk,
         ReturnError, store, txn
<1>3. ASSUME NEW d \in Caller
      PROVE  /\ own'[d] = "cascade" => pc'[d] \notin {"idle", "begin"}
             /\ own'[d] = "none" => own[d] = "none"
             /\ pc'[d] \in {"idle", "begin"} => \A q \in Pos : ids'[d][q] = {}
  <2>1. CASE NewCall(c)
    BY <1>1, <2>1 DEF NewCall, Call, Goto, FirstStep, Ledger, TypeOK
  <2>2. CASE EmptyBatch(c)
    BY <1>1, <2>2 DEF EmptyBatch, Ledger
  <2>3. CASE StartTx(c)
    BY <1>1, <2>3 DEF StartTx, Goto, FirstStep, Ledger, TypeOK
  <2>4. CASE StartTxFails(c)
    BY <1>1, <2>4 DEF StartTxFails, Goto, Ledger, TypeOK
  <2>5. CASE AppBegin(c)
    BY <1>1, <2>5 DEF AppBegin, Ledger, TypeOK
  <2>6. CASE StatementFails(c)
    BY <1>1, <2>6 DEF StatementFails, Goto, Ledger, TypeOK
  <2>7. CASE ReturnOk(c) \/ ReturnError(c)
    <3>1. UNCHANGED own /\ own[c] = "app"
      BY <2>7 DEF ReturnOk, ReturnError
    <3>2. ids'[c] = [q \in Pos |-> {}] /\ pc'[c] = "idle"
      BY <1>1, <2>7 DEF ReturnOk, ReturnError, Return, Goto, TypeOK
    <3>3. d # c => UNCHANGED <<ids[d], pc[d]>>
      BY <1>1, <2>7 DEF ReturnOk, ReturnError, Return, Goto, TypeOK
    <3>4. QED
      BY <1>1, <3>1, <3>2, <3>3 DEF Ledger
  <2>8. QED
    BY <2>1, <2>2, <2>3, <2>4, <2>5, <2>6, <2>7
<1>4. QED
  BY <1>1, <1>2, <1>3 DEF Ledger

LEMMA LedgerHook ==
    ASSUME StoreInv, NEW c \in Caller, NEW from \in {"pre", "post"},
           NEW to \in {"ops", "finish", "abort"}, Hook(c, from, to)
    PROVE  Ledger'
<1>1. TypeOK /\ Control /\ Ledger /\ KeysKept
  BY DEF StoreInv, Inv, TypeInv
<1>2. UNCHANGED <<live, fk, stamp, now, soft, own, ids>> /\ used \subseteq used'
  BY DEF Hook, HookWrites, store
<1>3. \A d \in Caller : ins'[d] \subseteq ins[d] \cup (Row \ used)
  <2>1. CASE UNCHANGED <<ins, used>>
    BY <2>1
  <2>2. CASE ~UNCHANGED <<ins, used>>
    <3>1. PICK r \in HookRows \ used : ins' = [ins EXCEPT ![c] = @ \cup {r}]
      BY <2>2 DEF Hook, HookWrites
    <3>2. QED
      BY <1>1, <3>1, Parameters DEF TypeOK
  <2>3. QED
    BY <2>1, <2>2
<1>4. \A d \in Caller : pc'[d] \in {"idle", "begin"} => pc'[d] = pc[d]
  BY <1>1 DEF Hook, Goto, TypeOK
<1>5. \A d \in Caller : own[d] = "cascade" => pc'[d] \notin {"idle", "begin"}
  BY <1>1, <1>4 DEF Ledger
<1>6. \A d \in Caller : ins'[d] \cap live = {} /\ \A r \in ins'[d] : fk[r] = Ref[r] /\ stamp[r] = 0
  BY <1>1, <1>3 DEF Ledger, KeysKept, TypeOK
<1>7. \A r \in Row : stamp'[r] < now' /\ (r \notin used' => stamp'[r] = 0)
  BY <1>1, <1>2 DEF Ledger
<1>8. QED
  BY <1>1, <1>2, <1>4, <1>5, <1>6, <1>7 DEF Ledger

LEMMA LedgerStatement ==
    ASSUME StoreInv, NEW c \in Caller, Query(c) \/ Delete(c) \/ Unlink(c) \/ SoftDelete(c)
    PROVE  Ledger'
<1>1. /\ TypeOK /\ Control /\ Ledger /\ pc[c] = "ops" /\ own[c] # "none"
      /\ UNCHANGED <<live, fk, stamp, used, ins, own>>
  <2>1. Control /\ Ledger
    BY DEF StoreInv, Inv, TypeInv
  <2>2. QED
    BY <2>1, AtWork
<1>2. now \in Nat /\ now' \in {now, now + 1} /\ \A r \in Row : stamp[r] \in Nat
  <2>1. now' \in {now, now + 1}
    BY Effects
  <2>2. QED
    BY <1>1, <2>1 DEF TypeOK
<1>3. \A r \in Row : stamp'[r] < now' /\ (r \notin used' => stamp'[r] = 0)
  BY <1>1, <1>2 DEF Ledger
<1>4. pc'[c] \notin {"idle", "begin"}
  BY GoesOn
<1>5. \A d \in Caller \ {c} : UNCHANGED <<soft[d], pc[d], ids[d]>>
  BY <1>1 DEF Query, Delete, Unlink, SoftDelete, Advance, Goto, txn, TypeOK
<1>6. QED
  BY <1>1, <1>3, <1>4, <1>5 DEF Ledger

\* A commit publishes stamps that lie in the past.
LEMMA LedgerEnd ==
    ASSUME StoreInv, NEW c \in Caller, own[c] # "none", NEW res, EndTx(c, res),
           UNCHANGED store \/ (Apply(c) /\ OnCourse(c))
    PROVE  Ledger'
<1>1. TypeOK /\ Control /\ Ledger
  BY DEF StoreInv, Inv, TypeInv
<1>2. \A d \in Caller \ {c} : own[d] = "none" /\ ins[d] = {} /\ pc[d] \in {"idle", "begin"}
  BY <1>1, OthersWait DEF StoreInv, Inv, Control
<1>3. /\ \A d \in Caller : ins'[d] = {} /\ own'[d] = "none"
      /\ \A d \in Caller, r \in Row : soft'[d][r] = 0
      /\ \A d \in Caller, q \in Pos : ids'[d][q] = {}
      /\ UNCHANGED <<used, now>>
  BY <1>1, <1>2 DEF EndTx, Discard, Return, Ledger, TypeOK
<1>4. \A r \in Row : stamp'[r] < now /\ (r \notin used => stamp'[r] = 0)
  <2>1. CASE UNCHANGED store
    BY <1>1, <2>1 DEF store, Ledger
  <2>2. CASE Apply(c) /\ OnCourse(c)
    <3>1. PICK A : Sim(c, A)
      BY <2>2 DEF StoreInv, Simulated
    <3>2. \A r \in Row : soft[c][r] > 0 => soft[c][r] < now /\ r \in used
      BY <1>1, <3>1 DEF Sim, StampsDeclared, Stored, Control, TypeOK
    <3>3. \A r \in Row : stamp'[r] = IF soft[c][r] > 0 THEN soft[c][r] ELSE stamp[r]
      BY <2>2 DEF Apply
    <3>4. QED
      BY <1>1, <3>2, <3>3 DEF Ledger
  <2>3. QED
    BY <2>1, <2>2
<1>5. QED
  BY <1>3, <1>4 DEF Ledger

LEMMA LedgerOther ==
    ASSUME Serializable, StoreInv, OtherClient
    PROVE  Ledger'
<1>1. TypeOK /\ Control /\ Ledger /\ Quiet
  BY DEF StoreInv, Inv, TypeInv, OtherClient, Insert, Move
<1>2. \A d \in Caller : ins[d] = {}
  BY <1>1 DEF Quiet, Control
<1>3. UNCHANGED <<stamp, now, ins, soft, own, pc, ids>> /\ used \subseteq used'
  BY DEF OtherClient, Insert, Move, txn
<1>4. QED
  BY <1>1, <1>2, <1>3 DEF Ledger

LEMMA NextLedger ==
    ASSUME Serializable, StoreInv, [Next]_vars
    PROVE  Ledger'
<1>1. CASE UNCHANGED vars
  BY <1>1 DEF vars, StoreInv, Ledger
<1>2. CASE OtherClient
  BY <1>2, LedgerOther
<1>3. ASSUME NEW c \in Caller, NewCall(c) \/ EmptyBatch(c) \/ CallStep(c) \/ AppStep(c) \/ Crash(c)
      PROVE  Ledger'
  <2>1. CASE \/ NewCall(c) \/ EmptyBatch(c) \/ StartTx(c) \/ StartTxFails(c) \/ AppBegin(c)
             \/ StatementFails(c) \/ ReturnOk(c) \/ ReturnError(c)
    BY <2>1, LedgerControl
  <2>2. CASE PreHook(c) \/ PreHookFails(c) \/ PostHook(c) \/ PostHookFails(c)
    BY <2>2, LedgerHook DEF PreHook, PreHookFails, PostHook, PostHookFails
  <2>3. CASE Query(c) \/ Delete(c) \/ Unlink(c) \/ SoftDelete(c)
    BY <2>3, LedgerStatement
  <2>4. CASE Commit(c) \/ CommitLost(c) \/ AppCommit(c)
    <3>1. own[c] # "none" /\ OnCourse(c) /\ Apply(c) /\ \E res : EndTx(c, res)
      BY <2>4 DEF Commit, CommitLost, AppCommit, OnCourse
    <3>2. QED
      BY <3>1, LedgerEnd
  <2>5. CASE CommitFails(c) \/ Rollback(c) \/ AppRollback(c) \/ Crash(c)
    <3>1. UNCHANGED store \/ (Apply(c) /\ OnCourse(c))
      BY <2>5 DEF CommitFails, Rollback, AppRollback, Crash
    <3>2. own[c] # "none"
      BY <2>5 DEF CommitFails, Rollback, AppRollback, Crash
    <3>3. PICK res : EndTx(c, res)
      BY <2>5 DEF CommitFails, Rollback, AppRollback, Crash
    <3>4. QED
      BY <3>1, <3>2, <3>3, LedgerEnd
  <2>6. QED
    BY <1>3, <2>1, <2>2, <2>3, <2>4, <2>5, NoLocking DEF CallStep, AppStep
<1>4. QED
  BY <1>1, <1>2, <1>3 DEF Next

LEMMA NextStoreInv ==
    ASSUME Serializable, StoreInv, [Next]_vars
    PROVE  StoreInv'
<1>1. Inv' /\ GoneInv'
  BY NextInv, NextGone DEF StoreInv, Inv
<1>2. QED
  BY <1>1, NextLedger, NextSimulated DEF StoreInv

-----------------------------------------------------------------------------
(* A commit is one atomic cascade.                                         *)

\* The rows of the database, and with those of a transaction, as the store has them.
Rows == [r \in live |-> [fk |-> fk[r], stamp |-> stamp[r]]]
Before(c) == [r \in Stored(c) |-> [fk |-> fk[r], stamp |-> stamp[r]]]

\* A dependency hangs a row on the rows of a set exactly when its key is in the set.
LEMMA Hanging ==
    ASSUME Inv, NEW r \in Row, NEW S \in SUBSET Row, NEW modes
    PROVE  Store!HangsOn(fk[r], r, S, modes)
             = { d \in Policy : d.child = TypeOf[r] /\ d.mode \in modes /\ fk[r][d.col] \in S }
<1>1. ASSUME NEW d \in Policy, d.child = TypeOf[r], fk[r][d.col] \in S PROVE TypeOf[fk[r][d.col]] = d.parent
  BY <1>1, Parameters DEF Inv, KeysKept
<1>2. QED
  BY <1>1 DEF Store!HangsOn

\* What holds of a transaction that can commit: no call is under way in it.
LEMMA AtCommit ==
    ASSUME StoreInv, NEW c \in Caller, own[c] # "none", pc[c] \in {"idle", "finish"},
           NEW A \in SUBSET Row, Sim(c, A)
    PROVE  /\ TypeOK /\ Inv /\ del[c] \subseteq Stored(c) /\ Stored(c) \subseteq Row /\ A \cap ViewLive(c) = {}
           /\ ViewLive(c) = Stored(c) \ del[c] /\ Within(c, A, del[c]) /\ ViewWhole(c)
           /\ \A x \in clr[c] :
                 /\ fk[x[1]][x[2]] \in del[c]
                 /\ \E d \in Policy : d.child = TypeOf[x[1]] /\ d.col = x[2] /\ d.mode = "unlink"
           /\ \A r \in Row : soft[c][r] > 0 =>
                 /\ r \in Stored(c) /\ soft[c][r] > stamp[r]
                 /\ \E d \in Policy : d.child = TypeOf[r] /\ d.mode = "soft" /\ fk[r][d.col] \in A \cup del[c]
           /\ \A r \in ViewLive(c), d \in Policy :
                 d.child = TypeOf[r] /\ d.mode = "soft" /\ fk[r][d.col] \in del[c] \cup A => soft[c][r] > 0
<1>1. TypeOK /\ Inv /\ ViewWhole(c)
  BY DEF StoreInv, Inv, TypeInv, ViewsWhole
<1>2. InCall(c) = {} /\ \A p : ~Pending(c, p)
  BY DEF InCall, Pending, Running
<1>3. /\ del[c] \subseteq Stored(c) /\ Within(c, A, del[c]) /\ A \cap ViewLive(c) = {}
      /\ Stored(c) \subseteq Row /\ ViewLive(c) = Stored(c) \ del[c]
  BY <1>1, <1>2 DEF Sim, Args, DeletesDoomed, Stored, ViewLive, TypeOK
<1>4. \A x \in clr[c] :
         /\ fk[x[1]][x[2]] \in del[c]
         /\ \E d \in Policy : d.child = TypeOf[x[1]] /\ d.col = x[2] /\ d.mode = "unlink"
  BY <1>2 DEF Sim, ClearsDeclared
<1>5. \A r \in Row : soft[c][r] > 0 =>
         /\ r \in Stored(c) /\ soft[c][r] > stamp[r]
         /\ \E d \in Policy : d.child = TypeOf[r] /\ d.mode = "soft" /\ fk[r][d.col] \in A \cup del[c]
  BY <1>2 DEF Sim, StampsDeclared
<1>6. \A r \in ViewLive(c), d \in Policy :
         d.child = TypeOf[r] /\ d.mode = "soft" /\ fk[r][d.col] \in del[c] \cup A => soft[c][r] > 0
  BY <1>2 DEF Sim, StampsComplete
<1>7. QED
  BY <1>1, <1>3, <1>4, <1>5, <1>6

\* The deleted rows are the doomed ones: nothing that hangs on them is left, and a
\* smaller set would leave something.
LEMMA CommitDooms ==
    ASSUME StoreInv, NEW c \in Caller, own[c] # "none", pc[c] \in {"idle", "finish"},
           NEW A \in SUBSET Row, Sim(c, A)
    PROVE  Store!Doomed(del[c], A, Before(c))
<1>1. /\ TypeOK /\ Inv /\ del[c] \subseteq Stored(c) /\ Stored(c) \subseteq Row /\ A \cap ViewLive(c) = {}
      /\ ViewLive(c) = Stored(c) \ del[c] /\ Within(c, A, del[c]) /\ ViewWhole(c)
  BY AtCommit
<1>2. DOMAIN Before(c) = Stored(c) /\ \A r \in Stored(c) : Before(c)[r].fk = fk[r]
  BY DEF Before
<1>3. ASSUME NEW T \in SUBSET Row
      PROVE  Store!Closed(T, A, Before(c)) <=> Closing(c, A, T)
  <2>1. \A r \in Stored(c) : Store!HangsOn(Before(c)[r].fk, r, T, {"delete"})
            = { d \in Policy : d.child = TypeOf[r] /\ d.mode \in {"delete"} /\ fk[r][d.col] \in T }
    BY <1>1, <1>2, <1>3, Hanging
  <2>2. QED
    BY <1>2, <2>1 DEF Store!Closed, Closing
<1>4. Closing(c, A, del[c])
  <2>1. SUFFICES ASSUME NEW r \in Stored(c), r \notin del[c]
                 PROVE  /\ r \notin A
                        /\ \A d \in Policy : d.child = TypeOf[r] /\ d.mode = "delete" => fk[r][d.col] \notin del[c]
    BY <2>1 DEF Closing
  <2>2. r \in ViewLive(c)
    BY <1>1, <2>1
  <2>3. ASSUME NEW d \in Policy, d.child = TypeOf[r], d.mode = "delete" PROVE fk[r][d.col] \notin del[c]
    <3>1. ViewFk(c, r, d.col) = fk[r][d.col]
      BY <2>3, KeySeen DEF Sim
    <3>2. ViewFk(c, r, d.col) \in ViewLive(c) \cup {Nil}
      BY <1>1, <2>2, <2>3 DEF ViewWhole
    <3>3. QED
      BY <1>1, <3>1, <3>2, Parameters
  <2>4. QED
    BY <1>1, <2>2, <2>3
<1>5. \A T \in SUBSET del[c] : Store!Closed(T, A, Before(c)) => T = del[c]
  BY <1>1, <1>3 DEF Within
<1>6. QED
  BY <1>1, <1>3, <1>4, <1>5 DEF Store!Doomed

\* The keys and the stamps of the rows that stay.
LEMMA CommitKeys ==
    ASSUME StoreInv, NEW c \in Caller, own[c] # "none", pc[c] \in {"idle", "finish"},
           NEW A \in SUBSET Row, Sim(c, A), NEW r \in ViewLive(c), NEW col \in Col
    PROVE  ViewFk(c, r, col)
             = IF col \in { d.col : d \in Store!HangsOn(fk[r], r, del[c], {"unlink"}) } THEN Nil ELSE fk[r][col]
<1>1. /\ Inv /\ del[c] \subseteq Row /\ r \in Row /\ ViewWhole(c) /\ ViewLive(c) \cap del[c] = {}
      /\ \A x \in clr[c] :
            /\ fk[x[1]][x[2]] \in del[c]
            /\ \E d \in Policy : d.child = TypeOf[x[1]] /\ d.col = x[2] /\ d.mode = "unlink"
  BY AtCommit
<1>2. Store!HangsOn(fk[r], r, del[c], {"unlink"})
        = { d \in Policy : d.child = TypeOf[r] /\ d.mode \in {"unlink"} /\ fk[r][d.col] \in del[c] }
  BY <1>1, Hanging
<1>3. CASE <<r, col>> \in clr[c]
  <2>1. PICK x \in clr[c] : x = <<r, col>>
    BY <1>3
  <2>2. x[1] = r /\ x[2] = col
    BY <2>1
  <2>3. PICK d \in Policy : d.child = TypeOf[r] /\ d.col = col /\ d.mode = "unlink" /\ fk[r][col] \in del[c]
    BY <1>1, <2>2
  <2>4. d \in Store!HangsOn(fk[r], r, del[c], {"unlink"})
    BY <1>2, <2>3
  <2>5. QED
    BY <1>3, <2>3, <2>4 DEF ViewFk
<1>4. CASE <<r, col>> \notin clr[c]
  <2>1. SUFFICES ASSUME NEW d \in Store!HangsOn(fk[r], r, del[c], {"unlink"}), d.col = col PROVE FALSE
    BY <1>4, <2>1 DEF ViewFk
  <2>2. d \in Policy /\ d.child = TypeOf[r] /\ d.mode = "unlink" /\ fk[r][d.col] \in del[c]
    BY <1>2, <2>1
  <2>3. ViewFk(c, r, d.col) \in ViewLive(c) \cup {Nil}
    BY <1>1, <2>2 DEF ViewWhole
  <2>4. ViewFk(c, r, d.col) = fk[r][d.col]
    BY <1>4, <2>1 DEF ViewFk
  <2>5. QED
    BY <1>1, <2>2, <2>3, <2>4, Parameters
<1>5. QED
  BY <1>3, <1>4

LEMMA CommitStamps ==
    ASSUME StoreInv, NEW c \in Caller, own[c] # "none", pc[c] \in {"idle", "finish"},
           NEW A \in SUBSET Row, Sim(c, A), NEW r \in ViewLive(c)
    PROVE  IF Store!HangsOn(fk[r], r, del[c] \cup A, {"soft"}) # {}
           THEN soft[c][r] > 0 /\ soft[c][r] > stamp[r]
           ELSE ~(soft[c][r] > 0)
<1>1. /\ Inv /\ del[c] \cup A \in SUBSET Row /\ r \in Row
      /\ \A x \in Row : soft[c][x] > 0 =>
            /\ x \in Stored(c) /\ soft[c][x] > stamp[x]
            /\ \E d \in Policy : d.child = TypeOf[x] /\ d.mode = "soft" /\ fk[x][d.col] \in A \cup del[c]
      /\ \A x \in ViewLive(c), d \in Policy :
            d.child = TypeOf[x] /\ d.mode = "soft" /\ fk[x][d.col] \in del[c] \cup A => soft[c][x] > 0
  BY AtCommit
<1>2. Store!HangsOn(fk[r], r, del[c] \cup A, {"soft"})
        = { d \in Policy : d.child = TypeOf[r] /\ d.mode \in {"soft"} /\ fk[r][d.col] \in del[c] \cup A }
  BY <1>1, Hanging
<1>3. CASE Store!HangsOn(fk[r], r, del[c] \cup A, {"soft"}) # {}
  <2>1. PICK d \in Policy : d.child = TypeOf[r] /\ d.mode = "soft" /\ fk[r][d.col] \in del[c] \cup A
    BY <1>2, <1>3
  <2>2. QED
    BY <1>1, <1>3, <2>1
<1>4. CASE Store!HangsOn(fk[r], r, del[c] \cup A, {"soft"}) = {}
  BY <1>1, <1>2, <1>4
<1>5. QED
  BY <1>3, <1>4

LEMMA CommitRefines ==
    ASSUME StoreInv, NEW c \in Caller, OnCourse(c), pc[c] \in {"idle", "finish"}, Apply(c)
    PROVE  \E A \in SUBSET { r \in Row : TypeOf[r] \in Root }, extra \in SUBSET (HookRows \cap used) :
              Store!AtomicCascade(A, extra)
<1>1. own[c] # "none"
  BY DEF OnCourse
<1>2. PICK A \in SUBSET Row : Sim(c, A)
  BY DEF StoreInv, Simulated
<1>3. /\ TypeOK /\ del[c] \subseteq Stored(c) /\ Stored(c) \subseteq Row /\ ViewLive(c) = Stored(c) \ del[c]
  BY <1>1, <1>2, AtCommit
<1>4. A \in SUBSET { r \in Row : TypeOf[r] \in Root }
  BY <1>2 DEF Sim, Args
<1>5. PICK extra \in SUBSET (HookRows \cap used) : extra = ins[c]
  BY DEF StoreInv, GoneInv, Gone, Inv, TypeInv, Control
<1>6. PICK after : after = Rows'
  OBVIOUS
<1>7. /\ DOMAIN after = ViewLive(c)
      /\ \A r \in ViewLive(c) :
            /\ after[r].fk = [col \in Col |-> ViewFk(c, r, col)]
            /\ after[r].stamp = IF soft[c][r] > 0 THEN soft[c][r] ELSE stamp[r]
  BY <1>3, <1>6 DEF Rows, Apply
<1>8. [r \in DOMAIN Rows \cup extra |-> IF r \in DOMAIN Rows THEN Rows[r] ELSE Store!Fresh(r)] = Before(c)
  <2>1. DOMAIN Rows = live /\ live \cup extra = Stored(c)
    BY <1>5 DEF Rows, Stored
  <2>2. \A r \in live : Rows[r] = [fk |-> fk[r], stamp |-> stamp[r]]
    BY DEF Rows
  <2>3. \A r \in extra : Store!Fresh(r) = [fk |-> fk[r], stamp |-> stamp[r]]
    BY <1>5 DEF StoreInv, Ledger, Store!Fresh
  <2>4. QED
    BY <2>1, <2>2, <2>3 DEF Before
<1>9. /\ DOMAIN Before(c) = Stored(c) /\ Stored(c) \ ViewLive(c) = del[c]
      /\ \A r \in Stored(c) : Before(c)[r].fk = fk[r] /\ Before(c)[r].stamp = stamp[r]
  BY <1>3 DEF Before
<1>10. Store!Doomed(del[c], A, Before(c))
  BY <1>1, <1>2, CommitDooms
<1>11. DOMAIN after \subseteq DOMAIN Before(c) /\ DOMAIN Before(c) \ DOMAIN after = del[c]
  BY <1>3, <1>7, <1>9
<1> DEFINE doomed == DOMAIN Before(c) \ DOMAIN after
<1> DEFINE Unlinked(r) == { d.col : d \in Store!HangsOn(Before(c)[r].fk, r, doomed, {"unlink"}) }
<1>12. ASSUME NEW r \in ViewLive(c)
       PROVE  /\ after[r].fk = [col \in Col |-> IF col \in Unlinked(r) THEN Nil ELSE Before(c)[r].fk[col]]
              /\ IF Store!HangsOn(Before(c)[r].fk, r, doomed \cup A, {"soft"}) # {}
                 THEN after[r].stamp > Before(c)[r].stamp
                 ELSE after[r].stamp = Before(c)[r].stamp
  <2>1. r \in Stored(c) /\ Before(c)[r].fk = fk[r] /\ Before(c)[r].stamp = stamp[r]
    BY <1>3, <1>9
  <2>2. ASSUME NEW col \in Col
        PROVE  ViewFk(c, r, col) = IF col \in Unlinked(r) THEN Nil ELSE Before(c)[r].fk[col]
    <3>1. ViewFk(c, r, col)
            = IF col \in { d.col : d \in Store!HangsOn(fk[r], r, del[c], {"unlink"}) } THEN Nil ELSE fk[r][col]
      BY <1>1, <1>2, CommitKeys
    <3>2. Store!HangsOn(fk[r], r, del[c], {"unlink"}) = Store!HangsOn(Before(c)[r].fk, r, doomed, {"unlink"})
      BY <1>11, <2>1
    <3>3. QED
      BY <2>1, <3>1, <3>2
  <2>3. IF Store!HangsOn(Before(c)[r].fk, r, doomed \cup A, {"soft"}) # {}
        THEN soft[c][r] > 0 /\ soft[c][r] > stamp[r]
        ELSE ~(soft[c][r] > 0)
    <3>1. Store!HangsOn(fk[r], r, del[c] \cup A, {"soft"})
            = Store!HangsOn(Before(c)[r].fk, r, doomed \cup A, {"soft"})
      BY <1>11, <2>1
    <3>2. QED
      BY <1>1, <1>2, <3>1, CommitStamps
  <2>4. after[r].fk = [col \in Col |-> IF col \in Unlinked(r) THEN Nil ELSE Before(c)[r].fk[col]]
    <3> HIDE DEF Unlinked
    <3>1. QED
      BY <1>7, <2>2
  <2>5. QED
    BY <1>7, <2>1, <2>3, <2>4
<1>13. Store!Cascaded(Before(c), after, A)
  <2>1. Store!Doomed(doomed, A, Before(c))
    BY <1>10, <1>11
  <2>2. QED
    BY <1>7, <1>11, <1>12, <2>1 DEF Store!Cascaded
<1>14. Store!AtomicCascade(A, extra)
  BY <1>6, <1>8, <1>13 DEF Store!AtomicCascade, Rows
<1>15. QED
  BY <1>4, <1>5, <1>14

-----------------------------------------------------------------------------
(* Every step is a step of the store or a stutter.                         *)

LEMMA InsertRefines ==
    ASSUME StoreInv, NEW r \in Row, Insert(r)
    PROVE  Store!Insert(r)
<1>1. r \notin used /\ live' = live \cup {r} /\ UNCHANGED <<fk, stamp>>
  BY DEF Insert
<1>2. stamp[r] = 0 /\ fk[r] = Ref[r]
  BY <1>1 DEF StoreInv, Ledger, Inv, KeysKept
<1>3. Rows' = [x \in live \cup {r} |-> [fk |-> fk[x], stamp |-> stamp[x]]]
  BY <1>1 DEF Rows
<1>4. DOMAIN Rows = live /\ \A x \in live : Rows[x] = [fk |-> fk[x], stamp |-> stamp[x]]
  BY DEF Rows
<1>5. Store!Fresh(r) = [fk |-> fk[r], stamp |-> stamp[r]]
  BY <1>2 DEF Store!Fresh
<1>6. Rows' = [x \in DOMAIN Rows \cup {r} |-> IF x = r THEN Store!Fresh(r) ELSE Rows[x]]
  BY <1>3, <1>4, <1>5
<1>7. QED
  BY <1>1, <1>6 DEF Store!Insert, Rows

LEMMA MoveRefines ==
    ASSUME TypeOK, NEW r \in Row, NEW col \in Col, NEW p \in Row, Move(r, col, p)
    PROVE  Store!Move(r, col, p)
<1>1. {r, p} \subseteq live /\ fk' = [fk EXCEPT ![r][col] = p] /\ UNCHANGED <<live, stamp>>
  BY DEF Move
<1>2. \A x \in Row : fk'[x] = IF x = r THEN [fk[r] EXCEPT ![col] = p] ELSE fk[x]
  BY <1>1 DEF TypeOK
<1>3. live \subseteq Row
  BY DEF TypeOK
<1>4. DOMAIN Rows = live /\ \A x \in live : Rows[x] = [fk |-> fk[x], stamp |-> stamp[x]]
  BY DEF Rows
<1>5. Rows' = [x \in live |-> [fk |-> fk'[x], stamp |-> stamp[x]]]
  BY <1>1 DEF Rows
<1>6. [Rows EXCEPT ![r].fk[col] = p]
        = [x \in live |-> IF x = r THEN [Rows[r] EXCEPT !.fk = [Rows[r].fk EXCEPT ![col] = p]] ELSE Rows[x]]
  BY <1>1, <1>4
<1>7. Rows' = [Rows EXCEPT ![r].fk[col] = p]
  <2>1. [Rows[r] EXCEPT !.fk = [Rows[r].fk EXCEPT ![col] = p]] = [fk |-> fk'[r], stamp |-> stamp[r]]
    <3>1. Rows[r] = [fk |-> fk[r], stamp |-> stamp[r]]
      BY <1>1, <1>4
    <3>2. fk'[r] = [fk[r] EXCEPT ![col] = p]
      BY <1>2
    <3>3. QED
      BY <3>1, <3>2
  <2>2. \A x \in live : x # r => Rows[x] = [fk |-> fk'[x], stamp |-> stamp[x]]
    BY <1>2, <1>3, <1>4
  <2>3. QED
    BY <1>5, <1>6, <2>1, <2>2
<1>8. QED
  BY <1>1, <1>4, <1>7 DEF Store!Move, Rows

\* Only commits and other clients change what is stored.
LEMMA StoreChanges ==
    ASSUME [Next]_vars
    PROVE  \/ UNCHANGED store
           \/ OtherClient
           \/ \E c \in Caller : (Commit(c) \/ CommitLost(c) \/ AppCommit(c))
<1>1. CASE UNCHANGED vars
  BY <1>1 DEF vars, store
<1>2. ASSUME NEW c \in Caller, NewCall(c) \/ EmptyBatch(c) \/ CallStep(c) \/ AppStep(c) \/ Crash(c),
             ~(Commit(c) \/ CommitLost(c) \/ AppCommit(c))
      PROVE  UNCHANGED store
  <2>1. CASE NewCall(c) \/ EmptyBatch(c) \/ StartTx(c) \/ StartTxFails(c) \/ AppBegin(c)
    BY <2>1 DEF NewCall, Call, EmptyBatch, StartTx, StartTxFails, AppBegin
  <2>2. CASE PreHook(c) \/ PreHookFails(c) \/ PostHook(c) \/ PostHookFails(c)
    BY <2>2 DEF PreHook, PreHookFails, PostHook, PostHookFails, Hook
  <2>3. CASE Query(c) \/ Scan(c) \/ LockRow(c) \/ Delete(c) \/ Unlink(c) \/ SoftDelete(c) \/ StatementFails(c)
    BY <2>3 DEF Query, Scan, LockRow, Delete, Unlink, SoftDelete, StatementFails
  <2>4. CASE CommitFails(c) \/ Rollback(c) \/ ReturnOk(c) \/ ReturnError(c) \/ AppRollback(c) \/ Crash(c)
    BY <2>4 DEF CommitFails, Rollback, ReturnOk, ReturnError, AppRollback, Crash
  <2>5. QED
    BY <1>2, <2>1, <2>2, <2>3, <2>4 DEF CallStep, AppStep
<1>3. QED
  BY <1>1, <1>2 DEF Next

LEMMA NextRefines ==
    ASSUME StoreInv, [Next]_vars
    PROVE  [Store!Next]_Rows
<1>1. SUFFICES ASSUME Rows' # Rows PROVE Store!Next
  OBVIOUS
<1>2. TypeInv /\ TypeOK /\ GoneInv
  BY DEF StoreInv, Inv, TypeInv
<1>3. used \subseteq used'
  BY <1>2, RowsAppear
<1>4. SUFFICES \/ \E A \in SUBSET { r \in Row : TypeOf[r] \in Root }, extra \in SUBSET (HookRows \cap used) :
                    Store!AtomicCascade(A, extra)
               \/ \E r \in Row : Store!Insert(r)
               \/ \E r \in Row, col \in Col, p \in Row : Store!Move(r, col, p)
  BY <1>1, <1>3 DEF Store!Next, Rows
<1>5. ~UNCHANGED store
  BY <1>1 DEF store, Rows
<1>6. CASE OtherClient
  <2>1. CASE \E r \in Row : Insert(r)
    BY <2>1, InsertRefines
  <2>2. CASE \E m \in Moves : Move(m[1], m[2], m[3])
    <3>1. PICK m \in Moves : Move(m[1], m[2], m[3])
      BY <2>2
    <3>2. m[1] \in Row /\ m[2] \in Col /\ m[3] \in Row
      BY Parameters
    <3>3. QED
      BY <1>2, <3>1, <3>2, MoveRefines
  <2>3. QED
    BY <1>6, <2>1, <2>2 DEF OtherClient
<1>7. ASSUME NEW c \in Caller, Commit(c) \/ CommitLost(c) \/ AppCommit(c)
      PROVE  \E A \in SUBSET { r \in Row : TypeOf[r] \in Root }, extra \in SUBSET (HookRows \cap used) :
                Store!AtomicCascade(A, extra)
  <2>1. OnCourse(c) /\ pc[c] \in {"idle", "finish"} /\ Apply(c)
    BY <1>7 DEF Commit, CommitLost, AppCommit, OnCourse
  <2>2. QED
    BY <2>1, CommitRefines
<1>8. QED
  BY <1>5, <1>6, <1>7, StoreChanges

LEMMA AlwaysStoreInv == ASSUME Serializable PROVE Spec => []StoreInv
<1>1. StoreInv /\ [Next]_vars => StoreInv'
  BY NextStoreInv
<1>2. QED
  BY <1>1, InitStoreInv, PTL DEF Spec

\* On a serializable database the calls, statements, hooks, failures, crashes and
\* commits of any number of callers are, to a reader of the database, one atomic step
\* per transaction: everything that depends on the roots goes, is unlinked or is
\* stamped as declared, nothing else changes, or nothing changes at all.
THEOREM RuntimeImplementsStore ==
    ASSUME Serializable
    PROVE  Spec => ImplementsStore
<1>1. StoreInv /\ [Next]_vars => [Store!Next]_Rows
  BY NextRefines
<1>2. Spec => []StoreInv
  BY AlwaysStoreInv
<1>3. QED
  BY <1>1, <1>2, InitRefines, PTL DEF Spec, ImplementsStore, Store!Spec, Rows

-----------------------------------------------------------------------------
(* Calling again.                                                          *)

\* A cascade from rows that are not stored dooms nothing.
LEMMA RepeatDeletesNothing ==
    ASSUME StoreInv, NEW c \in Caller, Commit(c) \/ CommitLost(c), call[c].arg \cap live = {}
    PROVE  /\ live \subseteq live' /\ UNCHANGED fk
           /\ \A r \in Row : stamp'[r] # stamp[r] =>
                 \E d \in Policy : d.child = TypeOf[r] /\ d.mode = "soft" /\ fk[r][d.col] \in call[c].arg
<1>1. pc[c] = "finish" /\ own[c] = "cascade" /\ Apply(c) /\ OnCourse(c)
  BY DEF Commit, CommitLost, OnCourse
<1>2. PICK A \in SUBSET Row : Sim(c, A)
  BY <1>1 DEF StoreInv, Simulated
<1>3. A = call[c].arg /\ A \cap Stored(c) = {}
  BY <1>1, <1>2 DEF Sim, Args, Stored, StoreInv, GoneInv, Gone
<1>4. /\ TypeOK /\ ViewLive(c) = Stored(c) \ del[c] /\ Within(c, A, del[c])
      /\ \A x \in clr[c] : fk[x[1]][x[2]] \in del[c]
      /\ \A r \in Row : soft[c][r] > 0 =>
            \E d \in Policy : d.child = TypeOf[r] /\ d.mode = "soft" /\ fk[r][d.col] \in A \cup del[c]
  BY <1>1, <1>2, AtCommit
<1>5. del[c] = {} /\ clr[c] = {}
  <2>1. Closing(c, A, {})
    BY <1>3 DEF Closing
  <2>2. QED
    BY <1>4, <2>1 DEF Within
<1>6. live \subseteq live'
  BY <1>1, <1>4, <1>5 DEF Apply, Stored
<1>7. fk' = fk
  <2>1. \A r \in Row, col \in Col : ViewFk(c, r, col) = fk[r][col]
    BY <1>5 DEF ViewFk
  <2>2. fk' = [r \in Row |-> [col \in Col |-> fk[r][col]]]
    BY <1>1, <2>1 DEF Apply
  <2>3. \A r \in Row : fk[r] = [col \in Col |-> fk[r][col]]
    BY <1>4 DEF TypeOK
  <2>4. fk' = [r \in Row |-> fk[r]]
    BY <2>2, <2>3
  <2>5. QED
    BY <1>4, <2>4 DEF TypeOK
<1>8. \A r \in Row : stamp'[r] # stamp[r] =>
         \E d \in Policy : d.child = TypeOf[r] /\ d.mode = "soft" /\ fk[r][d.col] \in call[c].arg
  <2>1. \A r \in Row : stamp'[r] # stamp[r] => soft[c][r] > 0
    BY <1>1 DEF Apply
  <2>2. QED
    BY <1>3, <1>4, <1>5, <2>1
<1>9. QED
  BY <1>6, <1>7, <1>8

LEMMA NextRepeats ==
    ASSUME StoreInv, [Next]_vars, NEW c \in Caller,
           own[c] = "cascade", own'[c] = "none", call[c].arg \cap live = {}
    PROVE  /\ live \subseteq live' /\ UNCHANGED fk
           /\ \A r \in Row : stamp'[r] # stamp[r] =>
                 \E d \in Policy : d.child = TypeOf[r] /\ d.mode = "soft" /\ fk[r][d.col] \in call[c].arg
<1>1. TypeOK /\ Control
  BY DEF StoreInv, Inv, TypeInv
<1>2. NewCall(c) \/ EmptyBatch(c) \/ CallStep(c) \/ AppStep(c) \/ Crash(c)
  <2>1. SUFFICES ASSUME UNCHANGED Mine(c) PROVE FALSE
    BY <1>1, <2>1, MineStays
  <2>2. QED
    BY <2>1 DEF Mine
<1>3. ~(NewCall(c) \/ EmptyBatch(c) \/ StartTx(c) \/ StartTxFails(c) \/ AppStep(c))
  <2>1. ~(NewCall(c) \/ EmptyBatch(c) \/ StartTxFails(c))
    BY DEF NewCall, Call, EmptyBatch, StartTxFails
  <2>2. ~(StartTx(c) \/ AppStep(c))
    BY <1>1 DEF StartTx, AppStep, AppBegin, AppCommit, AppRollback, Control
  <2>3. QED
    BY <2>1, <2>2
<1>4. ~(PreHook(c) \/ PreHookFails(c) \/ PostHook(c) \/ PostHookFails(c))
  BY DEF PreHook, PreHookFails, PostHook, PostHookFails, Hook
<1>5. ~(\/ Query(c) \/ Scan(c) \/ LockRow(c)
        \/ Delete(c) \/ Unlink(c) \/ SoftDelete(c) \/ StatementFails(c))
  BY DEF Query, Scan, LockRow, Delete, Unlink, SoftDelete, StatementFails
<1>6. ~(ReturnOk(c) \/ ReturnError(c))
  BY DEF ReturnOk, ReturnError
<1>7. CASE CommitFails(c) \/ Rollback(c) \/ Crash(c)
  BY <1>7 DEF CommitFails, Rollback, Crash, store
<1>8. CASE Commit(c) \/ CommitLost(c)
  BY <1>8, RepeatDeletesNothing
<1>9. QED
  BY <1>2, <1>3, <1>4, <1>5, <1>6, <1>7, <1>8 DEF CallStep

\* On a serializable database a standalone call on rows that are already gone, by an
\* earlier call, a retry after a lost commit or anyone else, deletes and unlinks
\* nothing, whatever its hooks add.
THEOREM RepeatedCallIsNoOp ==
    ASSUME Serializable
    PROVE  Spec => RepeatIsNoOp
<1>1. StoreInv /\ [Next]_vars =>
         [\A c \in Caller : own[c] = "cascade" /\ own'[c] = "none" /\ call[c].arg \cap live = {} =>
             /\ live \subseteq live' /\ UNCHANGED fk
             /\ \A r \in Row : stamp'[r] # stamp[r] =>
                   \E d \in Policy : d.child = TypeOf[r] /\ d.mode = "soft" /\ fk[r][d.col] \in call[c].arg]_vars
  BY NextRepeats
<1>2. Spec => []StoreInv
  BY AlwaysStoreInv
<1>3. QED
  BY <1>1, <1>2, PTL DEF Spec, RepeatIsNoOp
=============================================================================

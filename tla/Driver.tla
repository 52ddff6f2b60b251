-------------------------------- MODULE Driver --------------------------------
(***************************************************************************)
(* A connection of the database/sql driver (driver/driver.go): BeginTx,    *)
(* Commit and Rollback, ExecContext, and the statements and rows made from *)
(* it.  Each call is a sequence of calls of the connection, whose contexts *)
(* are those of Interrupt: the driver sets the caller's context, runs SQL  *)
(* and puts the old context back.  database/sql makes one call at a time,  *)
(* in any order (a sql.Conn or a sql.Tx may have rows open meanwhile), and *)
(* reuses the connection for other callers without telling the driver.  A  *)
(* connection may also be used directly, by the calls of Interrupt.        *)
(*                                                                         *)
(* SQLite is its transaction (autocommit, the data seen and the data       *)
(* committed) and query_only.  Data is the set of writes it contains.      *)
(***************************************************************************)
EXTENDS Interrupt

CONSTANTS
    Prepared,       \* the statements prepared by the driver
    TxBegins,       \* values of txBegin that Open can come up with: none is empty
    MaxWrites       \* bound on the number of writes

ASSUME DriverAssumption ==
    /\ MaxWrites \in Nat /\ Prepared \subseteq Stmts
    /\ TxBegins \subseteq {"none", "BEGIN", "BEGIN_deferred", "BEGIN_immediate", "BEGIN_exclusive"}

VARIABLES
    api,            \* is the connection used by the driver, or directly?
    txBegin,        \* conn.txBegin
    tx,             \* the open driver.Tx: none, or read-only or not
    autocommit, queryOnly, db, disk,
    rows,           \* the context of each statement's rows, if they are open
    fn, step,       \* the call being made, and where it is
    old,            \* the context to put back
    target,         \* what the call is about: a statement, or the kind of Tx
    sql,            \* the SQL that the call runs
    err,            \* the error of the last SQL, and of Commit
    late, stale,    \* history: when the call began, was its context done, and
                    \* was SQLite's flag set with a statement on a row?
    writes, acked,  \* history: how many writes; those the open Tx reported
    clean           \* history: has no call failed since the Tx began?

sqlite == <<autocommit, queryOnly, db, disk, writes>>
history == <<late, stale, acked, clean>>
drv == <<api, txBegin, tx, sqlite, rows, fn, step, old, target, sql, err, history>>
dvars == <<vars, drv>>

NoRows == "norows"

DriverInit ==
    /\ Init
    /\ api \in {"driver", "direct"}
    /\ txBegin \in IF api = "driver" THEN TxBegins ELSE {"none"}
    /\ tx = "none" /\ rows = [s \in Prepared |-> NoRows]
    /\ autocommit = TRUE /\ queryOnly = FALSE /\ db = {} /\ disk = {}
    /\ fn = "none" /\ step = "idle" /\ old = NoCtx /\ target = EXEC /\ sql = "none" /\ err = "nil"
    /\ late = FALSE /\ stale = FALSE
    /\ writes = 0 /\ acked = {} /\ clean = TRUE

\* No call is being made.
Free == api = "driver" /\ Ready /\ step = "idle"

\* A call begins, and returns: its variables end with it.
Begins(f, q, u, x) ==
    /\ Free
    /\ fn' = f /\ sql' = q /\ target' = u
    /\ late' = (x \in done)
    /\ stale' = (flag /\ Active)
    /\ UNCHANGED <<api, txBegin, tx, sqlite, acked, clean>>

Returns ==
    /\ fn' = "none" /\ sql' = "none" /\ target' = EXEC /\ old' = NoCtx /\ err' = "nil"
    /\ late' = FALSE /\ stale' = FALSE
    /\ UNCHANGED <<api, txBegin, sqlite, rows>>

\* A call that runs no SQL.
AtOnce ==
    /\ Free
    /\ step' = "idle"
    /\ UNCHANGED <<api, txBegin, tx, sqlite, fn, old, target, sql, err, history>>

-------------------------------------------------------------------------------
(* What SQLite does with the SQL.  A lock may be missing: BUSY. *)
Refuse(code) == err' = code /\ UNCHANGED sqlite

BEGIN ==
    \/ ~autocommit /\ Refuse("ERROR")
    \/ autocommit /\ sql \in {"BEGIN_immediate", "BEGIN_exclusive"} /\ Refuse("BUSY")
    \/ /\ autocommit /\ autocommit' = FALSE
       /\ queryOnly' = (queryOnly \/ sql = "BEGIN_query_only")
       /\ err' = "nil"
       /\ UNCHANGED <<db, disk, writes>>

COMMIT ==
    \/ autocommit /\ Refuse("ERROR")
    \/ ~autocommit /\ Refuse("BUSY")
    \/ /\ ~autocommit /\ autocommit' = TRUE
       /\ disk' = db
       /\ err' = "nil"
       /\ UNCHANGED <<queryOnly, db, writes>>

RollbackAll == autocommit' = TRUE /\ db' = disk /\ UNCHANGED <<queryOnly, disk, writes>>

ROLLBACK ==
    \/ autocommit /\ Refuse("ERROR")
    \/ ~autocommit /\ RollbackAll /\ err' = "nil"

Write ==
    \/ queryOnly /\ Refuse("READONLY")
    \/ ~queryOnly /\ Refuse("BUSY")
    \/ /\ ~queryOnly /\ writes < MaxWrites
       /\ writes' = writes + 1
       /\ db' = db \cup {writes'}
       /\ disk' = IF autocommit THEN db' ELSE disk
       /\ err' = "nil"
       /\ UNCHANGED <<autocommit, queryOnly>>

Complete ==
    CASE sql = "read" -> Refuse("nil")
      [] sql = "write" -> Write
      [] sql = "COMMIT" -> COMMIT
      [] sql = "ROLLBACK" -> ROLLBACK
      [] OTHER -> BEGIN

\* An interrupted write rolls back the transaction, if it had begun to run.
Cut ==
    /\ err' = "INTERRUPT"
    /\ \/ UNCHANGED sqlite
       \/ sql = "write" /\ RollbackAll

\* The caller learns of the writes and the errors of its transaction.
Acknowledge ==
    /\ acked' = IF tx = "none" THEN {} ELSE acked \cup (db' \ db)
    /\ clean' = (clean /\ (tx = "none" \/ fn \in {"Commit", "Rollback"} \/ err' = "nil"))

\* The statement returns a row, completes or is interrupted.
RunSQL ==
    /\ step = "SQL"
    /\ Start \/ Finish \/ Interrupted
    /\ IF pc' = "idle"
       THEN /\ step' = "returned"
            /\ \/ result' = "INTERRUPT" /\ Cut
               \/ result' = "OK" /\ cur \in Stmts /\ stmt'[cur] = "row" /\ Refuse("nil")
               \/ result' = "OK" /\ (cur \in Stmts => stmt'[cur] # "row") /\ Complete
            /\ Acknowledge
       ELSE UNCHANGED <<step, err, sqlite, acked, clean>>
    /\ UNCHANGED <<api, txBegin, tx, rows, fn, old, target, sql, late, stale>>

-------------------------------------------------------------------------------
(* Calls that set the caller's context. *)
SetContext(f, q, u, x) ==
    /\ Begins(f, q, u, x)
    /\ SetInterrupt(x)
    /\ old' = interrupt
    /\ step' = "setting"
    /\ UNCHANGED <<rows, err>>

\* Mutant: the context is not set.
ExecWithoutContext(x, q) ==
    /\ Begins("ExecContext", q, EXEC, x)
    /\ Use(EXEC)
    /\ step' = "SQL"
    /\ UNCHANGED <<rows, old, err>>

ExecContext(x, q) == SetContext("ExecContext", q, EXEC, x)

rowsNext(s) ==
    /\ rows[s] # NoRows
    /\ SetContext("Next", "read", s, rows[s])

RunIt ==
    /\ step = "setting"
    /\ Use(target)
    /\ step' = "SQL"
    /\ UNCHANGED <<api, txBegin, tx, sqlite, rows, fn, old, target, sql, err, history>>

\* Mutant: SetInterrupt(old) is not run when there is an error.
RestoreUnlessError ==
    /\ step = "returned" /\ fn \in {"ExecContext", "Next"}
    /\ IF err = "nil" THEN SetInterrupt(old) ELSE UNCHANGED vars
    /\ step' = "idle"
    /\ Returns
    /\ UNCHANGED <<tx, acked, clean>>

\* The deferred SetInterrupt(old).
Restore ==
    /\ step = "returned" /\ fn \in {"ExecContext", "Next"}
    /\ SetInterrupt(old)
    /\ step' = "idle"
    /\ Returns
    /\ UNCHANGED <<tx, acked, clean>>

-------------------------------------------------------------------------------
(* Statements and rows. *)
connPrepare(s) == AtOnce /\ Prepare(s) /\ UNCHANGED rows

stmtClose(s) == AtOnce /\ rows[s] = NoRows /\ CloseStmt(s) /\ UNCHANGED rows

\* It binds the arguments and remembers the context.
QueryContext(s, x) ==
    /\ AtOnce
    /\ stmt[s] # "closed" /\ rows[s] = NoRows
    /\ rows' = [rows EXCEPT ![s] = x]
    /\ UNCHANGED vars

\* Mutant: the statement is not reset.
rowsCloseKeep(s) ==
    /\ AtOnce
    /\ rows[s] # NoRows
    /\ rows' = [rows EXCEPT ![s] = NoRows]
    /\ UNCHANGED vars

rowsClose(s) ==
    /\ AtOnce
    /\ rows[s] # NoRows
    /\ Reset(s)
    /\ rows' = [rows EXCEPT ![s] = NoRows]

\* The context of stmt.ExecContext is not set.
stmtExecContext(s, x, q) ==
    /\ rows[s] = NoRows
    /\ Begins("stmt.ExecContext", q, s, x)
    /\ Use(s)
    /\ step' = "SQL"
    /\ UNCHANGED <<rows, old, err>>

\* Mutant: one step, and no reset.
ExecOnce ==
    /\ step = "returned" /\ fn = "stmt.ExecContext"
    /\ step' = "idle"
    /\ Returns
    /\ UNCHANGED <<vars, tx, acked, clean>>

\* Stmt.Exec: step while there are rows, then reset.
ExecLoop ==
    /\ step = "returned" /\ fn = "stmt.ExecContext"
    /\ IF stmt[target] = "row"
       THEN /\ Use(target) /\ step' = "SQL"
            /\ UNCHANGED <<api, txBegin, sqlite, rows, fn, old, target, sql, err, late, stale>>
       ELSE Reset(target) /\ step' = "idle" /\ Returns
    /\ UNCHANGED <<tx, acked, clean>>

-------------------------------------------------------------------------------
(* Transactions. *)
ExecSQL(f, q, u) ==
    /\ Begins(f, q, u, NoCtx)
    /\ Use(EXEC)
    /\ step' = "SQL"
    /\ UNCHANGED <<rows, old, err>>

\* Mutant: query_only is left out.
BeginTxDeferred(readOnly) ==
    /\ tx = "none"
    /\ ExecSQL("BeginTx", "BEGIN_deferred", IF readOnly THEN "ro" ELSE "rw")

\* database/sql has one Tx of a connection at a time.  If txBegin is empty
\* nothing is run.
BeginTx(readOnly) ==
    /\ tx = "none"
    /\ \/ readOnly /\ ExecSQL("BeginTx", "BEGIN_query_only", "ro")
       \/ ~readOnly /\ txBegin # "none" /\ ExecSQL("BeginTx", txBegin, "rw")
       \/ /\ ~readOnly /\ txBegin = "none"
          /\ Begins("BeginTx", "none", "rw", NoCtx)
          /\ step' = "returned" /\ err' = "nil"
          /\ UNCHANGED <<vars, rows, old>>

Begun ==
    /\ step = "returned" /\ fn = "BeginTx"
    /\ tx' = IF err = "nil" THEN target ELSE "none"
    /\ step' = "idle"
    /\ Returns
    /\ UNCHANGED <<vars, acked, clean>>

\* Commit of a read-only Tx is Rollback.
Commit ==
    \/ tx = "ro" /\ ExecSQL("Rollback", "ROLLBACK", EXEC)
    \/ tx = "rw" /\ ExecSQL("Commit", "COMMIT", EXEC)

Rollback == tx # "none" /\ ExecSQL("Rollback", "ROLLBACK", EXEC)

EndTx ==
    /\ tx' = "none" /\ step' = "idle"
    /\ Returns
    /\ acked' = {} /\ clean' = TRUE
    /\ UNCHANGED vars

\* Mutant: a failed COMMIT is not rolled back.
EndCommitOnly == step = "returned" /\ fn = "Commit" /\ EndTx

\* A failed COMMIT is rolled back, and its error is returned.
EndCommit ==
    /\ step = "returned" /\ fn = "Commit"
    /\ IF err = "nil" \/ sql = "ROLLBACK"
       THEN EndTx
       ELSE /\ Use(EXEC) /\ sql' = "ROLLBACK" /\ step' = "SQL"
            /\ UNCHANGED <<api, txBegin, tx, sqlite, rows, fn, old, target, err, history>>

EndRollback == step = "returned" /\ fn = "Rollback" /\ EndTx

connClose == Free /\ Close /\ step' = "idle" /\ Returns /\ UNCHANGED <<tx, acked, clean>>

Direct == api = "direct" /\ Next /\ UNCHANGED drv

DriverNext ==
    \/ Direct
    \/ /\ api = "driver"
       /\ InSetInterrupt \/ \E x \in Ctxs : Cancel(x) \/ Waiter(x)
       /\ UNCHANGED drv
    \/ RunSQL \/ RunIt \/ Restore \/ ExecLoop \/ Begun \/ EndCommit \/ EndRollback
    \/ \E x \in Ctxs \cup {NoCtx} :
           \/ \E q \in {"read", "write"} : ExecContext(x, q)
           \/ \E s \in Prepared : QueryContext(s, x)
           \/ \E s \in Prepared, q \in {"read", "write"} : stmtExecContext(s, x, q)
    \/ \E s \in Prepared : connPrepare(s) \/ stmtClose(s) \/ rowsNext(s) \/ rowsClose(s)
    \/ \E readOnly \in BOOLEAN : BeginTx(readOnly)
    \/ Commit \/ Rollback \/ connClose

DriverSpec == DriverInit /\ [][DriverNext]_dvars

\* Scheduling, as in Interrupt: goroutines run and SQLite notices its flag.
FairDriverSpec ==
    /\ DriverSpec
    /\ \A x \in Ctxs : WF_dvars(Waiter(x) /\ UNCHANGED drv)
    /\ WF_dvars(InSetInterrupt /\ UNCHANGED drv)
    /\ WF_dvars(RunIt) /\ WF_dvars(Restore)
    /\ WF_dvars(Start /\ (RunSQL \/ Direct)) /\ WF_dvars(Interrupted /\ (RunSQL \/ Direct))
-------------------------------------------------------------------------------
\* The types of the connection's and the driver's state.
DriverTypeOK ==
    /\ TypeOK
    /\ api \in {"driver", "direct"} /\ txBegin \in TxBegins \cup {"none"}
    /\ tx \in {"none", "ro", "rw"}
    /\ {autocommit, queryOnly, late, stale, clean} \subseteq BOOLEAN
    /\ writes \in 0 .. MaxWrites
    /\ disk \subseteq db /\ db \subseteq 1 .. writes /\ acked \subseteq 1 .. writes
    /\ rows \in [Prepared -> Ctxs \cup {NoCtx, NoRows}]
    /\ step \in {"idle", "setting", "SQL", "returned"}
    /\ old \in Ctxs \cup {NoCtx}
    /\ target \in Stmts \cup {EXEC, "ro", "rw"}
    /\ err \in {"nil", "ERROR", "BUSY", "READONLY", "INTERRUPT"}

\* Between calls the connection has no context: ExecContext and rows.Next put
\* the old one back on every path, so that no caller is interrupted by, and no
\* goroutine waits for, the context of an earlier one.
Restored ==
    Free => interrupt = NoCtx /\ pending = "nil" /\ \A x \in Ctxs : goroutine[x] = "none"

\* Between calls a statement is on a row, which keeps its read transaction open
\* and SQLite's flag from being cleared, only while its rows are open: Stmt.Exec
\* steps on until there is no row and resets, rows.Close resets, and neither an
\* error nor an interrupt leaves a row behind.
RowsOpen ==
    Free => \A s \in Stmts : stmt[s] = "row" => s \in Prepared /\ rows[s] # NoRows

\* ExecContext and rows.Next with a context that is done return INTERRUPT.
Honoured ==
    step = "returned" /\ late /\ fn \in {"ExecContext", "Next"} => err = "INTERRUPT"

\* Has no earlier call left SQLite's flag set with a statement on a row?
Unspoilt == IF api = "driver" THEN ~stale ELSE tame

\* "until the context is reset by another call to SetInterrupt": a statement is
\* interrupted only on behalf of the connection's own context, which in the
\* driver is the one that this call has set, and SetInterrupt does not panic,
\* unless SQLite's flag was left set with a statement on a row.
OwnContext ==
    [][Unspoilt =>
          /\ pc' # "panic"
          /\ Running /\ pc' = "idle" /\ result' = "INTERRUPT" =>
                checkInterrupt /\ (api = "driver" => fn \in {"ExecContext", "Next"})]_dvars

\* SetInterrupt's documentation has the connection return INTERRUPT "until the
\* context is reset by another call to SetInterrupt": that call does not panic
\* in a program that uses database/sql.
DriverNoPanic == api = "driver" => NoPanic

\* When Commit or Rollback has returned the transaction is over, even if COMMIT
\* fails, with the same exception: then ROLLBACK fails as well.
TxEnds == [][tx # "none" /\ tx' = "none" /\ ~stale => autocommit']_dvars

\* If Commit returns nil the writes that the transaction reported are
\* committed.  If it returns an error, or Rollback is called, none of them is,
\* provided BeginTx began a transaction and no call in it failed.  A read-only
\* transaction has reported none.
AllOrNothing ==
    [][tx # "none" /\ tx' = "none" =>
          IF tx = "ro" THEN acked = {}
          ELSE IF fn = "Commit" /\ sql = "COMMIT" THEN acked \subseteq disk
          ELSE txBegin # "none" /\ clean => acked \cap disk = {}]_dvars

\* SetInterrupt "interrupts a long-running query when a context is done", even a
\* query that never ends by itself: its call ends, in the driver also with the
\* old context put back.
CallEnds ==
    (tame \/ api = "driver") /\ pc = "run" /\ checkInterrupt
        ~> pc \in {"idle", "panic"} /\ step = "idle"
===============================================================================

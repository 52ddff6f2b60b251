------------------------------ MODULE Interrupt -------------------------------
(***************************************************************************)
(* A connection whose statements are interrupted when a context is done:   *)
(* Conn.SetInterrupt, its waiter goroutine and pending statement, the      *)
(* calls that run SQL (Conn.Exec, Stmt.Step) and Conn.Close.               *)
(*                                                                         *)
(* The caller's goroutine, the waiter goroutine and whoever cancels the    *)
(* contexts run concurrently.  SQLite is modelled by what its interrupt    *)
(* flag does: sqlite3_interrupt sets it, a statement that starts while no  *)
(* statement is active clears it, and a statement that finds it set fails  *)
(* with INTERRUPT.                                                         *)
(***************************************************************************)
EXTENDS Naturals, FiniteSets

CONSTANTS
    Ctxs,       \* the contexts that can be cancelled
    NoCtx,      \* nil, context.Background() and context.TODO()
    Stmts       \* the caller's prepared statements

EXEC == "exec"      \* the statement that Conn.Exec runs

ASSUME CtxAssumption == NoCtx \notin Ctxs /\ EXEC \notin Stmts

VARIABLES
    done,       \* the contexts that were cancelled
    interrupt,  \* c.interrupt
    waiter,     \* is c.waiter non-nil?
    goroutine,  \* where the waiter goroutine of each context is
    pending,    \* c.pending: nil, or a statement that is on a row or not
    stmt,       \* each prepared statement: closed, ready, or on a row
    flag,       \* SQLite's interrupt flag
    handle,     \* is the connection open?
    pc,         \* what the caller does next
    arg,        \* the argument of SetInterrupt
    closing,    \* is SetInterrupt called by Close?
    cur,        \* the statement being run
    must,       \* was the context done when the statement's call began?
    result,     \* the result of the call that returned last
    tame        \* history: was SetInterrupt last called with no statement on a
                \* row, and not with one context in place of another?

conn == <<interrupt, waiter, pending, handle>>
call == <<pc, arg, closing, cur, must, result, tame>>
vars == <<done, goroutine, stmt, flag, conn, call>>

Init ==
    /\ done = {}
    /\ interrupt = NoCtx /\ waiter = FALSE /\ pending = "nil" /\ handle = TRUE
    /\ goroutine = [x \in Ctxs |-> "none"]
    /\ stmt = [s \in Stmts |-> "closed"]
    /\ flag = FALSE
    /\ pc = "idle" /\ arg = NoCtx /\ closing = FALSE
    /\ cur = EXEC /\ must = FALSE /\ result = "OK"
    /\ tame = TRUE

Ready == pc = "idle" /\ handle

\* SQLite's count of active statements is not zero.
Active == pending = "row" \/ \E s \in Stmts : stmt[s] = "row"

\* A call returns, and its variables end with it.
Return(r) ==
    /\ pc' = "idle" /\ result' = r
    /\ arg' = NoCtx /\ closing' = FALSE /\ cur' = EXEC /\ must' = FALSE

-------------------------------------------------------------------------------
(* The environment: contexts are cancelled at any time. *)
Cancel(x) ==
    /\ x \notin done
    /\ done' = done \cup {x}
    /\ UNCHANGED <<goroutine, stmt, flag, conn, call>>

(* The waiter goroutine: select on its channel and on ctx.Done(), then
   sendInterrupt.  Its channel operations are in CancelWaiter and
   AwaitWaiter below. *)
\* Mutant: the goroutine selects again after it has sent the interrupt.
WakeAgain(x) ==
    /\ goroutine[x] \in {"select", "waiting"}
    /\ x \in done
    /\ goroutine' = [goroutine EXCEPT ![x] = "sendInterrupt"]
    /\ UNCHANGED <<done, stmt, flag, conn, call>>

Wake(x) ==
    /\ goroutine[x] = "select"
    /\ x \in done
    /\ goroutine' = [goroutine EXCEPT ![x] = "sendInterrupt"]
    /\ UNCHANGED <<done, stmt, flag, conn, call>>

sendInterrupt(x) ==
    /\ goroutine[x] = "sendInterrupt"
    /\ flag' = TRUE
    /\ goroutine' = [goroutine EXCEPT ![x] = "waiting"]
    /\ UNCHANGED <<done, stmt, conn, call>>

-------------------------------------------------------------------------------
(* Statements.  Exec and Step call checkInterrupt, then SQLite. *)
checkInterrupt == interrupt \in done

Use(u) ==
    /\ Ready
    /\ u \in Stmts => stmt[u] # "closed"
    /\ cur' = u
    /\ must' = checkInterrupt
    /\ flag' = (flag \/ checkInterrupt)
    /\ pc' = "start"
    /\ UNCHANGED <<done, goroutine, stmt, conn, arg, closing, result, tame>>

Halt == IF cur \in Stmts THEN stmt' = [stmt EXCEPT ![cur] = "ready"]
                         ELSE UNCHANGED stmt

Start ==
    /\ pc = "start"
    /\ flag' = (flag /\ Active)
    /\ IF flag' THEN Return("INTERRUPT") /\ Halt
                ELSE pc' = "run" /\ UNCHANGED <<stmt, arg, closing, cur, must, result>>
    /\ UNCHANGED <<done, goroutine, conn, tame>>

\* A row (of a prepared statement), or the end of the statement.
Finish ==
    /\ pc = "run"
    /\ Return("OK")
    /\ \/ Halt
       \/ cur \in Stmts /\ stmt' = [stmt EXCEPT ![cur] = "row"]
    /\ UNCHANGED <<done, goroutine, flag, conn, tame>>

Interrupted ==
    /\ pc = "run"
    /\ flag
    /\ Return("INTERRUPT")
    /\ Halt
    /\ UNCHANGED <<done, goroutine, flag, conn, tame>>

Prepare(s) ==
    /\ Ready
    /\ stmt[s] = "closed"
    /\ flag' = (flag /\ Active)
    /\ IF flag' THEN Return("INTERRUPT") /\ UNCHANGED stmt
                ELSE Return("OK") /\ stmt' = [stmt EXCEPT ![s] = "ready"]
    /\ UNCHANGED <<done, goroutine, conn, tame>>

Reset(s) ==
    /\ Ready
    /\ stmt[s] # "closed"
    /\ stmt' = [stmt EXCEPT ![s] = "ready"]
    /\ Return("OK")
    /\ UNCHANGED <<done, goroutine, flag, conn, tame>>

CloseStmt(s) ==
    /\ Ready
    /\ stmt[s] # "closed"
    /\ stmt' = [stmt EXCEPT ![s] = "closed"]
    /\ Return("OK")
    /\ UNCHANGED <<done, goroutine, flag, conn, tame>>
-------------------------------------------------------------------------------
(* Conn.SetInterrupt and Conn.Close. *)
\* Mutant: the running waiter is not cancelled.
EnterAtOnce(x) ==
    /\ arg' = x
    /\ tame' = FALSE
    /\ pc' = "install"
    /\ UNCHANGED <<done, goroutine, stmt, flag, conn, cur, must, result>>

Enter(x) ==
    /\ arg' = x
    /\ tame' = (NoCtx \in {x, interrupt} /\ \A s \in Stmts : stmt[s] # "row")
    /\ pc' = IF waiter THEN "cancelWaiter" ELSE "install"
    /\ UNCHANGED <<done, goroutine, stmt, flag, conn, cur, must, result>>

SetInterrupt(x) ==
    /\ Ready
    /\ closing' = FALSE
    /\ Enter(x)

\* Mutant: the context is not reset before the handle is closed.
CloseAtOnce ==
    /\ Ready
    /\ closing' = TRUE
    /\ pc' = "close"
    /\ UNCHANGED <<done, goroutine, stmt, flag, conn, arg, cur, must, result, tame>>

Close ==
    /\ Ready
    /\ closing' = TRUE
    /\ Enter(NoCtx)

\* c.waiter <- struct{}{}, received by the goroutine in its select or after
\* it has sent the interrupt.
CancelWaiter(x) ==
    /\ pc = "cancelWaiter"
    /\ goroutine[x] \in {"select", "waiting"}
    /\ goroutine' = [goroutine EXCEPT ![x] = "finished"]
    /\ pc' = "awaitWaiter"
    /\ UNCHANGED <<done, stmt, flag, conn, arg, closing, cur, must, result, tame>>

\* <-c.waiter, sent by the goroutine as its last action.
AwaitWaiter(x) ==
    /\ pc = "awaitWaiter"
    /\ goroutine[x] = "finished"
    /\ goroutine' = [goroutine EXCEPT ![x] = "none"]
    /\ waiter' = FALSE
    /\ pc' = "install"
    /\ UNCHANGED <<done, stmt, flag, interrupt, pending, handle, arg, closing, cur, must, result, tame>>

\* Mutant: the pending statement stays as it is.
InstallNoneKeep ==
    /\ pc = "install"
    /\ arg = NoCtx
    /\ interrupt' = NoCtx
    /\ IF closing THEN pc' = "close" /\ UNCHANGED <<arg, closing, cur, must, result>>
                  ELSE Return("OK")
    /\ UNCHANGED <<done, goroutine, stmt, flag, pending, waiter, handle, tame>>

\* Without a context to wait for, finalize the pending statement.
InstallNone ==
    /\ pc = "install"
    /\ arg = NoCtx
    /\ interrupt' = NoCtx
    /\ pending' = "nil"
    /\ IF closing THEN pc' = "close" /\ UNCHANGED <<arg, closing, cur, must, result>>
                  ELSE Return("OK")
    /\ UNCHANGED <<done, goroutine, stmt, flag, waiter, handle, tame>>

\* Mutant: the pending statement is prepared and never stepped.
InstallUnstepped ==
    /\ pc = "install"
    /\ arg # NoCtx /\ pending = "nil"
    /\ interrupt' = arg
    /\ flag' = FALSE
    /\ pending' = "ready"
    /\ pc' = "check"
    /\ UNCHANGED <<done, goroutine, stmt, waiter, handle, arg, closing, cur, must, result, tame>>

\* No pending statement yet: prepare one (which fails if the flag is set and
\* not cleared, and leaves nil to be dereferenced) and step it, with the
\* checkInterrupt that Step begins with.
InstallNew ==
    /\ pc = "install"
    /\ arg # NoCtx /\ pending = "nil"
    /\ interrupt' = arg
    /\ \/ /\ flag /\ Active
          /\ pc' = "panic"
          /\ UNCHANGED <<pending, flag>>
       \/ /\ ~(flag /\ Active)
          /\ flag' = (Active /\ arg \in done)
          /\ pending' = IF flag' THEN "ready" ELSE "row"
          /\ pc' = "check"
    /\ UNCHANGED <<done, goroutine, stmt, waiter, handle, arg, closing, cur, must, result, tame>>

\* The pending statement of the previous context is reset.
InstallOver ==
    /\ pc = "install"
    /\ arg # NoCtx /\ pending # "nil"
    /\ interrupt' = arg
    /\ pending' = "ready"
    /\ pc' = "check"
    /\ UNCHANGED <<done, goroutine, stmt, flag, waiter, handle, arg, closing, cur, must, result, tame>>

\* Mutant: there is no goroutine.
SpawnNothing ==
    /\ pc = "check"
    /\ flag' = (flag \/ checkInterrupt)
    /\ Return("OK")
    /\ UNCHANGED <<done, goroutine, stmt, conn, tame>>

\* The last part of SetInterrupt: no goroutine if the context is done already.
Spawn ==
    /\ pc = "check"
    /\ \/ /\ checkInterrupt
          /\ flag' = TRUE
          /\ UNCHANGED <<waiter, goroutine>>
       \/ /\ ~checkInterrupt
          /\ waiter' = TRUE
          /\ goroutine' = [goroutine EXCEPT ![arg] = "select"]
          /\ UNCHANGED flag
    /\ Return("OK")
    /\ UNCHANGED <<done, stmt, interrupt, pending, handle, tame>>

\* sqlite3_close refuses while there are prepared statements.
CloseHandle ==
    /\ pc = "close"
    /\ IF \E s \in Stmts : stmt[s] # "closed"
       THEN Return("BUSY") /\ UNCHANGED handle
       ELSE Return("OK") /\ handle' = FALSE
    /\ UNCHANGED <<done, goroutine, stmt, flag, interrupt, waiter, pending, tame>>

\* It is safe to close a closed connection.
CloseAgain ==
    /\ pc = "idle" /\ ~handle
    /\ Return("OK")
    /\ UNCHANGED <<done, goroutine, stmt, flag, conn, tame>>

InSetInterrupt ==
    \/ \E x \in Ctxs : CancelWaiter(x) \/ AwaitWaiter(x)
    \/ InstallNone \/ InstallNew \/ InstallOver \/ Spawn \/ CloseHandle

Waiter(x) == Wake(x) \/ sendInterrupt(x)

Next ==
    \/ \E x \in Ctxs : Cancel(x) \/ Waiter(x)
    \/ \E x \in Ctxs \cup {NoCtx} : SetInterrupt(x)
    \/ \E u \in Stmts \cup {EXEC} : Use(u)
    \/ \E s \in Stmts : Prepare(s) \/ Reset(s) \/ CloseStmt(s)
    \/ Start \/ Finish \/ Interrupted
    \/ InSetInterrupt \/ Close \/ CloseAgain

Spec == Init /\ [][Next]_vars

\* Scheduling: goroutines run, and SQLite notices its flag.  That a query ends
\* by itself is not assumed.
FairSpec ==
    /\ Spec
    /\ \A x \in Ctxs : WF_vars(Waiter(x))
    /\ WF_vars(InSetInterrupt)
    /\ WF_vars(Start)
    /\ WF_vars(Interrupted)
-------------------------------------------------------------------------------
\* The values of Conn's fields, the goroutine's and the caller's positions.
TypeOK ==
    /\ done \subseteq Ctxs
    /\ interrupt \in Ctxs \cup {NoCtx} /\ arg \in Ctxs \cup {NoCtx}
    /\ {waiter, flag, handle, closing, must, tame} \subseteq BOOLEAN
    /\ goroutine \in [Ctxs -> {"none", "select", "sendInterrupt", "waiting", "finished"}]
    /\ pending \in {"nil", "ready", "row"}
    /\ stmt \in [Stmts -> {"closed", "ready", "row"}]
    /\ cur \in Stmts \cup {EXEC}
    /\ pc \in {"idle", "start", "run", "cancelWaiter", "awaitWaiter", "install",
              "check", "close", "panic"}
    /\ result \in {"OK", "INTERRUPT", "BUSY"}

\* There is a goroutine exactly while c.waiter is set, and it waits for the
\* context of the connection: SetInterrupt never leaves an old one behind, and
\* Close none that could call sqlite3_interrupt with a handle that is closed.
OneWaiter ==
    /\ waiter <=> \E x \in Ctxs : goroutine[x] # "none"
    /\ \A x \in Ctxs : goroutine[x] # "none" => x = interrupt /\ handle

\* The call being made runs a statement.
Running == pc \in {"start", "run"}

\* SetInterrupt's documentation: once the context is done, "Subsequent uses of
\* the connection will return [INTERRUPT]".  A cancellation that comes before
\* the statement starts is never lost (conn.go, comment on c.pending).
Sticky == [][tame /\ Running /\ pc' = "idle" /\ must => result' = "INTERRUPT"]_vars

\* The same as the documentation has it, in whatever order contexts replace
\* each other.
StickyInAnyOrder == [][Running /\ pc' = "idle" /\ must => result' = "INTERRUPT"]_vars

\* SetInterrupt may be called at any time (conn.go: "until the context is
\* reset by another call to SetInterrupt"); it does not panic.
NoPanic == pc # "panic"

\* SetInterrupt and Close return, or panic: the exchange of messages with the
\* goroutine does not block, whichever of the channel and ctx.Done() its select
\* takes.
SetInterruptReturns == pc \in {"cancelWaiter", "install"} ~> pc \in {"idle", "panic"}
===============================================================================

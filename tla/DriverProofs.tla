----------------------------- MODULE DriverProofs -----------------------------
(***************************************************************************)
(* Proofs about Interrupt and Driver, for any contexts, statements and     *)
(* number of writes, with rows open and contexts cancelled at any time.    *)
(* What holds of the connection by itself comes first.                     *)
(***************************************************************************)
EXTENDS Driver, TLAPS

\* The caller is in SetInterrupt, before it installs the context.
Entering == pc \in {"cancelWaiter", "awaitWaiter", "install"}

\* The goroutine and SetInterrupt agree on how far their exchange is.
Handshake ==
    /\ pc \in {"cancelWaiter", "awaitWaiter"} => waiter
    /\ pc \in {"install", "check", "close"} => ~waiter
    /\ \A x \in Ctxs : goroutine[x] # "none" => (goroutine[x] = "finished" <=> pc = "awaitWaiter")
    /\ \A x \in Ctxs : goroutine[x] \in {"sendInterrupt", "waiting"} => x \in done
    /\ pc # "idle" => handle
    /\ pc = "check" => arg # NoCtx /\ interrupt = arg
    /\ pc = "close" => interrupt = NoCtx
    /\ Running /\ cur \in Stmts => stmt[cur] # "closed"
    /\ pc \in {"idle", "start", "run"} => arg = NoCtx
    /\ closing => Entering \/ pc = "close"
    /\ closing => arg = NoCtx

\* A call that began when the context was done will find the flag set, and the
\* flag stays set because the pending statement is on a row.
FlagKept ==
    /\ interrupt = NoCtx => pending = "nil"
    /\ tame /\ Entering => NoCtx \in {arg, interrupt} /\ \A s \in Stmts : stmt[s] # "row"
    /\ tame /\ pc \in {"idle", "start", "run", "check"} /\ interrupt # NoCtx => pending = "row"
    /\ must => pc \in {"start", "run"}
    /\ tame /\ must => pc = "start" /\ flag /\ interrupt \in done

\* The flag is set, and a statement that is running or starts will see it.
Flagged == flag /\ (Active \/ pc = "run")

\* A flag of SQLite that is set is the work of the context in force.
FlagOwn == tame /\ ~Entering /\ Flagged => interrupt \in done

\* The inductive invariant.
ConnInv == TypeOK /\ OneWaiter /\ Handshake /\ FlagKept /\ FlagOwn
-------------------------------------------------------------------------------
\* The steps of the connection keep the types.
LEMMA NextTypeOK ==
    TypeOK /\ Handshake /\ [Next]_vars => TypeOK'
<1> SUFFICES ASSUME TypeOK /\ Handshake PROVE [Next]_vars => TypeOK'
  OBVIOUS
<1> USE CtxAssumption DEF vars, conn, call, TypeOK, Handshake, Running, Entering, EXEC
<1>1. ASSUME NEW x \in Ctxs, Cancel(x) PROVE TypeOK'
  BY <1>1 DEF Cancel
<1>2. ASSUME NEW x \in Ctxs, Wake(x) PROVE TypeOK'
  BY <1>2 DEF Wake
<1>3. ASSUME NEW x \in Ctxs, sendInterrupt(x) PROVE TypeOK'
  BY <1>3 DEF sendInterrupt
<1>4. ASSUME NEW x \in Ctxs \cup {NoCtx}, SetInterrupt(x) PROVE TypeOK'
  BY Zenon, <1>4 DEF SetInterrupt, Enter, Ready
<1>5. ASSUME NEW u \in Stmts \cup {EXEC}, Use(u) PROVE TypeOK'
  BY <1>5 DEF Use, Ready, checkInterrupt
<1>6. ASSUME NEW s \in Stmts, Prepare(s) PROVE TypeOK'
  BY Zenon, <1>6 DEF Prepare, Ready, Return
<1>7. ASSUME NEW s \in Stmts, Reset(s) PROVE TypeOK'
  BY Zenon, <1>7 DEF Reset, Ready, Return
<1>8. ASSUME NEW s \in Stmts, CloseStmt(s) PROVE TypeOK'
  BY Zenon, <1>8 DEF CloseStmt, Ready, Return
<1>9. ASSUME Start PROVE TypeOK'
  BY Zenon, <1>9 DEF Start, Return, Halt
<1>10. ASSUME Finish PROVE TypeOK'
  BY Zenon, <1>10 DEF Finish, Return, Halt
<1>11. ASSUME Interrupted PROVE TypeOK'
  BY Zenon, <1>11 DEF Interrupted, Return, Halt
<1>12. ASSUME NEW x \in Ctxs, CancelWaiter(x) PROVE TypeOK'
  BY <1>12 DEF CancelWaiter
<1>13. ASSUME NEW x \in Ctxs, AwaitWaiter(x) PROVE TypeOK'
  BY Zenon, <1>13 DEF AwaitWaiter
<1>14. ASSUME InstallNone PROVE TypeOK'
  BY Zenon, <1>14 DEF InstallNone, Return
<1>15. ASSUME InstallNew PROVE TypeOK'
  BY Zenon, <1>15 DEF InstallNew
<1>16. ASSUME InstallOver PROVE TypeOK'
  BY <1>16 DEF InstallOver
<1>17. ASSUME Spawn PROVE TypeOK'
  BY Zenon, <1>17 DEF Spawn, Return, checkInterrupt
<1>18. ASSUME CloseHandle PROVE TypeOK'
  BY Zenon, <1>18 DEF CloseHandle, Return
<1>19. ASSUME Close PROVE TypeOK'
  BY <1>19 DEF Close, Enter, Ready
<1>20. ASSUME CloseAgain PROVE TypeOK'
  BY Zenon, <1>20 DEF CloseAgain, Return
<1>21. ASSUME UNCHANGED vars PROVE TypeOK'
  BY <1>21
<1> QED
  BY <1>1, <1>2, <1>3, <1>4, <1>5, <1>6, <1>7, <1>8, <1>9, <1>10, <1>11, <1>12, <1>13,
      <1>14, <1>15, <1>16, <1>17, <1>18, <1>19, <1>20, <1>21 DEF Next, Waiter,
      InSetInterrupt

\* They keep one goroutine, for the context of the connection.
LEMMA NextOneWaiter ==
    TypeOK /\ Handshake /\ OneWaiter /\ [Next]_vars => OneWaiter'
<1> SUFFICES ASSUME TypeOK /\ Handshake /\ OneWaiter PROVE [Next]_vars => OneWaiter'
  OBVIOUS
<1> USE CtxAssumption DEF vars, conn, call, TypeOK, OneWaiter, Handshake, Running, Entering,
    EXEC
<1>1. ASSUME NEW x \in Ctxs, Cancel(x) PROVE OneWaiter'
  BY <1>1 DEF Cancel
<1>2. ASSUME NEW x \in Ctxs, Wake(x) PROVE OneWaiter'
  BY <1>2 DEF Wake
<1>3. ASSUME NEW x \in Ctxs, sendInterrupt(x) PROVE OneWaiter'
  BY <1>3 DEF sendInterrupt
<1>4. ASSUME NEW x \in Ctxs \cup {NoCtx}, SetInterrupt(x) PROVE OneWaiter'
  BY <1>4 DEF SetInterrupt, Enter, Ready
<1>5. ASSUME NEW u \in Stmts \cup {EXEC}, Use(u) PROVE OneWaiter'
  BY <1>5 DEF Use, Ready, checkInterrupt
<1>6. ASSUME NEW s \in Stmts, Prepare(s) PROVE OneWaiter'
  BY <1>6 DEF Prepare, Ready, Return
<1>7. ASSUME NEW s \in Stmts, Reset(s) PROVE OneWaiter'
  BY <1>7 DEF Reset, Ready, Return
<1>8. ASSUME NEW s \in Stmts, CloseStmt(s) PROVE OneWaiter'
  BY <1>8 DEF CloseStmt, Ready, Return
<1>9. ASSUME Start PROVE OneWaiter'
  BY <1>9 DEF Start, Return, Halt
<1>10. ASSUME Finish PROVE OneWaiter'
  BY <1>10 DEF Finish, Return, Halt
<1>11. ASSUME Interrupted PROVE OneWaiter'
  BY <1>11 DEF Interrupted, Return, Halt
<1>12. ASSUME NEW x \in Ctxs, CancelWaiter(x) PROVE OneWaiter'
  BY <1>12 DEF CancelWaiter
<1>13. ASSUME NEW x \in Ctxs, AwaitWaiter(x) PROVE OneWaiter'
  BY <1>13 DEF AwaitWaiter
<1>14. ASSUME InstallNone PROVE OneWaiter'
  BY <1>14 DEF InstallNone, Return
<1>15. ASSUME InstallNew PROVE OneWaiter'
  BY <1>15 DEF InstallNew
<1>16. ASSUME InstallOver PROVE OneWaiter'
  BY <1>16 DEF InstallOver
<1>17. ASSUME Spawn PROVE OneWaiter'
  BY <1>17 DEF Spawn, Return, checkInterrupt
<1>18. ASSUME CloseHandle PROVE OneWaiter'
  BY <1>18 DEF CloseHandle, Return
<1>19. ASSUME Close PROVE OneWaiter'
  BY <1>19 DEF Close, Enter, Ready
<1>20. ASSUME CloseAgain PROVE OneWaiter'
  BY <1>20 DEF CloseAgain, Return
<1>21. ASSUME UNCHANGED vars PROVE OneWaiter'
  BY <1>21
<1> QED
  BY <1>1, <1>2, <1>3, <1>4, <1>5, <1>6, <1>7, <1>8, <1>9, <1>10, <1>11, <1>12, <1>13,
      <1>14, <1>15, <1>16, <1>17, <1>18, <1>19, <1>20, <1>21 DEF Next, Waiter,
      InSetInterrupt

\* They keep the goroutine and SetInterrupt in step.
LEMMA NextHandshake ==
    TypeOK /\ Handshake /\ OneWaiter /\ [Next]_vars => Handshake'
<1> SUFFICES ASSUME TypeOK /\ Handshake /\ OneWaiter PROVE [Next]_vars => Handshake'
  OBVIOUS
<1> USE CtxAssumption DEF vars, conn, call, TypeOK, OneWaiter, Handshake, Running, Entering,
    EXEC
<1>1. ASSUME NEW x \in Ctxs, Cancel(x) PROVE Handshake'
  BY <1>1 DEF Cancel
<1>2. ASSUME NEW x \in Ctxs, Wake(x) PROVE Handshake'
  BY <1>2 DEF Wake
<1>3. ASSUME NEW x \in Ctxs, sendInterrupt(x) PROVE Handshake'
  BY <1>3 DEF sendInterrupt
<1>4. ASSUME NEW x \in Ctxs \cup {NoCtx}, SetInterrupt(x) PROVE Handshake'
  BY <1>4 DEF SetInterrupt, Enter, Ready
<1>5. ASSUME NEW u \in Stmts \cup {EXEC}, Use(u) PROVE Handshake'
  BY <1>5 DEF Use, Ready, checkInterrupt
<1>6. ASSUME NEW s \in Stmts, Prepare(s) PROVE Handshake'
  BY <1>6 DEF Prepare, Ready, Return
<1>7. ASSUME NEW s \in Stmts, Reset(s) PROVE Handshake'
  BY <1>7 DEF Reset, Ready, Return
<1>8. ASSUME NEW s \in Stmts, CloseStmt(s) PROVE Handshake'
  BY <1>8 DEF CloseStmt, Ready, Return
<1>9. ASSUME Start PROVE Handshake'
  BY <1>9 DEF Start, Return, Halt
<1>10. ASSUME Finish PROVE Handshake'
  BY <1>10 DEF Finish, Return, Halt
<1>11. ASSUME Interrupted PROVE Handshake'
  BY <1>11 DEF Interrupted, Return, Halt
<1>12. ASSUME NEW x \in Ctxs, CancelWaiter(x) PROVE Handshake'
  BY <1>12 DEF CancelWaiter
<1>13. ASSUME NEW x \in Ctxs, AwaitWaiter(x) PROVE Handshake'
  BY <1>13 DEF AwaitWaiter
<1>14. ASSUME InstallNone PROVE Handshake'
  BY <1>14 DEF InstallNone, Return
<1>15. ASSUME InstallNew PROVE Handshake'
  BY <1>15 DEF InstallNew
<1>16. ASSUME InstallOver PROVE Handshake'
  BY <1>16 DEF InstallOver
<1>17. ASSUME Spawn PROVE Handshake'
  BY <1>17 DEF Spawn, Return, checkInterrupt
<1>18. ASSUME CloseHandle PROVE Handshake'
  BY Zenon, <1>18 DEF CloseHandle, Return
<1>19. ASSUME Close PROVE Handshake'
  BY <1>19 DEF Close, Enter, Ready
<1>20. ASSUME CloseAgain PROVE Handshake'
  BY <1>20 DEF CloseAgain, Return
<1>21. ASSUME UNCHANGED vars PROVE Handshake'
  BY <1>21
<1> QED
  BY Zenon, <1>1, <1>2, <1>3, <1>4, <1>5, <1>6, <1>7, <1>8, <1>9, <1>10, <1>11, <1>12, <1>13,
      <1>14, <1>15, <1>16, <1>17, <1>18, <1>19, <1>20, <1>21 DEF Next, Waiter,
      InSetInterrupt

\* They keep what a call that finds its context done relies on.
LEMMA NextFlagKept ==
    TypeOK /\ Handshake /\ FlagKept /\ [Next]_vars => FlagKept'
<1> SUFFICES ASSUME TypeOK /\ Handshake /\ FlagKept PROVE [Next]_vars => FlagKept'
  OBVIOUS
<1> USE CtxAssumption DEF vars, conn, call, TypeOK, Handshake, FlagKept, Running, Entering,
    Active, EXEC
<1>1. ASSUME NEW x \in Ctxs, Cancel(x) PROVE FlagKept'
  BY <1>1 DEF Cancel
<1>2. ASSUME NEW x \in Ctxs, Wake(x) PROVE FlagKept'
  BY <1>2 DEF Wake
<1>3. ASSUME NEW x \in Ctxs, sendInterrupt(x) PROVE FlagKept'
  BY <1>3 DEF sendInterrupt
<1>4. ASSUME NEW x \in Ctxs \cup {NoCtx}, SetInterrupt(x) PROVE FlagKept'
  BY <1>4 DEF SetInterrupt, Enter, Ready
<1>5. ASSUME NEW u \in Stmts \cup {EXEC}, Use(u) PROVE FlagKept'
  BY <1>5 DEF Use, Ready, checkInterrupt
<1>6. ASSUME NEW s \in Stmts, Prepare(s) PROVE FlagKept'
  BY <1>6 DEF Prepare, Ready, Return
<1>7. ASSUME NEW s \in Stmts, Reset(s) PROVE FlagKept'
  BY <1>7 DEF Reset, Ready, Return
<1>8. ASSUME NEW s \in Stmts, CloseStmt(s) PROVE FlagKept'
  BY <1>8 DEF CloseStmt, Ready, Return
<1>9. ASSUME Start PROVE FlagKept'
  BY <1>9 DEF Start, Return, Halt
<1>10. ASSUME Finish PROVE FlagKept'
  BY <1>10 DEF Finish, Return, Halt
<1>11. ASSUME Interrupted PROVE FlagKept'
  BY <1>11 DEF Interrupted, Return, Halt
<1>12. ASSUME NEW x \in Ctxs, CancelWaiter(x) PROVE FlagKept'
  BY <1>12 DEF CancelWaiter
<1>13. ASSUME NEW x \in Ctxs, AwaitWaiter(x) PROVE FlagKept'
  BY <1>13 DEF AwaitWaiter
<1>14. ASSUME InstallNone PROVE FlagKept'
  BY <1>14 DEF InstallNone, Return
<1>15. ASSUME InstallNew PROVE FlagKept'
  BY <1>15 DEF InstallNew
<1>16. ASSUME InstallOver PROVE FlagKept'
  BY <1>16 DEF InstallOver
<1>17. ASSUME Spawn PROVE FlagKept'
  BY <1>17 DEF Spawn, Return, checkInterrupt
<1>18. ASSUME CloseHandle PROVE FlagKept'
  BY Zenon, <1>18 DEF CloseHandle, Return
<1>19. ASSUME Close PROVE FlagKept'
  BY <1>19 DEF Close, Enter, Ready
<1>20. ASSUME CloseAgain PROVE FlagKept'
  BY <1>20 DEF CloseAgain, Return
<1>21. ASSUME UNCHANGED vars PROVE FlagKept'
  BY <1>21
<1> QED
  BY Zenon, <1>1, <1>2, <1>3, <1>4, <1>5, <1>6, <1>7, <1>8, <1>9, <1>10, <1>11, <1>12, <1>13,
      <1>14, <1>15, <1>16, <1>17, <1>18, <1>19, <1>20, <1>21 DEF Next, Waiter,
      InSetInterrupt

\* They set the flag on behalf of the connection's context only.
LEMMA NextFlagOwn ==
    ConnInv /\ [Next]_vars => FlagOwn'
<1> SUFFICES ASSUME ConnInv PROVE [Next]_vars => FlagOwn'
  OBVIOUS
<1> USE CtxAssumption DEF vars, conn, call, ConnInv, TypeOK, Handshake, OneWaiter, FlagKept,
    FlagOwn, Flagged, Running, Entering, Active, EXEC
<1>1. ASSUME NEW x \in Ctxs, Cancel(x) PROVE FlagOwn'
  BY <1>1 DEF Cancel
<1>2. ASSUME NEW x \in Ctxs, Wake(x) PROVE FlagOwn'
  BY <1>2 DEF Wake
<1>3. ASSUME NEW x \in Ctxs, sendInterrupt(x) PROVE FlagOwn'
  BY <1>3 DEF sendInterrupt
<1>4. ASSUME NEW x \in Ctxs \cup {NoCtx}, SetInterrupt(x) PROVE FlagOwn'
  BY <1>4 DEF SetInterrupt, Enter, Ready
<1>5. ASSUME NEW u \in Stmts \cup {EXEC}, Use(u) PROVE FlagOwn'
  BY <1>5 DEF Use, Ready, checkInterrupt
<1>6. ASSUME NEW s \in Stmts, Prepare(s) PROVE FlagOwn'
  BY <1>6 DEF Prepare, Ready, Return
<1>7. ASSUME NEW s \in Stmts, Reset(s) PROVE FlagOwn'
  BY <1>7 DEF Reset, Ready, Return
<1>8. ASSUME NEW s \in Stmts, CloseStmt(s) PROVE FlagOwn'
  BY <1>8 DEF CloseStmt, Ready, Return
<1>9. ASSUME Start PROVE FlagOwn'
  BY <1>9 DEF Start, Return, Halt
<1>10. ASSUME Finish PROVE FlagOwn'
  BY <1>10 DEF Finish, Return, Halt
<1>11. ASSUME Interrupted PROVE FlagOwn'
  BY <1>11 DEF Interrupted, Return, Halt
<1>12. ASSUME NEW x \in Ctxs, CancelWaiter(x) PROVE FlagOwn'
  BY <1>12 DEF CancelWaiter
<1>13. ASSUME NEW x \in Ctxs, AwaitWaiter(x) PROVE FlagOwn'
  BY <1>13 DEF AwaitWaiter
<1>14. ASSUME InstallNone PROVE FlagOwn'
  BY <1>14 DEF InstallNone, Return
<1>15. ASSUME InstallNew PROVE FlagOwn'
  BY Zenon, <1>15 DEF InstallNew
<1>16. ASSUME InstallOver PROVE FlagOwn'
  BY <1>16 DEF InstallOver
<1>17. ASSUME Spawn PROVE FlagOwn'
  BY Zenon, <1>17 DEF Spawn, Return, checkInterrupt
<1>18. ASSUME CloseHandle PROVE FlagOwn'
  BY Zenon, <1>18 DEF CloseHandle, Return
<1>19. ASSUME Close PROVE FlagOwn'
  BY <1>19 DEF Close, Enter, Ready
<1>20. ASSUME CloseAgain PROVE FlagOwn'
  BY <1>20 DEF CloseAgain, Return
<1>21. ASSUME UNCHANGED vars PROVE FlagOwn'
  BY <1>21
<1> QED
  BY Zenon, <1>1, <1>2, <1>3, <1>4, <1>5, <1>6, <1>7, <1>8, <1>9, <1>10, <1>11, <1>12, <1>13,
      <1>14, <1>15, <1>16, <1>17, <1>18, <1>19, <1>20, <1>21 DEF Next, Waiter,
      InSetInterrupt

\* SetInterrupt panics when it installs a context over a flag that is kept.
LEMMA PanicStep ==
    [Next]_vars /\ pc # "panic" /\ pc' = "panic" => InstallNew /\ flag /\ Active
<1> SUFFICES ASSUME [Next]_vars, pc # "panic", pc' = "panic" PROVE InstallNew /\ flag /\
    Active
  OBVIOUS
<1> USE DEF vars, conn, call
<1>1. ASSUME NEW x \in Ctxs, Cancel(x) \/ Waiter(x) \/ CancelWaiter(x) \/ AwaitWaiter(x)
      PROVE FALSE
  BY <1>1 DEF Cancel, Waiter, Wake, sendInterrupt, CancelWaiter, AwaitWaiter
<1>2. ASSUME NEW x \in Ctxs \cup {NoCtx}, SetInterrupt(x) PROVE FALSE
  BY <1>2 DEF SetInterrupt, Enter
<1>3. ASSUME NEW u \in Stmts \cup {EXEC}, Use(u) PROVE FALSE
  BY <1>3 DEF Use
<1>4. ASSUME NEW s \in Stmts, Prepare(s) \/ Reset(s) \/ CloseStmt(s) PROVE FALSE
  BY <1>4 DEF Prepare, Reset, CloseStmt, Return
<1>5. ~(Start \/ Finish \/ Interrupted)
  BY DEF Start, Finish, Interrupted, Return
<1>6. ~(InstallNone \/ InstallOver \/ Spawn \/ CloseHandle \/ Close \/ CloseAgain)
  BY DEF InstallNone, InstallOver, Spawn, CloseHandle, Close, Enter, CloseAgain, Return
<1>7. InstallNew => flag /\ Active
  BY DEF InstallNew
<1> QED
  BY <1>1, <1>2, <1>3, <1>4, <1>5, <1>6, <1>7 DEF Next, InSetInterrupt

\* A call that runs a statement returns from SQLite.
LEMMA RunningEnds ==
    [Next]_vars /\ Running /\ pc' = "idle" => Start \/ Finish \/ Interrupted
<1> SUFFICES ASSUME [Next]_vars, Running, pc' = "idle" PROVE Start \/ Finish \/ Interrupted
  OBVIOUS
<1> USE DEF vars, conn, call, Running, Ready
<1>1. ASSUME NEW x \in Ctxs, Cancel(x) \/ Waiter(x) \/ CancelWaiter(x) \/ AwaitWaiter(x)
      PROVE FALSE
  BY <1>1 DEF Cancel, Waiter, Wake, sendInterrupt, CancelWaiter, AwaitWaiter
<1>2. ASSUME NEW x \in Ctxs \cup {NoCtx}, SetInterrupt(x) PROVE FALSE
  BY <1>2 DEF SetInterrupt
<1>3. ASSUME NEW u \in Stmts \cup {EXEC}, Use(u) PROVE FALSE
  BY <1>3 DEF Use
<1>4. ASSUME NEW s \in Stmts, Prepare(s) \/ Reset(s) \/ CloseStmt(s) PROVE FALSE
  BY <1>4 DEF Prepare, Reset, CloseStmt
<1>5. ~(InstallNone \/ InstallNew \/ InstallOver \/ Spawn \/ CloseHandle \/ Close \/
    CloseAgain)
  BY DEF InstallNone, InstallNew, InstallOver, Spawn, CloseHandle, Close, CloseAgain
<1> QED
  BY <1>1, <1>2, <1>3, <1>4, <1>5 DEF Next, InSetInterrupt


\* Nor does the caller of SetInterrupt go on.
LEMMA PanicStays ==
    [Next]_vars /\ pc = "panic" => UNCHANGED tame
<1> SUFFICES ASSUME [Next]_vars, pc = "panic" PROVE UNCHANGED tame
  OBVIOUS
<1> USE DEF vars, conn, call, Ready
<1>1. ASSUME NEW x \in Ctxs, Cancel(x) \/ Waiter(x) \/ CancelWaiter(x) \/ AwaitWaiter(x)
      PROVE UNCHANGED tame
  BY <1>1 DEF Cancel, Waiter, Wake, sendInterrupt, CancelWaiter, AwaitWaiter
<1>2. ASSUME NEW x \in Ctxs \cup {NoCtx}, SetInterrupt(x) PROVE FALSE
  BY <1>2 DEF SetInterrupt
<1>3. ASSUME NEW u \in Stmts \cup {EXEC}, Use(u) PROVE FALSE
  BY <1>3 DEF Use
<1>4. ASSUME NEW s \in Stmts, Prepare(s) \/ Reset(s) \/ CloseStmt(s) PROVE FALSE
  BY <1>4 DEF Prepare, Reset, CloseStmt
<1>5. ~(Start \/ Finish \/ Interrupted \/ Close \/ CloseAgain)
  BY DEF Start, Finish, Interrupted, Close, CloseAgain
<1>6. ~(InstallNone \/ InstallNew \/ InstallOver \/ Spawn \/ CloseHandle)
  BY DEF InstallNone, InstallNew, InstallOver, Spawn, CloseHandle
<1> QED
  BY <1>1, <1>2, <1>3, <1>4, <1>5, <1>6 DEF Next, InSetInterrupt

\* The connection's invariant, by itself.
LEMMA NextConnInv ==
    ConnInv /\ [Next]_vars => ConnInv'
  BY NextTypeOK, NextOneWaiter, NextHandshake, NextFlagKept, NextFlagOwn DEF ConnInv

\* It holds of a new connection.
LEMMA InitConnInv ==
    Init => ConnInv
  BY Zenon, CtxAssumption
  DEF Init, ConnInv, TypeOK, OneWaiter, Handshake, FlagKept, FlagOwn, Flagged, Active,
      Running,
      Entering, EXEC

\* So it always holds.
LEMMA ConnInvariance ==
    Spec => []ConnInv
<1>1. ConnInv /\ UNCHANGED vars => ConnInv'
  BY NextConnInv
<1> QED
  BY InitConnInv, NextConnInv, PTL DEF Spec

-------------------------------------------------------------------------------
(* How a cancellation reaches the connection. *)
\* The connection has its context, and is idle or runs a statement.
Serving == pc \in {"idle", "start", "run"}

\* While the context is not done its goroutine is in its select.
Watched == Serving /\ interrupt \in Ctxs \ done => goroutine[interrupt] = "select"

\* Once it is done the flag is set, or the goroutine is about to set it.
Reached ==
    Serving /\ checkInterrupt => flag \/ goroutine[interrupt] \in {"select", "sendInterrupt"}

\* SetInterrupt's message has a receiver, now or once the goroutine has sent its
\* interrupt, and the goroutine's answer is sent exactly when it is awaited.
ExchangeReady ==
    /\ pc = "cancelWaiter" => goroutine[interrupt] \in {"select", "sendInterrupt", "waiting"}
    /\ pc = "awaitWaiter" <=> \E x \in Ctxs : goroutine[x] = "finished"

\* The goroutine waits for a context that is not done yet.
LEMMA NextWatched ==
    ConnInv /\ Watched /\ [Next]_vars => Watched'
<1> SUFFICES ASSUME ConnInv /\ Watched PROVE [Next]_vars => Watched'
  OBVIOUS
<1> USE CtxAssumption DEF vars, conn, call, ConnInv, TypeOK, Handshake, OneWaiter, Serving,
    Watched, EXEC
<1>1. ASSUME NEW x \in Ctxs, Cancel(x) PROVE Watched'
  BY <1>1 DEF Cancel
<1>2. ASSUME NEW x \in Ctxs, Wake(x) PROVE Watched'
  BY <1>2 DEF Wake
<1>3. ASSUME NEW x \in Ctxs, sendInterrupt(x) PROVE Watched'
  BY <1>3 DEF sendInterrupt
<1>4. ASSUME NEW x \in Ctxs \cup {NoCtx}, SetInterrupt(x) PROVE Watched'
  BY <1>4 DEF SetInterrupt, Enter, Ready
<1>5. ASSUME NEW u \in Stmts \cup {EXEC}, Use(u) PROVE Watched'
  BY <1>5 DEF Use, Ready, checkInterrupt
<1>6. ASSUME NEW s \in Stmts, Prepare(s) PROVE Watched'
  BY <1>6 DEF Prepare, Ready, Return
<1>7. ASSUME NEW s \in Stmts, Reset(s) PROVE Watched'
  BY <1>7 DEF Reset, Ready, Return
<1>8. ASSUME NEW s \in Stmts, CloseStmt(s) PROVE Watched'
  BY <1>8 DEF CloseStmt, Ready, Return
<1>9. ASSUME Start PROVE Watched'
  BY <1>9 DEF Start, Return, Halt
<1>10. ASSUME Finish PROVE Watched'
  BY <1>10 DEF Finish, Return, Halt
<1>11. ASSUME Interrupted PROVE Watched'
  BY <1>11 DEF Interrupted, Return, Halt
<1>12. ASSUME NEW x \in Ctxs, CancelWaiter(x) PROVE Watched'
  BY <1>12 DEF CancelWaiter
<1>13. ASSUME NEW x \in Ctxs, AwaitWaiter(x) PROVE Watched'
  BY <1>13 DEF AwaitWaiter
<1>14. ASSUME InstallNone PROVE Watched'
  BY <1>14 DEF InstallNone, Return
<1>15. ASSUME InstallNew PROVE Watched'
  BY <1>15 DEF InstallNew
<1>16. ASSUME InstallOver PROVE Watched'
  BY <1>16 DEF InstallOver
<1>17. ASSUME Spawn PROVE Watched'
  BY <1>17 DEF Spawn, Return, checkInterrupt
<1>18. ASSUME CloseHandle PROVE Watched'
  BY <1>18 DEF CloseHandle, Return
<1>19. ASSUME Close PROVE Watched'
  BY <1>19 DEF Close, Enter, Ready
<1>20. ASSUME CloseAgain PROVE Watched'
  BY <1>20 DEF CloseAgain, Return
<1>21. ASSUME UNCHANGED vars PROVE Watched'
  BY <1>21
<1> QED
  BY <1>1, <1>2, <1>3, <1>4, <1>5, <1>6, <1>7, <1>8, <1>9, <1>10, <1>11, <1>12, <1>13,
      <1>14, <1>15, <1>16, <1>17, <1>18, <1>19, <1>20, <1>21 DEF Next, Waiter,
      InSetInterrupt

\* A done context is reached, as long as SQLite's flag is not cleared.
LEMMA NextReached ==
    ConnInv /\ Watched /\ (tame => Reached) /\ [Next]_vars => (tame => Reached)'
<1> SUFFICES ASSUME ConnInv /\ Watched /\ (tame => Reached)
             PROVE  [Next]_vars => (tame => Reached)'
  OBVIOUS
<1> USE CtxAssumption DEF vars, conn, call, ConnInv, TypeOK, Handshake, OneWaiter, FlagKept,
    Serving, Watched, Reached, Entering, Active, checkInterrupt, EXEC
<1>1. ASSUME NEW x \in Ctxs, Cancel(x) PROVE (tame => Reached)'
  BY <1>1 DEF Cancel
<1>2. ASSUME NEW x \in Ctxs, Wake(x) PROVE (tame => Reached)'
  BY <1>2 DEF Wake
<1>3. ASSUME NEW x \in Ctxs, sendInterrupt(x) PROVE (tame => Reached)'
  BY <1>3 DEF sendInterrupt
<1>4. ASSUME NEW x \in Ctxs \cup {NoCtx}, SetInterrupt(x) PROVE (tame => Reached)'
  BY <1>4 DEF SetInterrupt, Enter, Ready
<1>5. ASSUME NEW u \in Stmts \cup {EXEC}, Use(u) PROVE (tame => Reached)'
  BY <1>5 DEF Use, Ready
<1>6. ASSUME NEW s \in Stmts, Prepare(s) PROVE (tame => Reached)'
  BY <1>6 DEF Prepare, Ready, Return
<1>7. ASSUME NEW s \in Stmts, Reset(s) PROVE (tame => Reached)'
  BY <1>7 DEF Reset, Ready, Return
<1>8. ASSUME NEW s \in Stmts, CloseStmt(s) PROVE (tame => Reached)'
  BY <1>8 DEF CloseStmt, Ready, Return
<1>9. ASSUME Start PROVE (tame => Reached)'
  BY <1>9 DEF Start, Return, Halt
<1>10. ASSUME Finish PROVE (tame => Reached)'
  BY <1>10 DEF Finish, Return, Halt
<1>11. ASSUME Interrupted PROVE (tame => Reached)'
  BY <1>11 DEF Interrupted, Return, Halt
<1>12. ASSUME NEW x \in Ctxs, CancelWaiter(x) PROVE (tame => Reached)'
  BY <1>12 DEF CancelWaiter
<1>13. ASSUME NEW x \in Ctxs, AwaitWaiter(x) PROVE (tame => Reached)'
  BY <1>13 DEF AwaitWaiter
<1>14. ASSUME InstallNone PROVE (tame => Reached)'
  BY <1>14 DEF InstallNone, Return
<1>15. ASSUME InstallNew PROVE (tame => Reached)'
  BY <1>15 DEF InstallNew
<1>16. ASSUME InstallOver PROVE (tame => Reached)'
  BY <1>16 DEF InstallOver
<1>17. ASSUME Spawn PROVE (tame => Reached)'
  BY <1>17 DEF Spawn, Return
<1>18. ASSUME CloseHandle PROVE (tame => Reached)'
  BY <1>18 DEF CloseHandle, Return
<1>19. ASSUME Close PROVE (tame => Reached)'
  BY <1>19 DEF Close, Enter, Ready
<1>20. ASSUME CloseAgain PROVE (tame => Reached)'
  BY <1>20 DEF CloseAgain, Return
<1>21. ASSUME UNCHANGED vars PROVE (tame => Reached)'
  BY <1>21
<1> QED
  BY Zenon, <1>1, <1>2, <1>3, <1>4, <1>5, <1>6, <1>7, <1>8, <1>9, <1>10, <1>11, <1>12, <1>13,
      <1>14, <1>15, <1>16, <1>17, <1>18, <1>19, <1>20, <1>21 DEF Next, Waiter,
      InSetInterrupt

-------------------------------------------------------------------------------
(* The theorems. *)
\* SetInterrupt has one goroutine at most, for the connection's context, and
\* Close none, whenever contexts are cancelled.
THEOREM OneGoroutine ==
    Spec => []OneWaiter
<1>1. ConnInv => OneWaiter
  BY DEF ConnInv
<1> QED
  BY <1>1, ConnInvariance, PTL

\* A statement that begins with the context done returns INTERRUPT, whenever
\* the goroutine runs: the pending statement keeps SQLite's flag set.
THEOREM InterruptSticks ==
    Spec => Sticky
<1>1. ConnInv /\ [Next]_vars =>
         [tame /\ Running /\ pc' = "idle" /\ must => result' = "INTERRUPT"]_vars
  <2> SUFFICES ASSUME ConnInv, [Next]_vars, tame, Running, pc' = "idle", must
               PROVE  result' = "INTERRUPT"
    OBVIOUS
  <2>1. pc = "start" /\ flag /\ interrupt \in done
    BY DEF ConnInv, FlagKept
  <2>2. Start
    BY <2>1, RunningEnds DEF Finish, Interrupted
  <2> QED
    BY <2>2 DEF Start, Return
<1> QED
  BY <1>1, ConnInvariance, PTL DEF Spec, Sticky

\* SetInterrupt and Close never block on a goroutine that is gone, and no
\* goroutine is left blocked on c.waiter: the partner of every channel operation
\* is there.  With the scheduling that FairSpec assumes this is why they return.
THEOREM ExchangeNeverStuck ==
    Spec => []ExchangeReady
<1>1. ConnInv => ExchangeReady
  <2> SUFFICES ASSUME ConnInv PROVE ExchangeReady
    OBVIOUS
  <2>1. ASSUME pc \in {"cancelWaiter", "awaitWaiter"}
        PROVE  interrupt \in Ctxs /\ goroutine[interrupt] # "none"
    BY <2>1 DEF ConnInv, Handshake, OneWaiter
  <2>2. pc = "cancelWaiter" => goroutine[interrupt] \in {"select", "sendInterrupt", "waiting"}
    BY <2>1 DEF ConnInv, TypeOK, Handshake
  <2>3. pc = "awaitWaiter" <=> \E x \in Ctxs : goroutine[x] = "finished"
    BY <2>1 DEF ConnInv, Handshake
  <2> QED
    BY <2>2, <2>3 DEF ExchangeReady
<1> QED
  BY <1>1, ConnInvariance, PTL

\* A cancellation is never lost, whenever it comes: if the context of the
\* connection is done, SQLite's flag is set or the goroutine will set it, while
\* the connection is idle, starts a statement or runs one.  It may be lost if
\* SetInterrupt was called while a row was open or another context in place.
THEOREM CancellationReaches ==
    Spec => [](tame => Reached)
<1>1. Init => Watched /\ (tame => Reached)
  BY CtxAssumption DEF Init, Watched, Reached, checkInterrupt
<1>2. ConnInv /\ Watched /\ (tame => Reached) /\ [Next]_vars => (Watched /\ (tame => Reached))'
  BY NextWatched, NextReached
<1> QED
  BY <1>1, <1>2, ConnInvariance, PTL DEF Spec

-------------------------------------------------------------------------------
(* The driver. *)
\* The calls that set a context of their own.
Contextual == fn \in {"ExecContext", "Next"}

\* What the call of the driver is, and where it and the connection are.
Phases ==
    /\ fn \in {"none", "ExecContext", "Next", "stmt.ExecContext", "BeginTx", "Commit", "Rollback"}
    /\ old = NoCtx
    /\ api = "direct" => step = "idle"
    /\ step = "idle" => fn = "none"
    /\ step = "setting" => Contextual /\ ~Running /\ pc # "close" /\ ~closing
    /\ step = "SQL" => Running
    /\ step = "returned" => pc = "idle"
    /\ step # "idle" => handle /\ fn # "none"
    /\ api = "driver" /\ step = "idle" =>
          /\ Entering \/ pc \in {"idle", "close"}
          /\ arg = NoCtx
          /\ pc \in {"idle", "close"} => interrupt = NoCtx
    /\ step # "idle" /\ ~Contextual => interrupt = NoCtx
    /\ step = "setting" /\ Entering => interrupt = NoCtx
    /\ Contextual => target \in Stmts \cup {EXEC}
    /\ fn = "stmt.ExecContext" => target \in Stmts /\ sql \in {"read", "write"}
    /\ fn = "BeginTx" => target \in {"ro", "rw"}
    /\ step = "SQL" => cur = IF Contextual \/ fn = "stmt.ExecContext" THEN target ELSE EXEC

\* A done context of the call in progress is not forgotten.
LateSeen ==
    late /\ Contextual =>
        /\ step = "setting" /\ Entering => arg \in done
        /\ step = "setting" /\ pc \in {"check", "idle"} => interrupt \in done /\ Active
        /\ step = "setting" /\ pc = "idle" => flag
        /\ step = "SQL" => pc = "start" /\ flag /\ Active

\* Nothing but the context of the call in progress has set the flag.
CallOwn == step # "idle" /\ ~stale /\ Flagged => interrupt \in done

\* SetInterrupt panics only if an earlier call has left the flag set.
PanicSpoilt == pc = "panic" => ~Unspoilt

\* Which SQL the calls run, and in which state of the driver.
CallSQL ==
    /\ Contextual => sql \in {"read", "write"}
    /\ fn = "BeginTx" => tx = "none"
    /\ fn = "BeginTx" => sql = IF target = "ro" THEN "BEGIN_query_only" ELSE txBegin
    /\ fn = "BeginTx" /\ step = "SQL" => sql # "none"
    /\ fn = "Commit" => tx = "rw" /\ sql \in {"COMMIT", "ROLLBACK"}
    /\ fn = "Rollback" => tx # "none" /\ sql = "ROLLBACK"

\* Commit has succeeded and has yet to return.
Committed == step = "returned" /\ sql = "COMMIT" /\ err = "nil"

\* The driver's transaction, SQLite's and what the caller was told.
TxInv ==
    /\ tx = "none" => acked = {}
    /\ step = "returned" /\ fn = "BeginTx" /\ err = "nil" =>
          /\ target = "ro" => queryOnly
          /\ target = "rw" /\ txBegin # "none" => ~autocommit
    /\ tx = "ro" => queryOnly /\ acked = {}
    /\ Committed => autocommit /\ acked \subseteq disk
    /\ step = "returned" /\ sql = "ROLLBACK" /\ ~stale => autocommit
    /\ ~autocommit => acked \subseteq db
    /\ tx = "rw" /\ txBegin # "none" /\ clean =>
          /\ ~Committed => acked \cap disk = {}
          /\ fn \notin {"Commit", "Rollback"} => ~autocommit

\* The inductive invariant: of the connection, of its use and of transactions.
DriverInv ==
    /\ ConnInv /\ DriverTypeOK /\ Phases /\ LateSeen /\ Honoured /\ CallOwn /\ PanicSpoilt
    /\ CallSQL /\ TxInv
-------------------------------------------------------------------------------
\* A step of the driver uses the connection by a step of its own, or not at all.
LEMMA DriverUsesConn ==
    DriverTypeOK /\ Phases /\ [DriverNext]_dvars => [Next]_vars
<1> SUFFICES ASSUME DriverTypeOK /\ Phases PROVE [DriverNext]_dvars => [Next]_vars
  OBVIOUS
<1> USE CtxAssumption, DriverAssumption DEF dvars, drv, vars, DriverTypeOK, Phases,
    Contextual
<1>1. ASSUME Direct PROVE [Next]_vars
  BY <1>1 DEF Direct, Next
<1>2. ASSUME RunSQL PROVE [Next]_vars
  BY <1>2 DEF RunSQL, Next
<1>3. ASSUME RunIt PROVE [Next]_vars
  BY <1>3 DEF RunIt, Next
<1>4. ASSUME Restore PROVE [Next]_vars
  BY <1>4 DEF Restore, Returns, Next
<1>5. ASSUME ExecLoop PROVE [Next]_vars
  BY <1>5 DEF ExecLoop, Returns, Next
<1>6. ASSUME Begun PROVE [Next]_vars
  BY <1>6 DEF Begun, Returns, Next
<1>7. ASSUME EndCommit PROVE [Next]_vars
  BY <1>7 DEF EndCommit, EndTx, Returns, Next
<1>8. ASSUME EndRollback PROVE [Next]_vars
  BY <1>8 DEF EndRollback, EndTx, Returns, Next
<1>9. ASSUME NEW x \in Ctxs \cup {NoCtx}, NEW q \in {"read", "write"}, ExecContext(x, q)
      PROVE [Next]_vars
  BY <1>9 DEF ExecContext, SetContext, Begins, Next
<1>10. ASSUME NEW x \in Ctxs \cup {NoCtx}, NEW s \in Prepared, QueryContext(s, x)
      PROVE [Next]_vars
  BY <1>10 DEF QueryContext, AtOnce, Next
<1>11. ASSUME NEW x \in Ctxs \cup {NoCtx}, NEW s \in Prepared, NEW q \in {"read", "write"},
                 stmtExecContext(s, x, q)
      PROVE [Next]_vars
  BY <1>11 DEF stmtExecContext, Begins, Next
<1>12. ASSUME NEW s \in Prepared, connPrepare(s)
      PROVE [Next]_vars
  BY <1>12 DEF connPrepare, AtOnce, Next
<1>13. ASSUME NEW s \in Prepared, stmtClose(s)
      PROVE [Next]_vars
  BY <1>13 DEF stmtClose, AtOnce, Next
<1>14. ASSUME NEW s \in Prepared, rowsNext(s)
      PROVE [Next]_vars
  BY <1>14 DEF rowsNext, SetContext, Begins, Next
<1>15. ASSUME NEW s \in Prepared, rowsClose(s)
      PROVE [Next]_vars
  BY <1>15 DEF rowsClose, AtOnce, Next
<1>16. ASSUME NEW readOnly \in BOOLEAN, BeginTx(readOnly)
      PROVE [Next]_vars
  BY <1>16 DEF BeginTx, ExecSQL, Begins, Next
<1>17. ASSUME Commit PROVE [Next]_vars
  BY <1>17 DEF Commit, ExecSQL, Begins, Next
<1>18. ASSUME Rollback PROVE [Next]_vars
  BY <1>18 DEF Rollback, ExecSQL, Begins, Next
<1>19. ASSUME connClose PROVE [Next]_vars
  BY <1>19 DEF connClose, Returns, Next
<1>20. ASSUME UNCHANGED dvars PROVE [Next]_vars
  BY <1>20
<1> HIDE CtxAssumption, DriverAssumption DEF dvars, drv, vars, DriverTypeOK, Phases,
    Contextual
<1> QED
  BY Zenon, <1>1, <1>2, <1>3, <1>4, <1>5, <1>6, <1>7, <1>8, <1>9, <1>10, <1>11, <1>12, <1>13,
      <1>14, <1>15, <1>16, <1>17, <1>18, <1>19, <1>20 DEF DriverNext, Next, Waiter,
      InSetInterrupt

\* The calls of the driver keep to their order.
LEMMA NextPhases ==
    ConnInv /\ DriverTypeOK /\ Phases /\ [DriverNext]_dvars => Phases'
<1> SUFFICES ASSUME ConnInv /\ DriverTypeOK /\ Phases PROVE [DriverNext]_dvars => Phases'
  OBVIOUS
<1> USE CtxAssumption, DriverAssumption DEF dvars, drv, sqlite, history, vars, conn, call,
    ConnInv, TypeOK, OneWaiter, Handshake, DriverTypeOK, Phases, Contextual, Running,
    Entering, EXEC
<1>1. ASSUME Direct PROVE Phases'
  BY <1>1 DEF Direct
<1>2. ASSUME api = "driver", UNCHANGED drv, NEW x \in Ctxs, Cancel(x)
      PROVE Phases'
  BY <1>2 DEF Cancel
<1>3. ASSUME api = "driver", UNCHANGED drv, NEW x \in Ctxs, Wake(x)
      PROVE Phases'
  BY <1>3 DEF Wake
<1>4. ASSUME api = "driver", UNCHANGED drv, NEW x \in Ctxs, sendInterrupt(x)
      PROVE Phases'
  BY <1>4 DEF sendInterrupt
<1>5. ASSUME api = "driver", UNCHANGED drv, NEW x \in Ctxs, CancelWaiter(x)
      PROVE Phases'
  BY <1>5 DEF CancelWaiter
<1>6. ASSUME api = "driver", UNCHANGED drv, NEW x \in Ctxs, AwaitWaiter(x)
      PROVE Phases'
  BY <1>6 DEF AwaitWaiter
<1>7. ASSUME api = "driver", UNCHANGED drv, InstallNone
      PROVE Phases'
  BY <1>7 DEF InstallNone, Return
<1>8. ASSUME api = "driver", UNCHANGED drv, InstallNew
      PROVE Phases'
  BY <1>8 DEF InstallNew
<1>9. ASSUME api = "driver", UNCHANGED drv, InstallOver
      PROVE Phases'
  BY <1>9 DEF InstallOver
<1>10. ASSUME api = "driver", UNCHANGED drv, Spawn
      PROVE Phases'
  BY <1>10 DEF Spawn, Return, checkInterrupt
<1>11. ASSUME api = "driver", UNCHANGED drv, CloseHandle
      PROVE Phases'
  BY ZenonT(30), <1>11 DEF CloseHandle, Return
<1>12. ASSUME RunSQL PROVE Phases'
  <2>1. CASE Start
    BY <1>12, <2>1 DEF RunSQL, Start, Return
  <2>2. CASE Finish
    BY <1>12, <2>2 DEF RunSQL, Finish, Return
  <2>3. CASE Interrupted
    BY <1>12, <2>3 DEF RunSQL, Interrupted, Return
  <2> QED
    BY <1>12, <2>1, <2>2, <2>3 DEF RunSQL
<1>13. ASSUME RunIt PROVE Phases'
  BY <1>13 DEF RunIt, Use, Ready, checkInterrupt
<1>14. ASSUME Restore PROVE Phases'
  BY <1>14 DEF Restore, SetInterrupt, Enter, Returns, Ready, Return
<1>15. ASSUME ExecLoop PROVE Phases'
  BY Zenon, <1>15 DEF ExecLoop, Use, Reset, checkInterrupt, Returns, Ready, Return
<1>16. ASSUME Begun PROVE Phases'
  BY <1>16 DEF Begun, Returns
<1>17. ASSUME EndCommit PROVE Phases'
  BY Zenon, <1>17 DEF EndCommit, EndTx, Use, Ready, checkInterrupt, Returns
<1>18. ASSUME EndRollback PROVE Phases'
  BY <1>18 DEF EndRollback, EndTx, Returns
<1>19. ASSUME NEW x \in Ctxs \cup {NoCtx}, NEW q \in {"read", "write"}, ExecContext(x, q)
      PROVE Phases'
  BY <1>19 DEF ExecContext, SetContext, SetInterrupt, Enter, Begins, Free, Ready
<1>20. ASSUME NEW x \in Ctxs \cup {NoCtx}, NEW s \in Prepared, QueryContext(s, x)
      PROVE Phases'
  BY <1>20 DEF QueryContext, AtOnce, Free, Ready
<1>21. ASSUME NEW x \in Ctxs \cup {NoCtx}, NEW s \in Prepared, NEW q \in {"read", "write"},
                 stmtExecContext(s, x, q)
      PROVE Phases'
  BY <1>21 DEF stmtExecContext, Use, checkInterrupt, Begins, Free, Ready
<1>22. ASSUME NEW s \in Prepared, connPrepare(s)
      PROVE Phases'
  BY <1>22 DEF connPrepare, Prepare, AtOnce, Free, Ready, Return
<1>23. ASSUME NEW s \in Prepared, stmtClose(s)
      PROVE Phases'
  BY <1>23 DEF stmtClose, CloseStmt, AtOnce, Free, Ready, Return
<1>24. ASSUME NEW s \in Prepared, rowsNext(s)
      PROVE Phases'
  BY <1>24 DEF rowsNext, SetContext, SetInterrupt, Enter, Begins, Free, Ready
<1>25. ASSUME NEW s \in Prepared, rowsClose(s)
      PROVE Phases'
  BY <1>25 DEF rowsClose, Reset, AtOnce, Free, Ready, Return
<1>26. ASSUME NEW readOnly \in BOOLEAN, BeginTx(readOnly)
      PROVE Phases'
  BY <1>26 DEF BeginTx, ExecSQL, Use, checkInterrupt, Begins, Free, Ready
<1>27. ASSUME Commit PROVE Phases'
  BY <1>27 DEF Commit, ExecSQL, Use, checkInterrupt, Begins, Free, Ready
<1>28. ASSUME Rollback PROVE Phases'
  BY <1>28 DEF Rollback, ExecSQL, Use, checkInterrupt, Begins, Free, Ready
<1>29. ASSUME connClose PROVE Phases'
  BY <1>29 DEF connClose, Close, Enter, Free, Ready, Returns
<1>30. ASSUME UNCHANGED dvars PROVE Phases'
  BY <1>30
<1> HIDE CtxAssumption, DriverAssumption DEF dvars, drv, sqlite, history, vars, conn, call,
    ConnInv, TypeOK, OneWaiter, Handshake, DriverTypeOK, Phases, Contextual, Running,
    Entering, EXEC
<1> QED
  BY <1>1, <1>2, <1>3, <1>4, <1>5, <1>6, <1>7, <1>8, <1>9, <1>10, <1>11, <1>12, <1>13,
      <1>14, <1>15, <1>16, <1>17, <1>18, <1>19, <1>20, <1>21, <1>22, <1>23, <1>24, <1>25,
      <1>26, <1>27, <1>28, <1>29, <1>30 DEF DriverNext, InSetInterrupt, Waiter

\* A context that was done when the call began stays noticed.
LEMMA NextLateSeen ==
    DriverInv /\ [DriverNext]_dvars => LateSeen'
<1> SUFFICES ASSUME DriverInv PROVE [DriverNext]_dvars => LateSeen'
  OBVIOUS
<1> USE CtxAssumption, DriverAssumption DEF dvars, drv, sqlite, history, vars, conn, call,
    DriverInv, ConnInv, TypeOK, OneWaiter, Handshake, FlagKept, DriverTypeOK, Phases,
    LateSeen, Active, Contextual, Running, Entering, EXEC
<1>1. ASSUME Direct PROVE LateSeen'
  BY <1>1 DEF Direct
<1>2. ASSUME api = "driver", UNCHANGED drv, NEW x \in Ctxs, Cancel(x)
      PROVE LateSeen'
  BY <1>2 DEF Cancel
<1>3. ASSUME api = "driver", UNCHANGED drv, NEW x \in Ctxs, Wake(x)
      PROVE LateSeen'
  BY <1>3 DEF Wake
<1>4. ASSUME api = "driver", UNCHANGED drv, NEW x \in Ctxs, sendInterrupt(x)
      PROVE LateSeen'
  BY <1>4 DEF sendInterrupt
<1>5. ASSUME api = "driver", UNCHANGED drv, NEW x \in Ctxs, CancelWaiter(x)
      PROVE LateSeen'
  BY <1>5 DEF CancelWaiter
<1>6. ASSUME api = "driver", UNCHANGED drv, NEW x \in Ctxs, AwaitWaiter(x)
      PROVE LateSeen'
  BY <1>6 DEF AwaitWaiter
<1>7. ASSUME api = "driver", UNCHANGED drv, InstallNone
      PROVE LateSeen'
  BY <1>7 DEF InstallNone, Return
<1>8. ASSUME api = "driver", UNCHANGED drv, InstallNew
      PROVE LateSeen'
  BY <1>8 DEF InstallNew
<1>9. ASSUME api = "driver", UNCHANGED drv, InstallOver
      PROVE LateSeen'
  BY <1>9 DEF InstallOver
<1>10. ASSUME api = "driver", UNCHANGED drv, Spawn
      PROVE LateSeen'
  BY <1>10 DEF Spawn, Return, checkInterrupt
<1>11. ASSUME api = "driver", UNCHANGED drv, CloseHandle
      PROVE LateSeen'
  BY <1>11 DEF CloseHandle, Return
<1>12. ASSUME RunSQL PROVE LateSeen'
  BY ZenonT(30), <1>12 DEF RunSQL, Start, Finish, Interrupted, Return, Halt
<1>13. ASSUME RunIt PROVE LateSeen'
  BY <1>13 DEF RunIt, Use, Ready, checkInterrupt
<1>14. ASSUME Restore PROVE LateSeen'
  BY <1>14 DEF Restore, SetInterrupt, Enter, Returns, Ready, Return
<1>15. ASSUME ExecLoop PROVE LateSeen'
  BY ZenonT(30), <1>15 DEF ExecLoop, Use, Reset, checkInterrupt, Returns, Ready, Return
<1>16. ASSUME Begun PROVE LateSeen'
  BY <1>16 DEF Begun, Returns
<1>17. ASSUME EndCommit PROVE LateSeen'
  BY Zenon, <1>17 DEF EndCommit, EndTx, Use, Ready, checkInterrupt, Returns
<1>18. ASSUME EndRollback PROVE LateSeen'
  BY <1>18 DEF EndRollback, EndTx, Returns
<1>19. ASSUME NEW x \in Ctxs \cup {NoCtx}, NEW q \in {"read", "write"}, ExecContext(x, q)
      PROVE LateSeen'
  BY ZenonT(30), <1>19 DEF ExecContext, SetContext, SetInterrupt, Enter, Begins, Free, Ready
<1>20. ASSUME NEW x \in Ctxs \cup {NoCtx}, NEW s \in Prepared, NEW q \in {"read", "write"},
                 stmtExecContext(s, x, q)
      PROVE LateSeen'
  BY <1>20 DEF stmtExecContext, Use, checkInterrupt, Begins, Free, Ready
<1>21. ASSUME NEW s \in Prepared, rowsNext(s)
      PROVE LateSeen'
  BY <1>21 DEF rowsNext, SetContext, SetInterrupt, Enter, Begins, Free, Ready
<1>22. ASSUME NEW readOnly \in BOOLEAN, BeginTx(readOnly)
      PROVE LateSeen'
  BY Zenon, <1>22 DEF BeginTx, ExecSQL, Use, checkInterrupt, Begins, Free, Ready
<1>23. ASSUME Commit PROVE LateSeen'
  BY ZenonT(30), <1>23 DEF Commit, ExecSQL, Use, checkInterrupt, Begins, Free, Ready
<1>24. ASSUME Rollback PROVE LateSeen'
  BY Zenon, <1>24 DEF Rollback, ExecSQL, Use, checkInterrupt, Begins, Free, Ready
<1>25. ASSUME connClose PROVE LateSeen'
  BY Zenon, <1>25 DEF connClose, Close, Enter, Free, Ready, Returns
<1>26. ASSUME UNCHANGED dvars PROVE LateSeen'
  BY <1>26
<1>27. ASSUME AtOnce PROVE LateSeen'
  BY <1>27 DEF AtOnce, Free, Ready
<1> HIDE CtxAssumption, DriverAssumption DEF dvars, drv, sqlite, history, vars, conn, call,
    DriverInv, ConnInv, TypeOK, OneWaiter, Handshake, FlagKept, DriverTypeOK, Phases,
    LateSeen, Active, Contextual, Running, Entering, EXEC
<1> QED
  BY <1>1, <1>2, <1>3, <1>4, <1>5, <1>6, <1>7, <1>8, <1>9, <1>10, <1>11, <1>12, <1>13,
      <1>14, <1>15, <1>16, <1>17, <1>18, <1>19, <1>20, <1>21, <1>22, <1>23, <1>24, <1>25,
      <1>26, <1>27 DEF DriverNext, InSetInterrupt, Waiter, QueryContext, connPrepare,
      stmtClose, rowsClose

\* The flag is set on behalf of the call in progress.
LEMMA NextCallOwn ==
    DriverInv /\ [DriverNext]_dvars => CallOwn'
<1> SUFFICES ASSUME DriverInv PROVE [DriverNext]_dvars => CallOwn'
  OBVIOUS
<1> USE CtxAssumption, DriverAssumption DEF dvars, drv, sqlite, history, vars, conn, call,
    DriverInv, ConnInv, TypeOK, OneWaiter, Handshake, FlagKept, DriverTypeOK, Phases,
    CallOwn, Flagged, Active, Contextual, Running, Entering, EXEC
<1>1. ASSUME Direct PROVE CallOwn'
  BY <1>1 DEF Direct
<1>2. ASSUME api = "driver", UNCHANGED drv, NEW x \in Ctxs, Cancel(x)
      PROVE CallOwn'
  BY <1>2 DEF Cancel
<1>3. ASSUME api = "driver", UNCHANGED drv, NEW x \in Ctxs, Wake(x)
      PROVE CallOwn'
  BY <1>3 DEF Wake
<1>4. ASSUME api = "driver", UNCHANGED drv, NEW x \in Ctxs, sendInterrupt(x)
      PROVE CallOwn'
  BY <1>4 DEF sendInterrupt
<1>5. ASSUME api = "driver", UNCHANGED drv, NEW x \in Ctxs, CancelWaiter(x)
      PROVE CallOwn'
  BY <1>5 DEF CancelWaiter
<1>6. ASSUME api = "driver", UNCHANGED drv, NEW x \in Ctxs, AwaitWaiter(x)
      PROVE CallOwn'
  BY <1>6 DEF AwaitWaiter
<1>7. ASSUME api = "driver", UNCHANGED drv, InstallNone
      PROVE CallOwn'
  BY <1>7 DEF InstallNone, Return
<1>8. ASSUME api = "driver", UNCHANGED drv, InstallNew
      PROVE CallOwn'
  BY ZenonT(30), <1>8 DEF InstallNew
<1>9. ASSUME api = "driver", UNCHANGED drv, InstallOver
      PROVE CallOwn'
  BY <1>9 DEF InstallOver
<1>10. ASSUME api = "driver", UNCHANGED drv, Spawn
      PROVE CallOwn'
  BY ZenonT(30), <1>10 DEF Spawn, Return, checkInterrupt
<1>11. ASSUME api = "driver", UNCHANGED drv, CloseHandle
      PROVE CallOwn'
  BY <1>11 DEF CloseHandle, Return
<1>12. ASSUME RunSQL PROVE CallOwn'
  BY ZenonT(30), <1>12 DEF RunSQL, Start, Finish, Interrupted, Return, Halt
<1>13. ASSUME RunIt PROVE CallOwn'
  BY <1>13 DEF RunIt, Use, Ready, checkInterrupt
<1>14. ASSUME Restore PROVE CallOwn'
  BY <1>14 DEF Restore, SetInterrupt, Enter, Returns, Ready, Return
<1>15. ASSUME ExecLoop PROVE CallOwn'
  BY ZenonT(30), <1>15 DEF ExecLoop, Use, Reset, checkInterrupt, Returns, Ready, Return
<1>16. ASSUME Begun PROVE CallOwn'
  BY <1>16 DEF Begun, Returns
<1>17. ASSUME EndCommit PROVE CallOwn'
  BY ZenonT(30), <1>17 DEF EndCommit, EndTx, Use, Ready, checkInterrupt, Returns
<1>18. ASSUME EndRollback PROVE CallOwn'
  BY <1>18 DEF EndRollback, EndTx, Returns
<1>19. ASSUME NEW x \in Ctxs \cup {NoCtx}, NEW q \in {"read", "write"}, ExecContext(x, q)
      PROVE CallOwn'
  BY ZenonT(30), <1>19 DEF ExecContext, SetContext, SetInterrupt, Enter, Begins, Free, Ready
<1>20. ASSUME NEW x \in Ctxs \cup {NoCtx}, NEW s \in Prepared, NEW q \in {"read", "write"},
                 stmtExecContext(s, x, q)
      PROVE CallOwn'
  BY <1>20 DEF stmtExecContext, Use, checkInterrupt, Begins, Free, Ready
<1>21. ASSUME NEW s \in Prepared, rowsNext(s)
      PROVE CallOwn'
  BY Zenon, <1>21 DEF rowsNext, SetContext, SetInterrupt, Enter, Begins, Free, Ready
<1>22. ASSUME NEW readOnly \in BOOLEAN, BeginTx(readOnly)
      PROVE CallOwn'
  BY ZenonT(30), <1>22 DEF BeginTx, ExecSQL, Use, checkInterrupt, Begins, Free, Ready
<1>23. ASSUME Commit PROVE CallOwn'
  BY ZenonT(30), <1>23 DEF Commit, ExecSQL, Use, checkInterrupt, Begins, Free, Ready
<1>24. ASSUME Rollback PROVE CallOwn'
  BY <1>24 DEF Rollback, ExecSQL, Use, checkInterrupt, Begins, Free, Ready
<1>25. ASSUME connClose PROVE CallOwn'
  BY ZenonT(30), <1>25 DEF connClose, Close, Enter, Free, Ready, Returns
<1>26. ASSUME UNCHANGED dvars PROVE CallOwn'
  BY <1>26
<1>27. ASSUME AtOnce PROVE CallOwn'
  BY <1>27 DEF AtOnce, Free, Ready
<1> HIDE CtxAssumption, DriverAssumption DEF dvars, drv, sqlite, history, vars, conn, call,
    DriverInv, ConnInv, TypeOK, OneWaiter, Handshake, FlagKept, DriverTypeOK, Phases,
    CallOwn, Flagged, Active, Contextual, Running, Entering, EXEC
<1> QED
  BY <1>1, <1>2, <1>3, <1>4, <1>5, <1>6, <1>7, <1>8, <1>9, <1>10, <1>11, <1>12, <1>13,
      <1>14, <1>15, <1>16, <1>17, <1>18, <1>19, <1>20, <1>21, <1>22, <1>23, <1>24, <1>25,
      <1>26, <1>27 DEF DriverNext, InSetInterrupt, Waiter, QueryContext, connPrepare,
      stmtClose, rowsClose

\* A call whose context was done when it began fails with INTERRUPT.
LEMMA NextHonoured ==
    DriverInv /\ [DriverNext]_dvars => Honoured'
<1> SUFFICES ASSUME DriverInv PROVE [DriverNext]_dvars => Honoured'
  OBVIOUS
<1> USE CtxAssumption, DriverAssumption DEF dvars, drv, sqlite, history, DriverInv, ConnInv,
    TypeOK, Phases, LateSeen, Honoured, Contextual, Running
<1>1. ASSUME UNCHANGED drv PROVE Honoured'
  BY <1>1
<1>2. ASSUME RunSQL PROVE Honoured'
  <2>1. CASE Start
    BY <1>2, <2>1 DEF RunSQL, Start, Return, Cut, Refuse
  <2>2. CASE Finish
    BY Zenon, <1>2, <2>2 DEF RunSQL, Finish
  <2>3. CASE Interrupted
    BY ZenonT(30), <1>2, <2>3 DEF RunSQL, Interrupted
  <2> QED
    BY <1>2, <2>1, <2>2, <2>3 DEF RunSQL
<1>3. ASSUME RunIt PROVE Honoured'
  BY Zenon, <1>3 DEF RunIt
<1>4. ASSUME Restore PROVE Honoured'
  BY ZenonT(30), <1>4 DEF Restore, Returns
<1>5. ASSUME ExecLoop PROVE Honoured'
  BY <1>5 DEF ExecLoop, Returns
<1>6. ASSUME Begun PROVE Honoured'
  BY ZenonT(30), <1>6 DEF Begun, Returns
<1>7. ASSUME EndCommit PROVE Honoured'
  BY ZenonT(30), <1>7 DEF EndCommit, EndTx, Returns
<1>8. ASSUME EndRollback PROVE Honoured'
  BY ZenonT(30), <1>8 DEF EndRollback, EndTx, Returns
<1>9. ASSUME NEW x \in Ctxs \cup {NoCtx}, NEW q \in {"read", "write"}, ExecContext(x, q)
      PROVE Honoured'
  BY <1>9 DEF ExecContext, SetContext, Begins, Free
<1>10. ASSUME NEW x \in Ctxs \cup {NoCtx}, NEW s \in Prepared, NEW q \in {"read", "write"},
                 stmtExecContext(s, x, q)
      PROVE Honoured'
  BY <1>10 DEF stmtExecContext, Begins, Free
<1>11. ASSUME NEW s \in Prepared, rowsNext(s)
      PROVE Honoured'
  BY <1>11 DEF rowsNext, SetContext, Begins, Free
<1>12. ASSUME NEW readOnly \in BOOLEAN, BeginTx(readOnly)
      PROVE Honoured'
  BY <1>12 DEF BeginTx, ExecSQL, Begins, Free
<1>13. ASSUME Commit PROVE Honoured'
  BY Zenon, <1>13 DEF Commit, ExecSQL, Begins, Free
<1>14. ASSUME Rollback PROVE Honoured'
  BY ZenonT(30), <1>14 DEF Rollback, ExecSQL, Begins, Free
<1>15. ASSUME connClose PROVE Honoured'
  BY Zenon, <1>15 DEF connClose, Free, Returns
<1>16. ASSUME AtOnce PROVE Honoured'
  BY <1>16 DEF AtOnce, Free
<1> HIDE CtxAssumption, DriverAssumption DEF dvars, drv, sqlite, history, DriverInv,
    ConnInv, TypeOK, Phases, LateSeen, Honoured, Contextual, Running
<1> QED
  BY <1>1, <1>2, <1>3, <1>4, <1>5, <1>6, <1>7, <1>8, <1>9, <1>10, <1>11, <1>12, <1>13,
      <1>14, <1>15, <1>16 DEF DriverNext, Direct, dvars, QueryContext, connPrepare,
      stmtClose, rowsClose

-------------------------------------------------------------------------------
(* SQL. *)
\* What a statement that ends the call into SQLite has done.
Outcome ==
    /\ pc' = "idle" /\ step' = "returned"
    /\ Acknowledge
    /\ \/ result' = "INTERRUPT" /\ Cut
       \/ cur \in Stmts /\ Refuse("nil")
       \/ sql = "read" /\ Refuse("nil")
       \/ sql = "write" /\ Write
       \/ sql = "COMMIT" /\ COMMIT
       \/ sql = "ROLLBACK" /\ ROLLBACK
       \/ sql \notin {"read", "write", "COMMIT", "ROLLBACK"} /\ BEGIN

\* A step of a statement ends the call, or leaves SQLite's data as it was.
LEMMA RunOutcome ==
    RunSQL => Outcome \/ UNCHANGED <<step, err, sqlite, acked, clean>>
<1> SUFFICES ASSUME RunSQL, pc' = "idle" PROVE Outcome
  BY DEF RunSQL
<1>1. CASE Complete
  BY <1>1 DEF Complete, RunSQL, Outcome
<1> QED
  BY <1>1 DEF RunSQL, Outcome

\* Without an earlier call's flag, a statement is interrupted for its own
\* context only.
LEMMA InterruptedOwn ==
    DriverInv /\ RunSQL /\ pc' = "idle" /\ result' = "INTERRUPT" /\ ~stale
        => checkInterrupt /\ Contextual
<1> SUFFICES ASSUME DriverInv, RunSQL, pc' = "idle", result' = "INTERRUPT", ~stale
             PROVE  checkInterrupt /\ Contextual
  OBVIOUS
<1>1. Flagged
  <2>1. CASE Start
    BY Zenon, <2>1 DEF Start, Return, Flagged
  <2>2. CASE Finish
    BY <2>2 DEF Finish, Return
  <2>3. CASE Interrupted
    BY <2>3 DEF Interrupted, Flagged
  <2> QED
    BY <2>1, <2>2, <2>3 DEF RunSQL
<1>2. interrupt \in done
  BY <1>1 DEF DriverInv, CallOwn, RunSQL
<1> QED
  BY <1>2, CtxAssumption DEF DriverInv, ConnInv, TypeOK, Phases, RunSQL, checkInterrupt

\* The types of SQLite's data and of what the caller has learned.
DataOK ==
    /\ {autocommit, queryOnly, clean} \subseteq BOOLEAN
    /\ writes \in 0 .. MaxWrites
    /\ disk \subseteq db /\ db \subseteq 1 .. writes /\ acked \subseteq 1 .. writes
    /\ err \in {"nil", "ERROR", "BUSY", "READONLY", "INTERRUPT"}

\* A write is new, and is counted.
LEMMA OneMore ==
    ASSUME NEW n \in Nat
    PROVE  \A S : S \subseteq 1 .. n =>
               n + 1 \notin S /\ S \subseteq 1 .. (n + 1) /\ S \cup {n + 1} \subseteq 1 ..
                   (n + 1)
  OBVIOUS

\* SQL keeps the types.
LEMMA OutcomeTypes ==
    DataOK /\ Outcome => DataOK'
<1> SUFFICES ASSUME DataOK, Outcome PROVE DataOK'
  OBVIOUS
<1> USE DriverAssumption DEF DataOK, Acknowledge, Refuse, RollbackAll, sqlite
<1>1. CASE Cut
  BY Zenon, <1>1 DEF Cut, Outcome
<1>2. CASE Refuse("nil")
  BY Zenon, <1>2 DEF Outcome
<1>3. CASE Write
  <2>1. CASE UNCHANGED sqlite
    BY Zenon, <1>3, <2>1 DEF Write, Outcome
  <2>2. CASE /\ writes < MaxWrites /\ writes' = writes + 1
             /\ db' = db \cup {writes'} /\ disk' \in {db', disk}
             /\ err' = "nil"
             /\ UNCHANGED <<autocommit, queryOnly>>
    <3>1. writes' \in 0 .. MaxWrites
      BY <2>2
    <3>2. disk' \subseteq db' /\ db' \subseteq 1 .. writes' /\ acked \subseteq 1 .. writes'
      BY <2>2, OneMore, disk \subseteq db, db \subseteq 1 .. writes, acked \subseteq 1 ..
          writes
    <3>3. acked' \subseteq 1 .. writes'
      BY Zenon, <3>2 DEF Outcome
    <3>4. {autocommit', queryOnly', clean'} \subseteq BOOLEAN
      BY <2>2 DEF Outcome
    <3> QED
      BY <2>2, <3>1, <3>2, <3>3, <3>4
  <2> QED
    BY <1>3, <2>1, <2>2 DEF Write
<1>4. CASE COMMIT
  BY Zenon, <1>4 DEF COMMIT, Outcome
<1>5. CASE ROLLBACK
  BY Zenon, <1>5 DEF ROLLBACK, Outcome
<1>6. CASE BEGIN
  BY Zenon, <1>6 DEF BEGIN, Outcome
<1> QED
  BY <1>1, <1>2, <1>3, <1>4, <1>5, <1>6 DEF Outcome

\* What a call of the driver records when it begins.
LEMMA BeginsFacts ==
    ASSUME NEW f, NEW q, NEW u, NEW x, Begins(f, q, u, x)
    PROVE  /\ late' \in BOOLEAN /\ stale' \in BOOLEAN
           /\ target' = u
           /\ UNCHANGED <<api, txBegin, tx, sqlite, acked, clean>>
<1>1. late' \in BOOLEAN
  BY SMT DEF Begins
<1>2. stale' \in BOOLEAN
  BY Zenon DEF Begins
<1> QED
  BY <1>1, <1>2 DEF Begins

\* The steps of the driver keep the types.
LEMMA NextDriverTypeOK ==
    TypeOK' /\ ConnInv /\ DriverTypeOK /\ Phases /\ [DriverNext]_dvars => DriverTypeOK'
<1> SUFFICES ASSUME TypeOK' /\ ConnInv /\ DriverTypeOK /\ Phases PROVE [DriverNext]_dvars =>
    DriverTypeOK'
  OBVIOUS
<1>0. done \subseteq Ctxs /\ interrupt \in Ctxs \cup {NoCtx} /\ flag \in BOOLEAN
  BY DEF ConnInv, TypeOK
<1> USE CtxAssumption, DriverAssumption DEF dvars, drv, sqlite, history, DriverTypeOK,
    Phases, Contextual
<1>1. ASSUME UNCHANGED drv PROVE DriverTypeOK'
  BY <1>1, <1>0, BeginsFacts
<1>2. ASSUME RunSQL PROVE DriverTypeOK'
  BY ZenonT(30), <1>2, <1>0, BeginsFacts, RunOutcome, OutcomeTypes DEF RunSQL, DataOK
<1>3. ASSUME RunIt PROVE DriverTypeOK'
  BY Zenon, <1>3, <1>0, BeginsFacts DEF RunIt
<1>4. ASSUME Restore PROVE DriverTypeOK'
  BY Zenon, <1>4, <1>0, BeginsFacts DEF Restore, Returns
<1>5. ASSUME ExecLoop PROVE DriverTypeOK'
  BY Zenon, <1>5, <1>0, BeginsFacts DEF ExecLoop, Returns
<1>6. ASSUME Begun PROVE DriverTypeOK'
  BY Zenon, <1>6, <1>0, BeginsFacts DEF Begun, Returns
<1>7. ASSUME EndCommit PROVE DriverTypeOK'
  BY Zenon, <1>7, <1>0, BeginsFacts DEF EndCommit, EndTx, Returns
<1>8. ASSUME EndRollback PROVE DriverTypeOK'
  BY Zenon, <1>8, <1>0, BeginsFacts DEF EndRollback, EndTx, Returns
<1>9. ASSUME NEW x \in Ctxs \cup {NoCtx}, NEW q \in {"read", "write"}, ExecContext(x, q)
      PROVE DriverTypeOK'
  BY ZenonT(30), <1>9, <1>0, BeginsFacts DEF ExecContext, SetContext
<1>10. ASSUME NEW x \in Ctxs \cup {NoCtx}, NEW s \in Prepared, QueryContext(s, x)
      PROVE DriverTypeOK'
  BY <1>10, <1>0, BeginsFacts DEF QueryContext, AtOnce
<1>11. ASSUME NEW x \in Ctxs \cup {NoCtx}, NEW s \in Prepared, NEW q \in {"read", "write"},
                 stmtExecContext(s, x, q)
      PROVE DriverTypeOK'
  BY ZenonT(30), <1>11, <1>0, BeginsFacts DEF stmtExecContext
<1>12. ASSUME NEW s \in Prepared, connPrepare(s)
      PROVE DriverTypeOK'
  BY <1>12, <1>0, BeginsFacts DEF connPrepare, AtOnce
<1>13. ASSUME NEW s \in Prepared, stmtClose(s)
      PROVE DriverTypeOK'
  BY <1>13, <1>0, BeginsFacts DEF stmtClose, AtOnce
<1>14. ASSUME NEW s \in Prepared, rowsNext(s)
      PROVE DriverTypeOK'
  BY ZenonT(30), <1>14, <1>0, BeginsFacts DEF rowsNext, SetContext
<1>15. ASSUME NEW s \in Prepared, rowsClose(s)
      PROVE DriverTypeOK'
  BY <1>15, <1>0, BeginsFacts DEF rowsClose, AtOnce
<1>16. ASSUME NEW readOnly \in BOOLEAN, BeginTx(readOnly)
      PROVE DriverTypeOK'
  BY Zenon, <1>16, <1>0, BeginsFacts DEF BeginTx, ExecSQL
<1>17. ASSUME Commit PROVE DriverTypeOK'
  BY Zenon, <1>17, <1>0, BeginsFacts DEF Commit, ExecSQL
<1>18. ASSUME Rollback PROVE DriverTypeOK'
  BY Zenon, <1>18, <1>0, BeginsFacts DEF Rollback, ExecSQL
<1>19. ASSUME connClose PROVE DriverTypeOK'
  BY Zenon, <1>19, <1>0, BeginsFacts DEF connClose, Returns
<1> HIDE CtxAssumption, DriverAssumption DEF dvars, drv, sqlite, history, DriverTypeOK,
    Phases, Contextual
<1> QED
  BY <1>1, <1>2, <1>3, <1>4, <1>5, <1>6, <1>7, <1>8, <1>9, <1>10, <1>11, <1>12, <1>13,
      <1>14, <1>15, <1>16, <1>17, <1>18, <1>19 DEF DriverNext, Direct, dvars

\* The steps of the driver keep to the SQL of the calls.
LEMMA NextCallSQL ==
    DriverTypeOK /\ Phases /\ CallSQL /\ [DriverNext]_dvars => CallSQL'
<1> SUFFICES ASSUME DriverTypeOK /\ Phases /\ CallSQL PROVE [DriverNext]_dvars => CallSQL'
  OBVIOUS
<1> USE CtxAssumption, DriverAssumption DEF dvars, drv, sqlite, history, DriverTypeOK,
    Phases, Contextual, CallSQL
<1>1. ASSUME UNCHANGED drv PROVE CallSQL'
  BY Zenon, <1>1
<1>2. ASSUME RunSQL PROVE CallSQL'
  BY ZenonT(30), <1>2 DEF RunSQL
<1>3. ASSUME RunIt PROVE CallSQL'
  BY Zenon, <1>3 DEF RunIt
<1>4. ASSUME Restore PROVE CallSQL'
  BY ZenonT(30), <1>4 DEF Restore, Returns
<1>5. ASSUME ExecLoop PROVE CallSQL'
  BY <1>5 DEF ExecLoop, Returns
<1>6. ASSUME Begun PROVE CallSQL'
  BY <1>6 DEF Begun, Returns
<1>7. ASSUME EndCommit PROVE CallSQL'
  BY <1>7 DEF EndCommit, EndTx, Returns
<1>8. ASSUME EndRollback PROVE CallSQL'
  BY <1>8 DEF EndRollback, EndTx, Returns
<1>9. ASSUME NEW x \in Ctxs \cup {NoCtx}, NEW q \in {"read", "write"}, ExecContext(x, q)
      PROVE CallSQL'
  BY <1>9 DEF ExecContext, SetContext, Begins, Free
<1>10. ASSUME NEW x \in Ctxs \cup {NoCtx}, NEW s \in Prepared, NEW q \in {"read", "write"},
                 stmtExecContext(s, x, q)
      PROVE CallSQL'
  BY <1>10 DEF stmtExecContext, Begins, Free
<1>11. ASSUME NEW s \in Prepared, rowsNext(s)
      PROVE CallSQL'
  BY <1>11 DEF rowsNext, SetContext, Begins, Free
<1>12. ASSUME NEW readOnly \in BOOLEAN, BeginTx(readOnly)
      PROVE CallSQL'
  BY <1>12 DEF BeginTx, ExecSQL, Begins, Free
<1>13. ASSUME Commit PROVE CallSQL'
  BY <1>13 DEF Commit, ExecSQL, Begins, Free
<1>14. ASSUME Rollback PROVE CallSQL'
  BY <1>14 DEF Rollback, ExecSQL, Begins, Free
<1>15. ASSUME connClose PROVE CallSQL'
  BY <1>15 DEF connClose, Free, Returns
<1>16. ASSUME AtOnce PROVE CallSQL'
  BY <1>16 DEF AtOnce, Free
<1> HIDE CtxAssumption, DriverAssumption DEF dvars, drv, sqlite, history, DriverTypeOK,
    Phases, Contextual, CallSQL
<1> QED
  BY <1>1, <1>2, <1>3, <1>4, <1>5, <1>6, <1>7, <1>8, <1>9, <1>10, <1>11, <1>12, <1>13,
      <1>14, <1>15, <1>16 DEF DriverNext, Direct, dvars, QueryContext, connPrepare,
      stmtClose, rowsClose

\* So does a statement that ends a call.
LEMMA OutcomeTxInv ==
    ASSUME DriverTypeOK, Phases, CallSQL, TxInv, step = "SQL", Outcome,
           UNCHANGED <<tx, txBegin, fn, target, sql, stale>>,
           result' = "INTERRUPT" /\ ~stale => Contextual
    PROVE  TxInv'
<1>1. ASSUME db' \subseteq db PROVE acked' = acked
  BY <1>1 DEF Outcome, Acknowledge, TxInv
<1>2. ~Committed /\ step' = "returned"
  BY DEF Committed, Outcome
<1>3. clean' => clean /\ (tx = "none" \/ fn \in {"Commit", "Rollback"} \/ err' = "nil")
  BY Zenon DEF Outcome, Acknowledge
<1>4. disk \subseteq db
  BY DEF DriverTypeOK
<1>5. CASE result' = "INTERRUPT" /\ Cut
  <2>1. sql = "ROLLBACK" => stale
    BY <1>5 DEF CallSQL
  <2>2. err' = "INTERRUPT"
    BY <1>5 DEF Cut
  <2>3. CASE UNCHANGED sqlite
    <3>1. acked' = acked
      BY <1>1, <2>3 DEF sqlite
    <3> QED
      BY <1>2, <1>3, <2>1, <2>2, <2>3, <3>1 DEF TxInv, CallSQL, Committed, sqlite
  <2>4. CASE sql = "write" /\ RollbackAll
    <3>1. acked' = acked
      BY <1>1, <1>4, <2>4 DEF RollbackAll
    <3>2. fn \notin {"BeginTx", "Commit", "Rollback"}
      BY <2>4, DriverAssumption DEF CallSQL, DriverTypeOK
    <3> QED
      BY <1>2, <1>3, <2>2, <2>4, <3>1, <3>2 DEF TxInv, Committed, RollbackAll
  <2> QED
    BY <1>5, <2>3, <2>4 DEF Cut
<1>6. CASE Refuse("nil") /\ (cur \in Stmts \/ sql = "read")
  <2>1. err' = "nil" /\ UNCHANGED sqlite
    BY <1>6 DEF Refuse
  <2>2. acked' = acked
    BY <1>1, <2>1 DEF sqlite
  <2>3. fn \notin {"BeginTx", "Commit", "Rollback"} /\ sql \in {"read", "write"}
    BY <1>6, CtxAssumption, DriverAssumption DEF Phases, Contextual, CallSQL, DriverTypeOK
  <2> QED
    BY <1>2, <1>3, <2>1, <2>2, <2>3 DEF TxInv, Committed, sqlite
<1>7. CASE sql = "write" /\ Write
  <2>1. fn \notin {"BeginTx", "Commit", "Rollback"}
    BY <1>7, DriverAssumption DEF CallSQL, DriverTypeOK
  <2>2. CASE UNCHANGED sqlite
    <3>1. acked' = acked
      BY <1>1, <2>2 DEF sqlite
    <3> QED
      BY <1>2, <1>3, <1>7, <2>1, <2>2, <3>1 DEF TxInv, Committed, sqlite
  <2>3. CASE /\ ~queryOnly /\ writes' = writes + 1
             /\ db' = db \cup {writes'}
             /\ autocommit \/ disk' = disk
             /\ UNCHANGED <<autocommit, queryOnly>>
    <3>1. writes' \notin disk
      BY <2>3, OneMore, DriverAssumption DEF DriverTypeOK
    <3>2. tx = "none" => acked' = {}
      BY DEF Outcome, Acknowledge
    <3>3. tx # "none" => acked' \subseteq acked \cup {writes'}
      BY <2>3 DEF Outcome, Acknowledge
    <3>4. tx # "ro"
      BY <2>3 DEF TxInv
    <3> QED
      BY ZenonT(30), <1>2, <1>3, <1>7, <2>1, <2>3, <3>1, <3>2, <3>3, <3>4 DEF TxInv, Committed,
          DriverTypeOK
  <2> QED
    BY <1>7, <2>2, <2>3 DEF Write, Refuse
<1>8. CASE sql = "COMMIT" /\ COMMIT
  <2>1. acked' = acked
    BY <1>1, <1>8 DEF COMMIT, Refuse, sqlite
  <2>2. fn = "Commit"
    BY <1>8, DriverAssumption DEF Phases, Contextual, CallSQL, DriverTypeOK
  <2>3. CASE UNCHANGED sqlite /\ err' # "nil"
    BY <1>2, <1>3, <1>8, <2>1, <2>2, <2>3 DEF TxInv, Committed, sqlite
  <2>4. CASE ~autocommit /\ autocommit' /\ disk' = db /\ err' = "nil" /\ UNCHANGED
      <<queryOnly, db>>
    BY <1>2, <1>3, <1>8, <2>1, <2>2, <2>4 DEF TxInv, Committed
  <2> QED
    BY <1>8, <2>3, <2>4 DEF COMMIT, Refuse
<1>9. CASE sql = "ROLLBACK" /\ ROLLBACK
  <2>1. autocommit' /\ queryOnly' = queryOnly /\ disk' = disk /\ db' \subseteq db
    BY <1>4, <1>9 DEF ROLLBACK, RollbackAll, Refuse, sqlite
  <2>2. acked' = acked
    BY <1>1, <2>1
  <2>3. fn \in {"Commit", "Rollback"}
    BY <1>9, DriverAssumption DEF Phases, Contextual, CallSQL, DriverTypeOK
  <2> QED
    BY <1>2, <1>3, <1>9, <2>1, <2>2, <2>3 DEF TxInv, Committed
<1>10. CASE sql \notin {"read", "write", "COMMIT", "ROLLBACK"} /\ BEGIN
  <2>1. fn = "BeginTx"
    BY <1>10 DEF Phases, Contextual, CallSQL
  <2>2. tx = "none" /\ acked = {} /\ acked' = {}
    BY <2>1 DEF CallSQL, TxInv, Outcome, Acknowledge
  <2>3. CASE err' # "nil" /\ UNCHANGED sqlite
    BY <1>2, <1>10, <2>1, <2>2, <2>3 DEF TxInv, Committed, sqlite
  <2>4. CASE /\ ~autocommit' /\ UNCHANGED <<db, disk>>
             /\ queryOnly' = (queryOnly \/ sql = "BEGIN_query_only")
    BY ZenonT(30), <1>2, <1>10, <2>1, <2>2, <2>4 DEF TxInv, Committed, CallSQL
  <2> QED
    BY <1>10, <2>3, <2>4 DEF BEGIN, Refuse
<1> QED
  BY <1>5, <1>6, <1>7, <1>8, <1>9, <1>10 DEF Outcome

-------------------------------------------------------------------------------
(* The invariant. *)
\* The steps of the driver keep its transaction in line with SQLite's.
LEMMA NextTxInv ==
    DriverInv /\ [DriverNext]_dvars => TxInv'
<1> SUFFICES ASSUME DriverInv PROVE [DriverNext]_dvars => TxInv'
  OBVIOUS
<1> USE CtxAssumption, DriverAssumption DEF dvars, drv, sqlite, history, DriverInv,
    DriverTypeOK, Phases, Contextual, CallSQL, TxInv, Committed
<1>1. ASSUME UNCHANGED drv PROVE TxInv'
  BY Zenon, <1>1
<1>2. ASSUME RunSQL PROVE TxInv'
  <2>1. CASE UNCHANGED <<step, err, sqlite, acked, clean>>
    BY Zenon, <1>2, <2>1 DEF RunSQL
  <2>2. CASE Outcome
    <3>1. /\ step = "SQL" /\ pc' = "idle"
          /\ UNCHANGED <<tx, txBegin, fn, target, sql, stale>>
      BY Zenon, <1>2, <2>2 DEF RunSQL, Outcome
    <3>2. result' = "INTERRUPT" /\ ~stale => fn \in {"ExecContext", "Next"}
      BY Zenon, <1>2, <3>1, InterruptedOwn DEF Contextual
    <3> HIDE CtxAssumption, DriverAssumption DEF DriverTypeOK, Phases, CallSQL, TxInv,
        Committed
    <3> QED
      BY <2>2, <3>1, <3>2, OutcomeTxInv
  <2> HIDE CtxAssumption, DriverAssumption DEF DriverInv, DriverTypeOK, Phases, CallSQL,
      TxInv
  <2> QED
    BY <1>2, RunOutcome, <2>1, <2>2
<1>3. ASSUME RunIt PROVE TxInv'
  BY Zenon, <1>3 DEF RunIt
<1>4. ASSUME Restore PROVE TxInv'
  BY Zenon, <1>4 DEF Restore, Returns
<1>5. ASSUME ExecLoop PROVE TxInv'
  BY Zenon, <1>5 DEF ExecLoop, Returns
<1>6. ASSUME Begun PROVE TxInv'
  BY Zenon, <1>6 DEF Begun, Returns
<1>7. ASSUME EndCommit PROVE TxInv'
  BY Zenon, <1>7 DEF EndCommit, EndTx, Returns
<1>8. ASSUME EndRollback PROVE TxInv'
  BY Zenon, <1>8 DEF EndRollback, EndTx, Returns
<1>9. ASSUME NEW x \in Ctxs \cup {NoCtx}, NEW q \in {"read", "write"}, ExecContext(x, q)
      PROVE TxInv'
  BY Zenon, <1>9 DEF ExecContext, SetContext, Begins, Free
<1>10. ASSUME NEW x \in Ctxs \cup {NoCtx}, NEW s \in Prepared, NEW q \in {"read", "write"},
                 stmtExecContext(s, x, q)
      PROVE TxInv'
  BY Zenon, <1>10 DEF stmtExecContext, Begins, Free
<1>11. ASSUME NEW s \in Prepared, rowsNext(s)
      PROVE TxInv'
  BY Zenon, <1>11 DEF rowsNext, SetContext, Begins, Free
<1>12. ASSUME NEW readOnly \in BOOLEAN, BeginTx(readOnly)
      PROVE TxInv'
  BY Zenon, <1>12 DEF BeginTx, ExecSQL, Begins, Free
<1>13. ASSUME Commit PROVE TxInv'
  <2>1. /\ step = "idle" /\ step' = "SQL" /\ fn' \in {"Commit", "Rollback"}
        /\ UNCHANGED <<txBegin, tx, autocommit, queryOnly, db, disk, acked, clean>>
    BY Zenon, <1>13 DEF Commit, ExecSQL, Begins, Free
  <2> QED
    BY Zenon, <2>1
<1>14. ASSUME Rollback PROVE TxInv'
  BY Zenon, <1>14 DEF Rollback, ExecSQL, Begins, Free
<1>15. ASSUME connClose PROVE TxInv'
  BY Zenon, <1>15 DEF connClose, Free, Returns
<1>16. ASSUME AtOnce PROVE TxInv'
  BY Zenon, <1>16 DEF AtOnce, Free
<1> HIDE CtxAssumption, DriverAssumption DEF dvars, drv, sqlite, history, DriverInv,
    DriverTypeOK, Phases, Contextual, CallSQL, TxInv, Committed
<1> QED
  BY <1>1, <1>2, <1>3, <1>4, <1>5, <1>6, <1>7, <1>8, <1>9, <1>10, <1>11, <1>12, <1>13,
      <1>14, <1>15, <1>16 DEF DriverNext, Direct, dvars, QueryContext, connPrepare,
      stmtClose, rowsClose

\* In SetInterrupt, and after a panic, no call begins or returns.
LEMMA PanicStops ==
    Phases /\ pc \in {"install", "panic"} /\ [DriverNext]_dvars => UNCHANGED <<api, stale>>
<1> SUFFICES ASSUME Phases /\ pc \in {"install", "panic"} PROVE [DriverNext]_dvars =>
    UNCHANGED <<api, stale>>
  OBVIOUS
<1> USE CtxAssumption, DriverAssumption DEF dvars, drv, sqlite, history, Phases
<1>1. ASSUME UNCHANGED drv PROVE UNCHANGED <<api, stale>>
  BY Zenon, <1>1
<1>2. ASSUME RunSQL PROVE UNCHANGED <<api, stale>>
  BY ZenonT(30), <1>2 DEF RunSQL, Start, Finish, Interrupted, Halt
<1>3. ASSUME RunIt PROVE UNCHANGED <<api, stale>>
  BY ZenonT(30), <1>3 DEF RunIt, Use, Ready
<1>4. ASSUME Restore PROVE UNCHANGED <<api, stale>>
  BY Zenon, <1>4 DEF Restore, SetInterrupt, Returns, Ready
<1>5. ASSUME ExecLoop PROVE UNCHANGED <<api, stale>>
  BY Zenon, <1>5 DEF ExecLoop, Use, Reset, Returns, Ready
<1>6. ASSUME Begun PROVE UNCHANGED <<api, stale>>
  BY ZenonT(30), <1>6 DEF Begun, Returns
<1>7. ASSUME EndCommit PROVE UNCHANGED <<api, stale>>
  BY <1>7 DEF EndCommit, EndTx, Use, Ready, Returns
<1>8. ASSUME EndRollback PROVE UNCHANGED <<api, stale>>
  BY <1>8 DEF EndRollback, EndTx, Returns
<1>9. ASSUME NEW x \in Ctxs \cup {NoCtx}, NEW q \in {"read", "write"}, ExecContext(x, q)
      PROVE UNCHANGED <<api, stale>>
  BY Zenon, <1>9 DEF ExecContext, SetContext, SetInterrupt, Begins, Free, Ready
<1>10. ASSUME NEW x \in Ctxs \cup {NoCtx}, NEW s \in Prepared, NEW q \in {"read", "write"},
                 stmtExecContext(s, x, q)
      PROVE UNCHANGED <<api, stale>>
  BY <1>10 DEF stmtExecContext, Use, Begins, Free, Ready
<1>11. ASSUME NEW s \in Prepared, rowsNext(s)
      PROVE UNCHANGED <<api, stale>>
  BY Zenon, <1>11 DEF rowsNext, SetContext, SetInterrupt, Begins, Free, Ready
<1>12. ASSUME NEW readOnly \in BOOLEAN, BeginTx(readOnly)
      PROVE UNCHANGED <<api, stale>>
  BY Zenon, <1>12 DEF BeginTx, ExecSQL, Use, Begins, Free, Ready
<1>13. ASSUME Commit PROVE UNCHANGED <<api, stale>>
  BY Zenon, <1>13 DEF Commit, ExecSQL, Use, Begins, Free, Ready
<1>14. ASSUME Rollback PROVE UNCHANGED <<api, stale>>
  BY ZenonT(30), <1>14 DEF Rollback, ExecSQL, Use, Begins, Free, Ready
<1>15. ASSUME connClose PROVE UNCHANGED <<api, stale>>
  BY Zenon, <1>15 DEF connClose, Close, Free, Ready, Returns
<1>16. ASSUME AtOnce PROVE UNCHANGED <<api, stale>>
  BY Zenon, <1>16 DEF AtOnce, Free, Ready
<1> HIDE CtxAssumption, DriverAssumption DEF dvars, drv, sqlite, history, Phases
<1> QED
  BY <1>1, <1>2, <1>3, <1>4, <1>5, <1>6, <1>7, <1>8, <1>9, <1>10, <1>11, <1>12, <1>13,
      <1>14, <1>15, <1>16 DEF DriverNext, Direct, dvars, QueryContext, connPrepare,
      stmtClose, rowsClose

\* A step of the driver in which SetInterrupt panics leaves the call as it is.
LEMMA NextPanicSpoilt ==
    DriverInv /\ [DriverNext]_dvars /\ [Next]_vars => PanicSpoilt'
<1> SUFFICES ASSUME DriverInv, [DriverNext]_dvars, [Next]_vars, pc' = "panic" PROVE
    ~Unspoilt'
  BY DEF PanicSpoilt
<1>1. CASE pc = "panic"
  BY <1>1, PanicStops, PanicStays DEF DriverInv, PanicSpoilt, Unspoilt
<1>2. CASE pc # "panic"
  <2>1. InstallNew /\ flag /\ Active
    BY <1>2, PanicStep
  <2>2. UNCHANGED <<api, stale, tame>>
    BY <2>1, PanicStops DEF InstallNew, DriverInv
  <2>3. api = "driver" => stale
    BY Zenon, <2>1, CtxAssumption
    DEF InstallNew, DriverInv, ConnInv, TypeOK, DriverTypeOK, Phases, CallOwn, Flagged,
        Entering,
        Running
  <2>4. api # "driver" => ~tame
    BY <2>1 DEF InstallNew, DriverInv, ConnInv, FlagKept, Entering, Active
  <2> QED
    BY <2>2, <2>3, <2>4 DEF Unspoilt
<1> QED
  BY <1>1, <1>2

\* It holds of a new connection.
LEMMA InitDriverInv ==
    DriverInit => DriverInv
<1> SUFFICES ASSUME DriverInit PROVE DriverInv
  OBVIOUS
<1>1. ConnInv /\ TypeOK
  BY InitConnInv DEF DriverInit, ConnInv
<1>2. DriverTypeOK
  <2>1. api \in {"driver", "direct"} /\ txBegin \in TxBegins \cup {"none"}
    BY DEF DriverInit
  <2>2. writes \in 0 .. MaxWrites
    BY DriverAssumption DEF DriverInit
  <2>3. rows \in [Prepared -> Ctxs \cup {NoCtx, NoRows}]
    BY DEF DriverInit
  <2> QED
    BY Zenon, <1>1, <2>1, <2>2, <2>3 DEF DriverInit, DriverTypeOK
<1>3. Phases
  BY <1>2 DEF DriverInit, Init, Phases, Contextual, Entering, Running
<1>4. LateSeen /\ Honoured /\ CallOwn /\ PanicSpoilt
  BY DEF DriverInit, Init, LateSeen, Honoured, CallOwn, PanicSpoilt, Contextual
<1>5. CallSQL /\ TxInv
  BY DEF DriverInit, CallSQL, TxInv, Committed, Contextual
<1> QED
  BY <1>1, <1>2, <1>3, <1>4, <1>5 DEF DriverInv

\* Every step of the driver keeps the whole invariant.
LEMMA NextDriverInv ==
    DriverInv /\ [DriverNext]_dvars => DriverInv'
<1> SUFFICES ASSUME DriverInv, [DriverNext]_dvars PROVE DriverInv'
  OBVIOUS
<1>1. ConnInv /\ DriverTypeOK /\ Phases /\ CallSQL
  BY DEF DriverInv
<1>2. [Next]_vars
  BY <1>1, DriverUsesConn
<1>3. ConnInv' /\ TypeOK'
  BY <1>1, <1>2, NextConnInv DEF ConnInv
<1>4. DriverTypeOK'
  BY <1>1, <1>3, NextDriverTypeOK
<1>5. Phases'
  BY <1>1, NextPhases
<1>6. LateSeen' /\ Honoured' /\ CallOwn' /\ TxInv'
  BY NextLateSeen, NextHonoured, NextCallOwn, NextTxInv
<1>7. PanicSpoilt'
  BY <1>2, NextPanicSpoilt
<1>8. CallSQL'
  BY <1>1, NextCallSQL
<1> QED
  BY <1>3, <1>4, <1>5, <1>6, <1>7, <1>8 DEF DriverInv

\* So it always holds.
LEMMA DriverInvariance ==
    DriverSpec => []DriverInv
  BY InitDriverInv, NextDriverInv, PTL DEF DriverSpec
-------------------------------------------------------------------------------
(* The theorems. *)
\* The driver uses its connection only by the calls that Interrupt has, in an
\* order in which they can be made: what holds of a connection holds of one
\* that database/sql uses.
THEOREM DriverImplementsInterrupt ==
    DriverSpec => Spec
<1>1. DriverInit => Init
  BY DEF DriverInit
<1>2. DriverInv /\ [DriverNext]_dvars => [Next]_vars
  BY DriverUsesConn DEF DriverInv
<1> QED
  BY <1>1, <1>2, DriverInvariance, PTL DEF DriverSpec, Spec

\* The same of a connection that the driver uses.
THEOREM DriverOneGoroutine ==
    DriverSpec => []OneWaiter
  BY OneGoroutine, DriverImplementsInterrupt, PTL

\* The types of the connection's and the driver's state.
THEOREM DriverTypeCorrect ==
    DriverSpec => []DriverTypeOK
<1>1. DriverInv => DriverTypeOK
  BY DEF DriverInv
<1> QED
  BY <1>1, DriverInvariance, PTL

\* A statement on a row has its rows open, or is being executed.
RowsHeld ==
    /\ fn = "ExecContext" => target = EXEC
    /\ fn = "Next" => target \in Prepared /\ rows[target] # NoRows
    /\ fn = "stmt.ExecContext" => target \in Prepared
    /\ api = "driver" => \A s \in Stmts : stmt[s] = "row" =>
          s \in Prepared /\ (rows[s] # NoRows \/ (fn = "stmt.ExecContext" /\ target = s))

\* The statement that is run is that of the call, and no other changes.
LEMMA NextRowsHeld ==
    ConnInv /\ DriverTypeOK /\ Phases /\ RowsHeld /\ [DriverNext]_dvars => RowsHeld'
<1> SUFFICES ASSUME ConnInv /\ DriverTypeOK /\ Phases /\ RowsHeld PROVE [DriverNext]_dvars => RowsHeld'
  OBVIOUS
<1>0. stmt \in [Stmts -> {"closed", "ready", "row"}] /\ rows \in [Prepared -> Ctxs \cup {NoCtx, NoRows}]
  BY DEF ConnInv, TypeOK, DriverTypeOK
<1>p. /\ api = "direct" => step = "idle"
      /\ step = "idle" => fn = "none"
      /\ step = "SQL" => cur = IF Contextual \/ fn = "stmt.ExecContext" THEN target ELSE EXEC
      /\ api \in {"driver", "direct"}
  BY DEF Phases, DriverTypeOK
<1> USE CtxAssumption, DriverAssumption, <1>0, <1>p DEF RowsHeld, Contextual
<1>1. ASSUME UNCHANGED drv, UNCHANGED stmt PROVE RowsHeld'
  BY Zenon, <1>1 DEF drv
<1>2. ASSUME Direct PROVE RowsHeld'
  BY <1>2 DEF Direct, drv
<1>3. ASSUME RunSQL PROVE RowsHeld'
  <2>1. UNCHANGED <<api, rows, fn, target>> /\ step = "SQL"
    BY <1>3 DEF RunSQL
  <2>2. \A s \in Stmts : s # cur => stmt'[s] = stmt[s]
    BY <1>3 DEF RunSQL, Start, Finish, Interrupted, Halt
  <2>3. CASE cur \in Stmts
    <3>1. target = cur /\ target \in Prepared /\ fn \in {"Next", "stmt.ExecContext"}
      BY <2>1, <2>3
    <3> QED
      BY <2>1, <2>2, <3>1
  <2>4. CASE cur \notin Stmts
    <3>1. \A s \in Stmts : stmt'[s] = stmt[s]
      BY <2>2, <2>4
    <3> QED
      BY <2>1, <3>1
  <2> QED
    BY <2>3, <2>4
<1>4. ASSUME RunIt PROVE RowsHeld'
  BY <1>4 DEF RunIt, Use
<1>5. ASSUME Restore PROVE RowsHeld'
  BY <1>5 DEF Restore, SetInterrupt, Enter, Returns
<1>6. ASSUME ExecLoop PROVE RowsHeld'
  <2>1. CASE stmt[target] = "row"
    <3>1. UNCHANGED <<stmt, api, rows, fn, target>>
      BY <1>6, <2>1 DEF ExecLoop, Use
    <3> QED
      BY <3>1
  <2>2. CASE stmt[target] # "row"
    <3>1. /\ stmt' = [stmt EXCEPT ![target] = "ready"] /\ UNCHANGED <<api, rows>>
          /\ fn' = "none" /\ fn = "stmt.ExecContext"
      BY <1>6, <2>2 DEF ExecLoop, Reset, Returns
    <3> QED
      BY <3>1
  <2> QED
    BY <2>1, <2>2
<1>7. ASSUME Begun \/ EndRollback PROVE RowsHeld'
  BY <1>7 DEF Begun, EndRollback, EndTx, Returns, vars
<1>8. ASSUME EndCommit PROVE RowsHeld'
  <2>1. UNCHANGED <<stmt, api, rows>> /\ fn = "Commit" /\ fn' \in {"none", "Commit"}
    BY <1>8 DEF EndCommit, EndTx, Returns, Use, vars
  <2> QED
    BY <2>1
<1>9. ASSUME NEW x \in Ctxs \cup {NoCtx}, NEW q \in {"read", "write"}, ExecContext(x, q)
      PROVE RowsHeld'
  BY <1>9 DEF ExecContext, SetContext, SetInterrupt, Enter, Begins, Free
<1>10. ASSUME NEW x \in Ctxs \cup {NoCtx}, NEW s \in Prepared, QueryContext(s, x)
      PROVE RowsHeld'
  BY <1>10 DEF QueryContext, AtOnce, Free, vars
<1>11. ASSUME NEW x \in Ctxs \cup {NoCtx}, NEW s \in Prepared, NEW q \in {"read", "write"},
                 stmtExecContext(s, x, q)
      PROVE RowsHeld'
  BY <1>11 DEF stmtExecContext, Use, Begins, Free
<1>12. ASSUME NEW s \in Prepared, connPrepare(s) PROVE RowsHeld'
  BY <1>12 DEF connPrepare, Prepare, AtOnce, Free
<1>13. ASSUME NEW s \in Prepared, stmtClose(s) PROVE RowsHeld'
  BY <1>13 DEF stmtClose, CloseStmt, AtOnce, Free
<1>14. ASSUME NEW s \in Prepared, rowsNext(s) PROVE RowsHeld'
  BY <1>14 DEF rowsNext, SetContext, SetInterrupt, Enter, Begins, Free
<1>15. ASSUME NEW s \in Prepared, rowsClose(s) PROVE RowsHeld'
  BY <1>15 DEF rowsClose, Reset, AtOnce, Free
<1>16. ASSUME NEW readOnly \in BOOLEAN, BeginTx(readOnly) PROVE RowsHeld'
  <2>1. UNCHANGED <<stmt, api, rows>> /\ fn = "none" /\ fn' = "BeginTx"
    BY <1>16 DEF BeginTx, ExecSQL, Use, Begins, Free, vars
  <2> QED
    BY <2>1
<1>17. ASSUME Commit \/ Rollback PROVE RowsHeld'
  <2>1. UNCHANGED <<stmt, api, rows>> /\ fn = "none" /\ fn' \in {"Commit", "Rollback"}
    BY <1>17 DEF Commit, Rollback, ExecSQL, Use, Begins, Free
  <2> QED
    BY <2>1
<1>18. ASSUME connClose PROVE RowsHeld'
  BY <1>18 DEF connClose, Close, Enter, Free, Returns
<1>19. ASSUME UNCHANGED drv, InSetInterrupt \/ \E x \in Ctxs : Cancel(x) \/ Waiter(x)
       PROVE  RowsHeld'
  <2>1. UNCHANGED stmt
    BY Zenon, <1>19 DEF InSetInterrupt, Waiter, Cancel, Wake, sendInterrupt, CancelWaiter,
        AwaitWaiter, InstallNone, InstallNew, InstallOver, Spawn, CloseHandle
  <2> QED
    BY <1>1, <1>19, <2>1
<1>20. ASSUME UNCHANGED dvars PROVE RowsHeld'
  BY Zenon, <1>1, <1>20 DEF dvars, vars
<1> HIDE CtxAssumption, DriverAssumption, <1>0, <1>p DEF RowsHeld, Contextual
<1> QED
  BY <1>2, <1>3, <1>4, <1>5, <1>6, <1>7, <1>8, <1>9, <1>10, <1>11, <1>12, <1>13,
      <1>14, <1>15, <1>16, <1>17, <1>18, <1>19, <1>20 DEF DriverNext

\* Between the calls of the driver, whatever their order and however they end, a
\* statement is on a row only while its rows are open: Stmt.Exec and rows.Close
\* leave none behind.
THEOREM RowsReset == DriverSpec => []RowsOpen
<1>1. DriverInit => RowsHeld
  BY DEF DriverInit, Init, RowsHeld
<1>2. DriverInv => ConnInv /\ DriverTypeOK /\ Phases
  BY DEF DriverInv
<1>3. DriverInv /\ RowsHeld => RowsOpen
  <2> SUFFICES ASSUME DriverInv, RowsHeld, Free PROVE
                 \A s \in Stmts : stmt[s] = "row" => s \in Prepared /\ rows[s] # NoRows
    BY DEF RowsOpen
  <2>1. api = "driver" /\ fn = "none"
    BY DEF Free, DriverInv, Phases
  <2> QED
    BY Zenon, <2>1 DEF RowsHeld
<1> QED
  BY <1>1, <1>2, <1>3, NextRowsHeld, DriverInvariance, PTL DEF DriverSpec

\* ExecContext and rows.Next put the old context back: between calls the
\* connection has no context, no pending statement and no goroutine.
THEOREM ContextRestored ==
    DriverSpec => []Restored
<1>1. DriverInv => Restored
  BY CtxAssumption
  DEF DriverInv, ConnInv, Phases, OneWaiter, FlagKept, Restored, Free, Ready
<1> QED
  BY <1>1, DriverInvariance, PTL

\* ExecContext and rows.Next with a context that is done fail with INTERRUPT,
\* with whatever rows open.
THEOREM DoneContextHonoured ==
    DriverSpec => []Honoured
<1>1. DriverInv => Honoured
  BY DEF DriverInv
<1> QED
  BY <1>1, DriverInvariance, PTL

\* No statement is interrupted for another call's context, and SetInterrupt
\* does not panic, unless a call began with the flag set and a row open.
THEOREM InterruptedForOwnContext ==
    DriverSpec => OwnContext
<1> DEFINE Own == /\ pc' # "panic"
                  /\ Running /\ pc' = "idle" /\ result' = "INTERRUPT" =>
                        checkInterrupt /\ (api = "driver" => fn \in {"ExecContext", "Next"})
<1>1. DriverInv /\ DriverInv' /\ [DriverNext]_dvars => [Unspoilt => Own]_dvars
  <2> SUFFICES ASSUME DriverInv, DriverInv', [DriverNext]_dvars, Unspoilt PROVE Own
    OBVIOUS
  <2>1. [Next]_vars
    BY DriverUsesConn DEF DriverInv
  <2>2. pc' # "panic"
    <3>1. pc # "panic"
      BY DEF DriverInv, PanicSpoilt
    <3>2. SUFFICES ASSUME pc' = "panic" PROVE FALSE
      OBVIOUS
    <3>3. InstallNew
      BY <2>1, <3>1, <3>2, PanicStep
    <3>4. UNCHANGED <<api, stale, tame>>
      BY <3>3, PanicStops DEF InstallNew, DriverInv
    <3> QED
      BY <3>2, <3>4 DEF DriverInv, PanicSpoilt, Unspoilt
  <2>3. ASSUME Running, pc' = "idle", result' = "INTERRUPT"
        PROVE  checkInterrupt /\ (api = "driver" => fn \in {"ExecContext", "Next"})
    <3>1. Flagged
      BY Zenon, <2>1, <2>3, RunningEnds DEF Start, Finish, Interrupted, Return, Flagged
    <3>2. CASE api = "driver"
      <4>1. step = "SQL" /\ ~stale
        BY Zenon, <2>3, <3>2 DEF DriverInv, DriverTypeOK, Phases, Running, Entering, Unspoilt
      <4>2. interrupt \in done
        BY <3>1, <4>1 DEF DriverInv, CallOwn
      <4> QED
        BY Zenon, <4>1, <4>2, CtxAssumption
        DEF DriverInv, ConnInv, TypeOK, Phases, Contextual, checkInterrupt
    <3>3. CASE api # "driver"
      BY <2>3, <3>1, <3>3
      DEF DriverInv, ConnInv, FlagOwn, Unspoilt, Running, Entering, checkInterrupt
    <3> QED
      BY <3>2, <3>3
  <2> QED
    BY <2>2, <2>3
<1> QED
  BY <1>1, DriverInvariance, PTL DEF DriverSpec, OwnContext

\* What holds when Commit or Rollback is about to return.
TxOver ==
    /\ UNCHANGED <<autocommit, disk>>
    /\ step = "returned"
    /\ \/ fn = "Commit" /\ (err = "nil" \/ sql = "ROLLBACK")
       \/ fn = "Rollback"

\* The driver's Tx ends when Commit or Rollback returns.
LEMMA TxReturns ==
    CallSQL /\ tx # "none" /\ tx' = "none" /\ [DriverNext]_dvars => TxOver
<1> SUFFICES ASSUME CallSQL /\ tx # "none" /\ tx' = "none" PROVE [DriverNext]_dvars =>
    TxOver
  OBVIOUS
<1> USE CtxAssumption, DriverAssumption DEF dvars, drv, sqlite, CallSQL, TxOver
<1>1. ASSUME UNCHANGED drv PROVE TxOver
  BY <1>1
<1>2. ASSUME RunSQL PROVE TxOver
  BY <1>2 DEF RunSQL
<1>3. ASSUME RunIt PROVE TxOver
  BY <1>3 DEF RunIt
<1>4. ASSUME Restore PROVE TxOver
  BY <1>4 DEF Restore, Returns
<1>5. ASSUME ExecLoop PROVE TxOver
  BY <1>5 DEF ExecLoop, Returns
<1>6. ASSUME Begun PROVE TxOver
  BY <1>6 DEF Begun, Returns
<1>7. ASSUME EndCommit PROVE TxOver
  BY <1>7 DEF EndCommit, EndTx, Returns
<1>8. ASSUME EndRollback PROVE TxOver
  BY <1>8 DEF EndRollback, EndTx, Returns
<1>9. ASSUME NEW x \in Ctxs \cup {NoCtx}, NEW q \in {"read", "write"}, ExecContext(x, q)
      PROVE TxOver
  BY <1>9 DEF ExecContext, SetContext, Begins
<1>10. ASSUME NEW x \in Ctxs \cup {NoCtx}, NEW s \in Prepared, NEW q \in {"read", "write"},
                 stmtExecContext(s, x, q)
      PROVE TxOver
  BY <1>10 DEF stmtExecContext, Begins
<1>11. ASSUME NEW s \in Prepared, rowsNext(s)
      PROVE TxOver
  BY <1>11 DEF rowsNext, SetContext, Begins
<1>12. ASSUME NEW readOnly \in BOOLEAN, BeginTx(readOnly)
      PROVE TxOver
  BY <1>12 DEF BeginTx, ExecSQL, Begins
<1>13. ASSUME Commit PROVE TxOver
  BY <1>13 DEF Commit, ExecSQL, Begins
<1>14. ASSUME Rollback PROVE TxOver
  BY <1>14 DEF Rollback, ExecSQL, Begins
<1>15. ASSUME connClose PROVE TxOver
  BY <1>15 DEF connClose, Returns
<1>16. ASSUME AtOnce PROVE TxOver
  BY <1>16 DEF AtOnce
<1> HIDE CtxAssumption, DriverAssumption DEF dvars, drv, sqlite, CallSQL, TxOver
<1> QED
  BY <1>1, <1>2, <1>3, <1>4, <1>5, <1>6, <1>7, <1>8, <1>9, <1>10, <1>11, <1>12, <1>13,
      <1>14, <1>15, <1>16 DEF DriverNext, Direct, dvars, QueryContext, connPrepare,
      stmtClose, rowsClose

\* When Commit or Rollback has returned SQLite's transaction is over, also when
\* COMMIT fails, unless the flag was left set with a row open.
THEOREM TransactionsEnd ==
    DriverSpec => TxEnds
<1>1. DriverInv /\ [DriverNext]_dvars =>
         [tx # "none" /\ tx' = "none" /\ ~stale => autocommit']_dvars
  <2> SUFFICES ASSUME DriverInv, [DriverNext]_dvars, tx # "none", tx' = "none", ~stale
               PROVE  autocommit'
    OBVIOUS
  <2>1. TxOver /\ CallSQL /\ TxInv
    BY TxReturns DEF DriverInv
  <2> QED
    BY <2>1 DEF TxOver, CallSQL, TxInv, Committed
<1> QED
  BY <1>1, DriverInvariance, PTL DEF DriverSpec, TxEnds

\* What Commit reports is what is on the disk, and what Rollback or a failed
\* Commit has undone is not: the caller sees all of its writes or none.
THEOREM TransactionsAtomic ==
    DriverSpec => AllOrNothing
<1> DEFINE Fate == IF tx = "ro" THEN acked = {}
                   ELSE IF fn = "Commit" /\ sql = "COMMIT" THEN acked \subseteq disk
                   ELSE txBegin # "none" /\ clean => acked \cap disk = {}
<1>1. DriverInv /\ [DriverNext]_dvars => [tx # "none" /\ tx' = "none" => Fate]_dvars
  <2> SUFFICES ASSUME DriverInv, [DriverNext]_dvars, tx # "none", tx' = "none" PROVE Fate
    OBVIOUS
  <2>1. TxOver /\ CallSQL /\ TxInv /\ tx \in {"none", "ro", "rw"}
    BY TxReturns DEF DriverInv, DriverTypeOK
  <2> QED
    BY <2>1 DEF TxOver, CallSQL, TxInv, Committed
<1> QED
  BY <1>1, DriverInvariance, PTL DEF DriverSpec, AllOrNothing
-------------------------------------------------------------------------------
(* How a cancellation reaches a call of the driver. *)
\* It reaches the connection, and until its statement has started a row keeps the
\* flag: the pending statement's, or the one that made the flag be seen before.
Pursuit ==
    api = "driver" =>
        /\ Reached
        /\ step \in {"setting", "SQL"} /\ pc \in {"check", "idle", "start"} /\ interrupt # NoCtx
              => Active

\* Every step of the driver keeps the cancellation.
LEMMA NextPursuit ==
    DriverInv /\ Watched /\ Pursuit /\ [DriverNext]_dvars => Pursuit'
<1> SUFFICES ASSUME DriverInv /\ Watched /\ Pursuit PROVE [DriverNext]_dvars => Pursuit'
  OBVIOUS
<1> USE CtxAssumption, DriverAssumption DEF dvars, drv, sqlite, history, vars, conn, call,
    DriverInv, ConnInv, TypeOK, OneWaiter, Handshake, FlagKept, DriverTypeOK, Phases,
    Serving, Watched, Reached, Pursuit, Active, Contextual,
    Running, Entering, checkInterrupt, EXEC
<1>1. ASSUME Direct PROVE Pursuit'
  BY Zenon, <1>1 DEF Direct
<1>2. ASSUME api = "driver", UNCHANGED drv, NEW x \in Ctxs, Cancel(x)
      PROVE Pursuit'
  BY Zenon, <1>2 DEF Cancel
<1>3. ASSUME api = "driver", UNCHANGED drv, NEW x \in Ctxs, Wake(x)
      PROVE Pursuit'
  BY Zenon, <1>3 DEF Wake
<1>4. ASSUME api = "driver", UNCHANGED drv, NEW x \in Ctxs, sendInterrupt(x)
      PROVE Pursuit'
  BY Zenon, <1>4 DEF sendInterrupt
<1>5. ASSUME api = "driver", UNCHANGED drv, NEW x \in Ctxs, CancelWaiter(x)
      PROVE Pursuit'
  BY Zenon, <1>5 DEF CancelWaiter
<1>6. ASSUME api = "driver", UNCHANGED drv, NEW x \in Ctxs, AwaitWaiter(x)
      PROVE Pursuit'
  BY Zenon, <1>6 DEF AwaitWaiter
<1>7. ASSUME api = "driver", UNCHANGED drv, InstallNone
      PROVE Pursuit'
  BY Zenon, <1>7 DEF InstallNone, Return
<1>8. ASSUME api = "driver", UNCHANGED drv, InstallNew
      PROVE Pursuit'
  BY Zenon, <1>8 DEF InstallNew
<1>9. ASSUME api = "driver", UNCHANGED drv, InstallOver
      PROVE Pursuit'
  BY Zenon, <1>9 DEF InstallOver
<1>10. ASSUME api = "driver", UNCHANGED drv, Spawn
      PROVE Pursuit'
  BY Zenon, <1>10 DEF Spawn, Return
<1>11. ASSUME api = "driver", UNCHANGED drv, CloseHandle
      PROVE Pursuit'
  BY ZenonT(30), <1>11 DEF CloseHandle, Return
<1>12. ASSUME RunSQL PROVE Pursuit'
  <2>1. /\ UNCHANGED <<api, interrupt, goroutine, done>> /\ Running /\ step = "SQL"
        /\ pc' = "run" \/ step' = "returned"
    BY Zenon, <1>12 DEF RunSQL, Start, Finish, Interrupted, Return
  <2>2. interrupt # NoCtx /\ flag /\ api = "driver" => flag'
    BY Zenon, <1>12, <2>1 DEF RunSQL, Start, Finish, Interrupted
  <2> QED
    BY Zenon, <2>1, <2>2
<1>13. ASSUME RunIt PROVE Pursuit'
  BY Zenon, <1>13 DEF RunIt, Use, Ready
<1>14. ASSUME Restore PROVE Pursuit'
  BY Zenon, <1>14 DEF Restore, SetInterrupt, Enter, Returns, Ready, Return
<1>15. ASSUME ExecLoop PROVE Pursuit'
  <2>1. interrupt = NoCtx /\ UNCHANGED <<interrupt, done>>
    BY Zenon, <1>15 DEF ExecLoop, Use, Reset
  <2> QED
    BY Zenon, <2>1
<1>16. ASSUME Begun PROVE Pursuit'
  BY Zenon, <1>16 DEF Begun, Returns
<1>17. ASSUME EndCommit PROVE Pursuit'
  BY ZenonT(30), <1>17 DEF EndCommit, EndTx, Use, Ready, Returns
<1>18. ASSUME EndRollback PROVE Pursuit'
  BY Zenon, <1>18 DEF EndRollback, EndTx, Returns
<1>19. ASSUME NEW x \in Ctxs \cup {NoCtx}, NEW q \in {"read", "write"}, ExecContext(x, q)
      PROVE Pursuit'
  BY Zenon, <1>19 DEF ExecContext, SetContext, SetInterrupt, Enter, Begins, Free, Ready
<1>20. ASSUME NEW x \in Ctxs \cup {NoCtx}, NEW s \in Prepared, NEW q \in {"read", "write"},
                 stmtExecContext(s, x, q)
      PROVE Pursuit'
  BY Zenon, <1>20 DEF stmtExecContext, Use, Begins, Free, Ready
<1>21. ASSUME NEW s \in Prepared, rowsNext(s)
      PROVE Pursuit'
  BY Zenon, <1>21 DEF rowsNext, SetContext, SetInterrupt, Enter, Begins, Free, Ready
<1>22. ASSUME NEW readOnly \in BOOLEAN, BeginTx(readOnly)
      PROVE Pursuit'
  BY Zenon, <1>22 DEF BeginTx, ExecSQL, Use, Begins, Free, Ready
<1>23. ASSUME Commit PROVE Pursuit'
  BY ZenonT(30), <1>23 DEF Commit, ExecSQL, Use, Begins, Free, Ready
<1>24. ASSUME Rollback PROVE Pursuit'
  BY Zenon, <1>24 DEF Rollback, ExecSQL, Use, Begins, Free, Ready
<1>25. ASSUME connClose PROVE Pursuit'
  BY Zenon, <1>25 DEF connClose, Close, Enter, Free, Ready, Returns
<1>26. ASSUME UNCHANGED dvars PROVE Pursuit'
  BY Zenon, <1>26
<1>27. ASSUME AtOnce, UNCHANGED <<interrupt, done>> PROVE Pursuit'
  BY Zenon, <1>27 DEF AtOnce, Free, Ready
<1> HIDE CtxAssumption, DriverAssumption DEF dvars, drv, sqlite, history, vars, conn, call,
    DriverInv, ConnInv, TypeOK, OneWaiter, Handshake, FlagKept, DriverTypeOK, Phases,
    Serving,
    Watched, Reached, Pursuit, Active, Contextual, Running, Entering, checkInterrupt, EXEC
<1> QED
  BY Zenon, <1>1, <1>2, <1>3, <1>4, <1>5, <1>6, <1>7, <1>8, <1>9, <1>10, <1>11, <1>12, <1>13,
      <1>14, <1>15, <1>16, <1>17, <1>18, <1>19, <1>20, <1>21, <1>22, <1>23, <1>24, <1>25,
      <1>26, <1>27 DEF DriverNext, InSetInterrupt, Waiter, QueryContext, connPrepare,
      stmtClose, rowsClose, Prepare, CloseStmt, Reset, vars, conn

\* With a context that is cancelled at any time, a call of the driver is
\* interrupted or about to be: SQLite's flag is set, or the goroutine will set
\* it, whatever rows are open.  With the scheduling that FairDriverSpec assumes
\* this is why the call ends.
THEOREM DriverCancellationReaches ==
    DriverSpec => [](tame \/ api = "driver" => Reached)
<1>1. DriverInit => Watched /\ Pursuit
  BY CtxAssumption DEF DriverInit, Init, Watched, Pursuit, Reached, checkInterrupt
<1>2. DriverInv /\ Watched /\ Pursuit /\ [DriverNext]_dvars => (Watched /\ Pursuit)'
  BY NextPursuit, NextWatched, DriverUsesConn DEF DriverInv
<1>3. Pursuit => (api = "driver" => Reached)
  BY DEF Pursuit
<1>4. DriverSpec => [](tame => Reached)
  BY CancellationReaches, DriverImplementsInterrupt, PTL
<1>5. (tame => Reached) /\ (api = "driver" => Reached) => (tame \/ api = "driver" => Reached)
  OBVIOUS
<1> QED
  BY <1>1, <1>2, <1>3, <1>4, <1>5, DriverInvariance, PTL DEF DriverSpec
================================================================================

------------------------------ MODULE Savepoint -------------------------------
(***************************************************************************)
(* Go functions that call each other, each beginning with                  *)
(*     defer conn.Savepoint()(&err)                                        *)
(* (conn.go).  Savepoint and the function it returns run SQL that changes  *)
(* SQLite's transaction: a stack of savepoints, the first of which begins  *)
(* a transaction unless BEGIN has, each with the data to go back to.  The  *)
(* context of the connection may be done at any time, which makes Exec     *)
(* fail with INTERRUPT, and a commit may fail.  As in Interrupt, SQLite    *)
(* clears its interrupt flag only when a statement starts and no other is  *)
(* on a row: a query of the program that is on a row keeps the flag after  *)
(* SetInterrupt has replaced the context.                                  *)
(*                                                                         *)
(* The data is the set of writes it contains.  goal follows what the       *)
(* functions mean: one that fails undoes what it and its callees wrote.    *)
(***************************************************************************)
EXTENDS Naturals, Sequences, SequencesExt

CONSTANTS
    Functions,      \* names of functions, which name the savepoints
    MaxDepth,       \* bound on the functions that are active
    MaxWrites,      \* bound on the number of writes
    CommitErrors    \* how a commit may fail: BUSY, or IOERR, which rolls back

ASSUME SavepointAssumption ==
    /\ MaxDepth \in Nat /\ MaxWrites \in Nat
    /\ CommitErrors \subseteq {"BUSY", "IOERR"}

VARIABLES
    frames,         \* the active functions
    marks,          \* SQLite's savepoints, the last one on top
    begun,          \* was the transaction begun by BEGIN?
    db, disk,       \* the data the connection sees, and the committed data
    done,           \* is the connection's context done?
    row,            \* is a query of the program on a row?
    flag,           \* is SQLite's interrupt flag set, for the next Exec to see?
    pc,             \* the statement that the release function runs next
    error,          \* *errp, in the release function and when it has returned
    cause,          \* the error of the first RELEASE, if it failed
    panicked,       \* history: has a release function panicked by itself?
    writes,         \* how many writes were made
    goal            \* history: the data the functions mean there to be

sqlite == <<marks, begun, db, disk>>
vars == <<frames, sqlite, done, row, flag, pc, error, cause, panicked, writes, goal>>

Init ==
    /\ frames = <<>>
    /\ marks = <<>> /\ begun = FALSE /\ db = {} /\ disk = {}
    /\ done = FALSE /\ row = FALSE /\ flag = FALSE
    /\ pc = "idle" /\ error = "nil" /\ cause = "nil" /\ panicked = FALSE
    /\ writes = 0 /\ goal = {}

GetAutocommit == ~begun /\ marks = <<>>

Top == Last(frames)

-------------------------------------------------------------------------------
(* SQLite. *)
Commit == disk' = db /\ marks' = <<>> /\ begun' = FALSE /\ UNCHANGED db

RollbackAll == db' = disk /\ marks' = <<>> /\ begun' = FALSE /\ UNCHANGED disk

\* The innermost savepoint of that name; 0 if there is none.
Find(name) == SelectLastInSeq(marks, LAMBDA m : m.name = name)

SAVEPOINT(name) ==
    /\ marks' = Append(marks, [name |-> name, data |-> db])
    /\ UNCHANGED <<begun, db, disk>>

ROLLBACKTO(name) ==
    /\ Find(name) > 0
    /\ marks' = SubSeq(marks, 1, Find(name))
    /\ db' = marks[Find(name)].data
    /\ UNCHANGED <<begun, disk>>

\* Releasing the savepoint that began the transaction commits it.
RELEASE(name) ==
    /\ Find(name) > 0
    /\ IF Find(name) = 1 /\ ~begun
       THEN Commit
       ELSE marks' = SubSeq(marks, 1, Find(name) - 1) /\ UNCHANGED <<begun, db, disk>>

\* Mutant: the error path keeps the context.
InterruptedAlways == flag \/ done

\* Exec is interrupted: by the flag, or because the context is done, which the
\* error path of the release function has replaced.
Interrupted == flag \/ (done /\ pc \in {"idle", "RELEASE"})

\* RELEASE returns an error: it is interrupted, there is no such savepoint, or
\* the commit fails.
ReleaseFails(name, code) ==
    \/ Interrupted /\ code = "INTERRUPT" /\ UNCHANGED sqlite
    \/ ~Interrupted /\ Find(name) = 0 /\ code = "ERROR" /\ UNCHANGED sqlite
    \/ /\ ~Interrupted /\ Find(name) = 1 /\ ~begun
       /\ code \in CommitErrors
       /\ IF code = "BUSY" THEN UNCHANGED sqlite ELSE RollbackAll

-------------------------------------------------------------------------------
(* The functions. *)
Idle == pc = "idle"

\* The transaction ends while functions are active: they can undo nothing.
Ended == frames' = [i \in DOMAIN frames |-> [frames[i] EXCEPT !.undo = FALSE]]

\* Mutant: only the outermost function makes a savepoint.
CallOutermost(f) ==
    /\ Idle /\ ~Interrupted
    /\ Len(frames) < MaxDepth
    /\ frames' = Append(frames, [name |-> f, made |-> TRUE, undo |-> TRUE, at |-> goal])
    /\ IF GetAutocommit THEN SAVEPOINT(f) ELSE UNCHANGED sqlite
    /\ UNCHANGED <<done, row, flag, pc, error, cause, panicked, writes, goal>>

\* A function is called.  Its body also runs when Savepoint has failed.
Call(f) ==
    /\ Idle
    /\ Len(frames) < MaxDepth
    /\ frames' = Append(frames, [name |-> f, made |-> ~Interrupted,
                                undo |-> ~Interrupted, at |-> goal])
    /\ IF Interrupted THEN UNCHANGED sqlite ELSE SAVEPOINT(f)
    /\ flag' = Interrupted
    /\ UNCHANGED <<done, row, pc, error, cause, panicked, writes, goal>>

Write ==
    /\ Idle /\ ~Interrupted
    /\ writes < MaxWrites
    /\ writes' = writes + 1
    /\ db' = db \cup {writes'}
    /\ goal' = goal \cup {writes'}
    /\ disk' = IF GetAutocommit THEN db' ELSE disk
    /\ UNCHANGED <<frames, marks, begun, done, row, flag, pc, error, cause, panicked>>

\* A write fails in a way that makes SQLite roll back the transaction (it was
\* interrupted, the disk is full), or the caller says ROLLBACK; it had started
\* before the context was done.
Abort ==
    /\ Idle /\ ~GetAutocommit
    /\ flag => done
    /\ RollbackAll
    /\ goal' = disk
    /\ Ended
    /\ UNCHANGED <<done, row, flag, pc, error, cause, panicked, writes>>

\* The caller begins a transaction, or ends it, from within a function too.
Begin ==
    /\ Idle /\ ~Interrupted /\ GetAutocommit
    /\ begun' = TRUE
    /\ UNCHANGED <<frames, marks, db, disk, done, row, flag, pc, error, cause, panicked,
                   writes, goal>>

End ==
    /\ Idle /\ ~Interrupted /\ ~GetAutocommit
    /\ Commit
    /\ Ended
    /\ UNCHANGED <<done, row, flag, pc, error, cause, panicked, writes, goal>>

\* The caller steps a query to a row, and resets or closes it.  The flag stays
\* for the statement of a context that is done (see Interrupt).
Query ==
    /\ Idle /\ ~Interrupted /\ ~row
    /\ row' = TRUE
    /\ UNCHANGED <<frames, sqlite, done, flag, pc, error, cause, panicked, writes, goal>>

Reset ==
    /\ Idle /\ row
    /\ row' = FALSE
    /\ flag' = (flag /\ done)
    /\ UNCHANGED <<frames, sqlite, done, pc, error, cause, panicked, writes, goal>>

\* The context becomes done.  None can be set while a row keeps the flag, which
\* makes SetInterrupt panic (see Interrupt).
Cancel ==
    /\ ~done /\ ~flag
    /\ done' = TRUE
    /\ UNCHANGED <<frames, sqlite, row, flag, pc, error, cause, panicked, writes, goal>>

\* The goroutine of waitInterrupt finds the context done, if it is not replaced.
sendInterrupt ==
    /\ Interrupted /\ ~flag
    /\ flag' = TRUE
    /\ UNCHANGED <<frames, sqlite, done, row, pc, error, cause, panicked, writes, goal>>

\* The caller replaces the context.
SetInterrupt ==
    /\ Idle /\ done
    /\ done' = FALSE
    /\ flag' = (flag /\ row)
    /\ UNCHANGED <<frames, sqlite, row, pc, error, cause, panicked, writes, goal>>

-------------------------------------------------------------------------------
(* The release function. *)
\* It returns *errp, or panics; what the function wrote stays or is undone.
Leave(err) ==
    /\ pc' = "idle"
    /\ error' = err
    /\ goal' = IF err # "nil" /\ Top.undo THEN Top.at ELSE goal
    /\ frames' = Front(frames)

\* Mutant: recover is not looked at, so that a panic with no error is a success.
ReleaseOnPanic(err) ==
    /\ Idle /\ frames # <<>>
    /\ cause' = "nil"
    /\ \/ /\ ~Top.made \/ GetAutocommit
          /\ Leave(err)
       \/ /\ Top.made /\ ~GetAutocommit
          /\ pc' = IF err = "error" THEN "ROLLBACK_TO" ELSE "RELEASE"
          /\ error' = err
          /\ UNCHANGED <<frames, goal>>
    /\ flag' = (flag /\ (row \/ pc' # "ROLLBACK_TO"))
    /\ UNCHANGED <<sqlite, done, row, panicked, writes>>

\* The function ends with an error, a panic or neither.  The error path replaces
\* the context, and the flag stays if a row keeps it.
release(err) ==
    /\ Idle /\ frames # <<>>
    /\ cause' = "nil"
    /\ \/ ~Top.made /\ Leave(IF err = "nil" THEN "error" ELSE err)
       \/ Top.made /\ GetAutocommit /\ Leave(err)
       \/ /\ Top.made /\ ~GetAutocommit
          /\ pc' = IF err = "nil" THEN "RELEASE" ELSE "ROLLBACK_TO"
          /\ error' = err
          /\ UNCHANGED <<frames, goal>>
    /\ flag' = (flag /\ (row \/ pc' # "ROLLBACK_TO"))
    /\ UNCHANGED <<sqlite, done, row, panicked, writes>>

\* The success path.  Any failure leads to the error path.
Succeed ==
    /\ pc = "RELEASE"
    /\ \/ /\ ~Interrupted
          /\ RELEASE(Top.name)
          /\ Leave(error)
          /\ UNCHANGED <<cause, flag>>
       \/ /\ \E code \in {"INTERRUPT", "ERROR", "BUSY", "IOERR"} :
                ReleaseFails(Top.name, code) /\ cause' = code
          /\ pc' = "ROLLBACK_TO"
          /\ error' = "error"
          /\ flag' = (Interrupted /\ row)
          /\ UNCHANGED <<frames, goal>>
    /\ UNCHANGED <<done, row, panicked, writes>>

\* Mutant: ROLLBACK TO is taken to end the savepoint.
RollBackOnly ==
    /\ pc = "ROLLBACK_TO"
    /\ ~Interrupted
    /\ ROLLBACKTO(Top.name)
    /\ Leave(error)
    /\ flag' = done
    /\ UNCHANGED <<done, row, cause, panicked, writes>>

\* The error path, in which the connection has no context to be done.  The old
\* one, set again when it ends, sets the flag again.
RollBack ==
    /\ pc = "ROLLBACK_TO"
    /\ \/ /\ ~Interrupted
          /\ ROLLBACKTO(Top.name)
          /\ pc' = "RELEASE_again"
          /\ UNCHANGED <<frames, flag, error, panicked, goal>>
       \/ /\ Interrupted \/ Find(Top.name) = 0
          /\ Leave("panic")
          /\ panicked' = TRUE
          /\ flag' = (flag \/ done)
          /\ UNCHANGED sqlite
    /\ UNCHANGED <<done, row, cause, writes>>

ReleaseAgain ==
    /\ pc = "RELEASE_again"
    /\ \/ ~Interrupted /\ RELEASE(Top.name) /\ Leave(error) /\ UNCHANGED panicked
       \/ /\ \E code \in {"INTERRUPT", "ERROR", "BUSY", "IOERR"} :
                ReleaseFails(Top.name, code)
          /\ Leave("panic")
          /\ panicked' = TRUE
    /\ flag' = (flag \/ done)
    /\ UNCHANGED <<done, row, cause, writes>>

Next ==
    \/ \E f \in Functions : Call(f)
    \/ Write \/ Abort \/ Begin \/ End \/ Query \/ Reset
    \/ Cancel \/ sendInterrupt \/ SetInterrupt
    \/ \E err \in {"nil", "error", "panic"} : release(err)
    \/ Succeed \/ RollBack \/ ReleaseAgain

Spec == Init /\ [][Next]_vars

-------------------------------------------------------------------------------
\* Savepoint's documentation: the release function "will call either RELEASE
\* or ROLLBACK depending on whether the parameter *error points to a nil or
\* non-nil error".  A function that fails, is interrupted or panics leaves
\* the data as it found it, one that succeeds keeps what it wrote, at every
\* depth and whatever its callees did, unless the transaction was ended under
\* it.
AsMeant == Idle /\ ~panicked => db = goal

\* When the outermost function has returned, the transaction it began is over,
\* and what the functions meant is committed: no savepoint is left behind, on
\* any path through the release function.
Settled ==
    Idle /\ frames = <<>> /\ ~begun /\ ~panicked => GetAutocommit /\ disk = goal

\* The comment in Savepoint's error path: "Always ROLLBACK even if the
\* connection has been interrupted."  Whichever statement of the release function
\* fails, the data is as the function found it, also when the release function
\* panics.  That it does only when a commit has failed, when the transaction was
\* ended under the function and another begun, or when the flag of the interrupt
\* is kept by a query that is on a row: ROLLBACK TO is then interrupted too,
\* against the comment, and the savepoint to go back to is still there.
AlwaysRollback ==
    [][~panicked /\ panicked' =>
          \/ /\ db' = goal'
             /\ \/ pc = "ROLLBACK_TO" /\ (cause = "IOERR" \/ ~Top.undo)
                \/ pc = "RELEASE_again" /\ Find(Top.name) = 1 /\ ~begun
          \/ /\ pc = "ROLLBACK_TO" /\ flag /\ row
             /\ \E i \in DOMAIN marks' :
                   marks'[i].name = Top.name /\ marks'[i].data = goal']_vars
===============================================================================

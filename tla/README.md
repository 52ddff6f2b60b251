# Verification of go-sqlite3

go-sqlite3 runs SQLite, compiled to WebAssembly, inside a Go program. The Go code
around it does what a C program would get from the operating system or from SQLite's
own sources: it is SQLite's VFS (files and file locks), it hands memory to SQLite, it
interrupts a connection when a context is done, it wraps transactions, and it is a driver
for `database/sql`. This directory specifies those parts in TLA+, checks them with TLC on
small instances, and proves with TLAPS, for every instance, every invariant, action property
and refinement that a passing run checks.

## The system and what is modelled

| Part | Source | Module | Status |
|---|---|---|---|
| File locks, Unix | `vfs_lock.go`, `vfs_unix.go` | `VfsUnix`, `VfsFile`, `RollbackLock`, `LockStates`, `VfsUnixProofs` | modelled |
| File locks, Windows | `vfs_lock.go`, `vfs_windows.go` | `VfsWindows`, `VfsFile`, `RollbackLock`, `LockStates`, `VfsWindowsProofs` | modelled |
| Open files and file I/O | `vfs_files.go`, `vfs.go` | `FileTable`, `Files`, `FileTableProofs` | partly |
| Interruption | `conn.go`, `stmt.go` | `Interrupt`, `DriverProofs` | modelled |
| Savepoints | `conn.go` | `Savepoint`, `SavepointProofs` | modelled |
| Arena and module memory | `conn.go`, `mem.go`, `stmt.go` | `Arena`, `ArenaProofs` | partly |
| Driver: connections, transactions | `driver/driver.go` | `Driver`, `DriverProofs` | modelled |
| Driver: statements, values | `driver/` | `Statement`, `TimeFormat`, `ConnectionsProofs`, `TimeProofs` | modelled |
| Statements | `stmt.go` | `Statement`, `ConnectionsProofs` | partly |
| Time formats | `time.go` | `TimeFormat`, `Statement`, `TimeProofs` | modelled |
| Compilation, opening, closing | `compile.go`, `api.go`, `embed/`, `conn.go` | `Runtime`, `Connections`, `ConnectionsProofs` | modelled |
| Errors and constants | `error.go`, `const.go`, `blob.go` | | not modelled: no state |
| Clock, randomness, paths | `vfs.go` | | not modelled: pure I/O |

How the parts interact: SQLite calls the VFS for every file it opens (`FileTable`) and,
on the database file, for every change of lock level (`VfsUnix`, `VfsWindows`). A caller
of the Go API uses a connection: the arguments of each call are copied to the arena
(`Arena`), `SetInterrupt` arranges that a context ends the call (`Interrupt`), and
`Savepoint` brackets calls in a transaction and uses interruption itself (`Savepoint`).
The driver makes such calls for `database/sql`: `Driver` extends `Interrupt` with the
driver's calls, and `Connections` joins the opening and closing of connections (`Runtime`)
with the statements prepared on one of them (`Statement`, which extends `TimeFormat`).
Each module assumes of SQLite and of the operating system only what its actions marked
external in `PROJECT.json` say. SQLite is assumed to refuse values longer than its
`SQLITE_MAX_LENGTH`, which is below 2^32.

## The modules

**File locks.** `RollbackLock` is the abstract specification: five levels (`LockStates`),
each change of level one atomic step. `VfsFile` holds the state that both operating
systems share: `eLock` is the level in each connection's `go_file`, `os` the byte ranges
that the operating system has granted, `pc` the system call that a connection makes
next. `version` counts writes to the database file and `snap` is the version a connection
saw when it got SHARED; both are history that the properties use. A lock call is one step
per system call, because other connections run between two of them; `SetLock` only
touches memory of the connection and is part of the step before. `VfsUnix` has the calls
over open-file-description locks; `VfsWindows` those over `LockFileEx`, where a lock
cannot be converted, so that the SHARED range is unlocked for a moment, and where a test
of a range locks it. A process may crash between any two system calls, lock calls may
fail for other reasons than a conflict (`LockErrnos`), and on Unix unlock calls may fail
(`UnlockFails`). `HotJournals` lets a Windows connection go from SHARED to EXCLUSIVE
directly, which SQLite does when it plays back a journal; `VfsUnix` always allows it.

**Files.** `FileTable` has the table of open files (`vfsOpenFiles`), the id in each
`go_file`, the directory and the contents of files as short sequences of bytes, with one
action per VFS method. A file that was removed or replaced stays readable through the
handles that have it open. A module that is closed with files open abandons them.
`Files` is the abstract specification: a handle *is* its file, there are no slots.

**Interruption.** `Interrupt` has the goroutine that calls the connection, the waiter
goroutine of each context, and cancellation at any time. SQLite is its interrupt flag:
set by `sqlite3_interrupt`, cleared when a statement starts with none active. A channel
operation is one step of both goroutines. Contexts may replace each other directly, and
`SetInterrupt` may be called while a statement is on a row; `tame` is history, and tells
the properties whether the last `SetInterrupt` was called in neither of these ways.

**Driver.** `Driver` has a connection that either `database/sql` or a program uses (`api`).
A call of the driver is several steps, `fn` and `step`: it sets the caller's context (the
actions of `Interrupt`), runs SQL and puts the old context back. SQLite is its transaction
(`autocommit`, the data seen in `db` and committed in `disk`) and `query_only`; a
statement may be refused with BUSY. `late` and `stale` are history: was the context done,
and was SQLite's flag left set with a statement on a row, when the call began? The second
is what the interrupt of one call leaves to the next, and what the properties except.

**Statements and times.** `Statement` has one statement at a time, prepared by the driver,
with its tail, or by a program. Arguments are bound one by one, by number or by name with
three prefixes; rows are open several at once; `vdbe` is where SQLite's statement is and
`serr` is `s.err`. A program stores one time in a statement, in any format, and reads it
in the same format, in another one that should accept it, or with `TimeFormatAuto`, also
from a column that turned the number to text. `TimeFormat` has the conversions as operators.
Units of time are scaled by constants (`K` nanoseconds make a microsecond, and so on), and
a text is the record of its fields. Package `time` and `julianday` are external: `Parse` reads
years of four digits only, and `Format` writes an offset without its seconds, so that not every
time can be read from its text. `Encode` rounds a float to a multiple of `FloatStep`; its text
has 15 digits and may be off by one part in `Precision`; and `math.Floor` of its fraction may
lose a nanosecond. `Decode` is therefore a set of possible results, which is empty for an error.
The zone of a decoded number (local time) is left out.

**Connections.** `Runtime` has goroutines that open connections: `sync.Once` around the
compilation, whose input the program may set too late, the name and the instance of the
module in two steps, and every error path of `OpenFlags` and of the driver's `Open`.
`Connections` adds the statements of one connection and the BUSY of `Close`.

**Savepoints.** `Savepoint` has Go functions that nest, each with a deferred release, over
a model of SQLite's savepoint stack. Functions succeed, fail or panic; contexts are
cancelled and replaced; `BEGIN`, `COMMIT` and automatic rollbacks end transactions under them;
commits fail with BUSY (the transaction stays) or IOERR (it is rolled back). The program may
have a query on a row (`row`), which keeps SQLite's interrupt flag (`flag`, as in `Interrupt`)
when the error path replaces the context. `goal` is history: the data there should be if every
function that fails undoes its own work.

**Arena.** `Arena` has the bump allocator with words that wrap around, its separate
allocations, `writeString` with its panics, and failing allocations. `BindText` and
`BindBlob` allocate from the same memory (`newString`, `newBytes`) and give their block to
SQLite. `used` and `bound` are history: the ranges handed out since the last `reset`, and
those of the bound values.
The module allows requests in any order, as the arena's interface does; the callers in
`conn.go` make at most three per call.

Definitions whose comment begins "Mutant" or "What ... might do wrong" are deliberately
wrong variants of the definition that follows. No specification uses them; they show that
a property would notice the mistake. `PROJECT.json` pairs each with its property.

## What TLC checks

| Run | Shows |
|---|---|
| `VfsUnix` | `LocksAgree`, `ReadStability`, `Implements` (refines `RollbackLock`) and `WriterProgress`, with crashes |
| `VfsUnixFaults` | `TypeOK` and `LevelBacked` when lock and unlock calls fail |
| `VfsWindows` | `ReadStability`, `ReacquireSucceeds`, `Implements`, `WriterProgress` |
| `VfsWindowsFaults` | `OneWriter` with failing lock calls and hot journals |
| `VfsWindowsHotJournal` | violation of `NoneCoexists` (see below) |
| `Driver` | contexts, for a program and the driver: `OneWaiter`, `Sticky`, `OwnContext`, `SetInterruptReturns`, `CallEnds`; the driver: `Restored`, `RowsOpen`, `Honoured`; transactions: `TxEnds`, `AllOrNothing` |
| `DriverPanic` | violation of `DriverNoPanic` |
| `InterruptNested` | violation of `StickyInAnyOrder` |
| `Connections` | opening: `ConnectionsTypeOK`, `Instantiable`, `ModulesOwned`, `OpenReturns`, `NeverBusy`; statements: `Rewound`, `QueryBinds`, `NextFresh`; times: `Recovers`, `MaybeTime` |
| `FileTable` | `OwnSlot`, `TableTight`, `Implements` (refines `Files`) |
| `Savepoint` | `AsMeant`, `Settled`, `AlwaysRollback` |
| `Arena` | `TypeOK`, `ArgumentsApart`, `FreedOnce` |

Run one with `tlc -config VfsUnix.cfg MCVfsUnix`.

### Where code and comments disagree

- `VfsWindowsHotJournal`: two connections go from SHARED to EXCLUSIVE at once. Both
  release the range; one gets it; the other fails to get its read lock back, ignores
  that, and keeps level SHARED beside EXCLUSIVE (`vfs_windows.go:21`, `vfs_lock.go:44`).
- `InterruptNested`: when a context replaces another, the pending statement is reset and
  not stepped again, so a cancellation before the next statement is lost
  (`conn.go:231`, `conn.go:225`).
- `DriverPanic`: a query is interrupted while a row is open, so that SQLite keeps its flag;
  in the next `rows.Next` or `ExecContext`, `SetInterrupt` ignores that `Prepare` fails and
  steps a nil statement (`conn.go:228`).

More behaviours are in the models and have no run of their own:

- PENDING is tested and SHARED locked in two system calls, so a new SHARED lock can
  appear while PENDING is held (`vfs_lock.go:92`, comment at 39). `RollbackLock` allows
  it. It delays a writer and does not starve it (`WriterProgress`).
- SHARED to EXCLUSIVE takes no PENDING lock (`vfs_lock.go:118`, comment at 117).
- On Unix, if the unlock of a downgrade fails, the level stays EXCLUSIVE over a read
  lock (`vfs_unix.go:33`). `LevelBacked` therefore says nothing about EXCLUSIVE, and the
  theorems about reading and about the lock levels assume that unlock calls succeed.
- The release function of `Savepoint` panics after a commit that failed with IOERR (there
  is no savepoint left to roll back to), after two BUSY commits, then with the transaction
  open, and in a transaction that was begun after its own was ended. `AlwaysRollback` says
  that the data is as the function found it by then. It panics in one more case: "Always
  ROLLBACK even if the connection has been interrupted" (`conn.go:334`), but a query on a row
  keeps the flag, and ROLLBACK TO returns INTERRUPT. The work of the function is then not
  undone; `AlwaysRollback` says that the savepoint to go back to is still there. `AsMeant` and
  `Settled` say nothing of a connection after such a panic (`panicked`).
- Times whose year has not four digits cannot be read from a text, and offsets lose their
  seconds. `time.go:60` ("with nanosecond accuracy, and preserving any timezone offset") and
  `driver/time_test.go:49` ("any [time.Time] can be recovered as a [time.Time]") say
  otherwise; `Recovers` and `MaybeTime` state for which times they hold, and what happens to
  the others.
- With SQLite's flag left set (`stale`), calls of the driver are interrupted on behalf of an
  earlier one, and COMMIT and the ROLLBACK after it both fail.
- `query_only` is never reset (`driver.go:96`); a name without "?" has no `txBegin`, so that
  `BeginTx` begins nothing (`driver.go:29`); `stmt.ExecContext` ignores its context
  (`driver.go:208`). `AllOrNothing` excepts connections without a `txBegin`, and
  `Honoured` says nothing about `stmt.ExecContext`.
- The driver's `Open` leaves the connection open after an invalid parameter
  (`driver.go:40`, 56): the instances in `lost`.
- An error of the compilation is kept, also if `Binary` is set later (`compile.go:34`).
- Rows of one statement share its bindings and its error (`driver.go:267`); `NextFresh` is
  about the only rows open. An empty BLOB may be an error (`stmt.go:432`). `NumInput` panics
  for SQL without a statement (`driver.go:181`).
- A panic of `writeString` after `malloc` leaves a block that nobody frees (`conn.go:418`), and
  a module that is closed leaves the files that SQLite had open (`conn.go:42`).

### Bounds, and why they are enough

The theorems do without these bounds. They matter for liveness, and in that the invariants
were first found and refuted on these instances.

- Locks: three connections, so that a reader, a writer and a third that interferes
  exist at once; `MaxVersion = 1`, since one foreign write is enough for a snapshot to be
  stale. The hot-journal run needs two.
- `Driver`: two contexts (an old and a new one), two statements (one on a row while
  another is run), of which the driver has one; one write, which is reported, committed or
  undone; a connection with a `txBegin` and one without.
- `Connections`: two connections and three instances, so that a name could be used again;
  statements only while the first connection is alone, because its calls commute with the
  opening of others. Two rows, two arguments, and parameters without a name, with
  one name under two prefixes, and both. Times: `K = 2` and a year 9999 that ends after 16
  seconds; every time from before the first Julian day, and the year 0000, to after that
  year, in UTC and in zones to its east and west, two of which have an offset with seconds.
  `Precision = 100` makes the text of a float differ from it.
- `FileTable`: three `go_file`s, so that a slot between two others is emptied and
  reused; one name, since different names do not interact in the code; files of at most
  two bytes, so that reads are full, short and empty. `MaxFiles = 2` bounds how many
  files are created. The `VIEW` leaves out `ret`, which no action reads.
- `Savepoint`: two names and three active functions, so that equal names nest with another
  one between or beside them; three writes, one per depth. `UntilPanic` stops at the first
  panic of a release function, after which the properties say nothing.
- `Arena`: words of twelve values, each of them an address, so that every size up to and
  past the wrap is requested; an arena of five bytes that two cells do not fill exactly;
  three requests in a call, as many as the code makes; one bound value at a time.

Symmetry is used only in runs without liveness properties. `Driver`, `DriverPanic` and
`Connections` do not check deadlock: there a panic ends the program, a query may run for
ever, or all connections that the bound allows have been opened and closed.

### Fairness

- Locks: a connection inside a lock call goes on with it (the goroutine is scheduled and
  system calls return); a reader ends its transaction; a writer told BUSY while it holds
  PENDING asks again. The last two are SQLite's and the application's part (the busy
  handler), not the VFS's: `WriterProgress` is a promise to such users. On Windows ending
  a read is strongly fair, since a reader may test RESERVED in between.
- Interrupt and Driver: goroutines run, also those inside a call of the driver, and SQLite
  notices its flag. Nothing makes a query end by itself, and nothing makes a context be
  cancelled.
- Connections: a goroutine that opens a connection goes on; compiling and opening return.

## What is proved

Each `...Proofs` module extends its model and proves the theorems below for every value of
the constants that the `ASSUME`s of the model admit. `PROJECT.json` lists all of them. None
of the properties is inductive; each part says what the invariant adds and why.

**Unix locks** (`VfsUnixProofs`: any connections, any `MaxVersion`).

- `TypeCorrect`: types, also with failing unlock calls.
- If `UnlockFails = FALSE`, for any `LockErrnos`: `LocksCorrect`, `ReadsStable` and
  `ExclusiveIsAlone` (`LocksAgree`, `ReadStability`, `ExclusiveAlone` are invariants), and
  `Refinement` (`Spec => Implements`).
- With any failures: `LevelsBacked` and `OneUnixWriter` (`LevelBacked`, `OneWriter`).
- `NoNewReaders`, if nothing fails but for a conflict: while a connection stays at PENDING,
  nobody who has not yet passed the test of PENDING gets a lock on the SHARED range.

Whether `ReadStability` survives a write depends on the writer being the only one with a
lock on the SHARED range, which is a fact about `os`, while the write is guarded by `eLock`.
So `IInv` joins `TypeOK`, `LocksAgree`, `RangesExclusive` (the operating system grants no
conflicting locks) and `ReadStability`. For the refinement each step is shown to be a step of
`RollbackLock` or a stutter under `Held`, in which a downgrade takes effect with its first
system call. When unlock calls fail `LocksAgree` is false; `FaultInv` replaces it by
`LevelBacked` and the levels inside calls.

**Windows locks** (`VfsWindowsProofs`). Three invariants, each for fewer failures than the one
before: `WriterInv` gives `OneWindowsWriter` with any failures and hot journals; `PendingInv`,
which adds that whoever has had or wants the SHARED range for writing has PENDING, gives
`ReacquireUnopposed` and `NoNewReaders` without hot journals; `IInv`, which adds the agreement
of levels and locks, gives `ReadsStable` and `Refinement` when lock requests also fail for
conflicts only. The run `VfsWindowsHotJournal` shows that the assumption on hot journals is
needed.

**Files** (`FileTableProofs`: any `go_file`s, names, sizes). `SlotsOwned`, `TableStaysTight`,
and `TableImplementsFiles` (`Spec => Implements`). `TableInv` joins the two invariants with the
types and the file that a call of `vfsOpen` has in hand between opening it and choosing its
slot. The refinement maps a handle to the file in its slot; `OwnSlot` is why a step on one slot
leaves the other handles alone.

**Interruption** (`DriverProofs`: any contexts and statements). `OneGoroutine` (`OneWaiter`)
and `InterruptSticks` (`Sticky`). `ConnInv` adds `Handshake` (how far `SetInterrupt` and the
goroutine are in their exchange), `FlagKept` (the pending statement is on a row, so SQLite
keeps its flag) and `FlagOwn`. Two theorems are the safety halves of liveness properties:
`ExchangeNeverStuck` says that while `SetInterrupt` waits for the goroutine there is one that
will answer, and `CancellationReaches` that once the context is done the flag is set or the
goroutine is about to set it.

**Driver** (`DriverProofs`, from what is proved of the connection). `DriverImplementsInterrupt`: a step of the
driver is a step of the connection or leaves it alone, so that what holds of the connection
holds under the driver. `DriverOneGoroutine`, `ContextRestored`, `RowsReset` (`RowsOpen`),
`DoneContextHonoured`, `InterruptedForOwnContext`, `TransactionsEnd`, `TransactionsAtomic` are
the properties of the run, with the exceptions that the properties state. `DriverInv` relates
where the driver's call is to where the connection is (`Phases`), remembers a context that
was done from the start (`LateSeen`) and relates the driver's transaction, SQLite's, and what
the caller was told (`TxInv`). `RowsHeld` says in the middle of a call too whose row a
statement is on. `DriverCancellationReaches` extends `CancellationReaches` to
every call of the driver, also those that are not `tame`: rows that are open keep the flag.

**Opening, statements** (`ConnectionsProofs`) **and times** (`TimeProofs`).

- Any number of goroutines and instances: `OpensInstantiate` and `OpensOwn`, from `RuntimeInv`
  (one goroutine compiles; names come from the counter and differ). `OnceNeverStuck`: while
  goroutines wait in `s.once.Do`, one is compiling.
- Any parameters, arguments and number of rows: `ConnectionsTypeCorrect`, `DriverNeverBusy`,
  `StatementRewound`, `QueryContextBinds`, `NextMeetsNoOldError`, from `StmtInv`, whose
  `BoundSoFar` says what is bound in the middle of the arguments.
- `TimesRecovered` and `MaybeTimeFaithful`, from `TimesKept` (one time is stored and its
  encoding is bound, and only the program's own statement has one): for any instants and zones, any units of time, and
  any thresholds of `TimeFormatAuto` with `TimeAssumption`: units are positive, a float and
  its text tell two seconds apart, and the first number that is read as milliseconds stands for
  a later time than the last Julian day has as a number of seconds; zones are less than a day.
  The values in the code satisfy it. The proofs are by format, from lemmas about division and
  rounding, about what a text keeps of a time and how it is parsed, and about which formats
  `TimeFormatAuto` passes over.

**Savepoints** (`SavepointProofs`: any functions, depth and writes). `DataAsMeant`,
`NoSavepointLeft` and `AlwaysRolledBack`. The invariant is a correspondence between Go's
functions and SQLite's stack (`Matched`: there is an increasing map from the savepoints to
the functions that can still undo their work), with what is committed (`Durable`) and how far
the release function is (`Releasing`). It also finds the savepoint of a function whose
ROLLBACK TO is interrupted.

**Arena** (`ArenaProofs`: any word, memory, block and requests, `ArenaAssumption`).
`ArenaTypeCorrect`, `NoOverlap`, `BlocksFreedOnce`. `ArenaInv` says where each argument lies:
in the part of the block below `next`, or at the start of a block of its own. A request
that wraps the sum around is followed by a panic, which is why `next` bounds the arguments
only while there was none.

## What is only model-checked

The liveness properties, because the prover does not reason about fairness. For each the
safety fact that it rests on is proved:

| Liveness | Proved |
|---|---|
| `WriterProgress` (Unix, Windows) | `NoNewReaders` |
| `SetInterruptReturns` | `ExchangeNeverStuck` |
| `CallEnds` | `CancellationReaches`, `DriverCancellationReaches` |
| `OpenReturns` | `OnceNeverStuck` |

That a lock request, an open or a goroutine that is enabled does run is the fairness above.
The three violations are counterexamples that TLC finds.

## What is not modelled

SQLite itself, beyond what is said above; durability across a power loss; permissions, and
the READ and READWRITE tests of `vfsAccess`; temporary files on Windows, where
`DeleteOnClose` does nothing; the accessors of `mem.go` other than `writeString` and
`writeBytes`; the bindings of other values than integers and times, and the other column
functions, each of which is one call of a C function; `BindTime` on a statement that is not
ready, whose error it drops (`stmt.go:257`); the error of the last step that `Reset` and `Close`
return again (`stmt.go:45`, 33), which in `Interrupt` always return OK and which no property of
`Interrupt` or `Driver` uses; times whose nanoseconds overflow 64 bits; errors and constants,
which have no state.

## Plan

Temporary files on Windows.

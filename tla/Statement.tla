------------------------------- MODULE Statement ------------------------------
(***************************************************************************)
(* A prepared statement: Stmt (stmt.go) as the database/sql driver uses it *)
(* (driver/driver.go: Prepare, NumInput, ExecContext, QueryContext and the *)
(* rows), and times that are bound to and read from one (BindTime and      *)
(* ColumnTime).  Interruption is left to Driver; a step may fail for any   *)
(* reason.                                                                 *)
(*                                                                         *)
(* SQLite's statement is where it is (ready, on a row, or halted until it  *)
(* is reset) and what is bound.  database/sql makes one call at a time,    *)
(* may have several rows of a statement open, closes rows when Next        *)
(* returns an error or io.EOF, and closes the statement after its rows.    *)
(***************************************************************************)
EXTENDS TimeFormat

CONSTANTS
    Signatures,     \* the names of the parameters a statement may have
    Values,         \* integers to bind
    MaxArgs,        \* bound on the arguments of a call
    MaxRows,        \* bound on the rows that are open at once
    Ticks, Zones    \* the times to bind are between -Ticks and Ticks, the offsets
                    \* of time zones less than a day

ASSUME BoundsAssumption == MaxArgs \in Nat /\ MaxRows \in Nat

ASSUME InstantsAssumption ==
    Ticks \in Nat /\ Zones \subseteq {z \in Int : -DayLen < z /\ z < DayLen}

VARIABLES
    params,         \* the names of the statement's parameters
    stmt,           \* none; the driver's: nil or open; or used directly
    handles,        \* the statements of SQLite that are not finalized
    vdbe,           \* where SQLite's statement is: ready, row or halted
    bound,          \* the value of each parameter
    serr,           \* s.err
    rows,           \* how many rows are open
    ended,          \* how many of them must be closed
    scall,          \* the call being made: its name, position and arguments
    sret,           \* what the last call returned
    fault,          \* history: did a step, or a column, fail in this call?
    stored,         \* history: the time that is bound, and its format
    read            \* history: the format it was read with, and as what

svars == <<params, stmt, handles, vdbe, bound, serr, rows, ended, scall, sret, fault, stored, read>>
data == <<bound, stored, read>>

NULL == [kind |-> "null"]
Nothing == {}

Idle == [fn |-> "none", i |-> 0, args |-> <<>>]

Params == 1 .. Len(params)
AllNull == [p \in Params |-> NULL]

StmtInit ==
    /\ params = <<>>
    /\ stmt = "none" /\ handles = {} /\ vdbe = "ready"
    /\ bound = <<>>
    /\ serr = "nil" /\ rows = 0 /\ ended = 0
    /\ scall = Idle /\ sret = "nil" /\ fault = FALSE
    /\ stored = Nothing /\ read = Nothing

Return(r) == scall' = Idle /\ sret' = r

Calling(fn) == scall.fn = fn

\* The arguments that database/sql passes: named or not, numbered in order.
ArgLists == UNION {[1 .. n -> [name : {"unnamed", "a", "b"}, value : Values]] : n \in 0 .. MaxArgs}

-------------------------------------------------------------------------------
(* Prepare.  The SQL is an error, empty, or a statement; so is its tail. *)
Prepare(sql, tail, names) ==
    /\ Calling("none") /\ stmt = "none"
    /\ \/ sql = "error" /\ Return("error") /\ UNCHANGED <<stmt, handles, params, bound>>
       \/ sql = "empty" /\ Return("nil") /\ stmt' = "nil" /\ UNCHANGED <<handles, params, bound>>
       \/ /\ sql = "statement"
          /\ params' = names /\ bound' = [p \in 1 .. Len(names) |-> NULL]
          /\ handles' = {"stmt"}
          /\ IF tail = "none" THEN Return("nil") /\ stmt' = "open"
             ELSE /\ scall' = [fn |-> "tail", i |-> 0, args |-> <<tail>>]
                  /\ UNCHANGED <<stmt, sret>>
    /\ fault' = FALSE
    /\ UNCHANGED <<vdbe, serr, rows, ended, stored, read>>

\* Mutant: only the statement of the tail is closed.
PrepareTailKeep ==
    /\ Calling("tail")
    /\ \/ scall.args[1] = "error" /\ Return("error") /\ UNCHANGED <<stmt, handles>>
       \/ scall.args[1] = "empty" /\ Return("nil") /\ stmt' = "open" /\ UNCHANGED handles
       \/ scall.args[1] = "statement" /\ Return("tail") /\ UNCHANGED <<stmt, handles>>
    /\ UNCHANGED <<params, vdbe, serr, rows, ended, fault, data>>

\* A tail that is a statement is prepared only to be closed.
PrepareTail ==
    /\ Calling("tail")
    /\ \/ scall.args[1] = "error" /\ Return("error") /\ handles' = {} /\ UNCHANGED stmt
       \/ scall.args[1] = "empty" /\ Return("nil") /\ stmt' = "open" /\ UNCHANGED handles
       \/ scall.args[1] = "statement" /\ Return("tail") /\ handles' = {} /\ UNCHANGED stmt
    /\ UNCHANGED <<params, vdbe, serr, rows, ended, fault, data>>

\* It is safe to close a nil statement.
CloseStmt ==
    /\ Calling("none") /\ stmt # "none" /\ rows = 0
    /\ stmt' = "none" /\ handles' = {} /\ params' = <<>> /\ bound' = <<>>
    /\ vdbe' = "ready" /\ serr' = "nil"
    /\ fault' = FALSE /\ stored' = Nothing /\ read' = Nothing
    /\ Return("nil")
    /\ UNCHANGED <<rows, ended>>

-------------------------------------------------------------------------------
(* Bindings. *)
BindIndex(name) == {p \in Params : params[p] = name /\ \A q \in 1 .. p - 1 : params[q] # name}

\* The parameters that an argument stands for.
IDs(i, arg) ==
    IF arg.name = "unnamed" THEN {i}
    ELSE UNION {BindIndex(<<prefix, arg.name>>) : prefix \in {":", "@", "$"}}

\* database/sql counts the arguments unless a parameter has a name.
NumInput == IF \E p \in Params : params[p] # <<>> THEN -1 ELSE Len(params)

\* It is also called on a nil statement.
NumInputNil ==
    /\ Calling("none") /\ stmt = "nil"
    /\ Return("panic")
    /\ fault' = FALSE
    /\ UNCHANGED <<params, stmt, handles, vdbe, serr, rows, ended, data>>

\* Mutant: the bindings are not cleared.
QueryContextKeep(fn, args) ==
    /\ Calling("none") /\ stmt = "open"
    /\ NumInput \in {-1, Len(args)}
    /\ fn = "QueryContext" => rows < MaxRows
    /\ scall' = [fn |-> fn, i |-> 1, args |-> args]
    /\ fault' = FALSE
    /\ UNCHANGED <<params, stmt, handles, vdbe, serr, rows, ended, sret, data>>

\* QueryContext, or the call of it in ExecContext: ClearBindings, then the
\* arguments one by one.
QueryContext(fn, args) ==
    /\ Calling("none") /\ stmt = "open"
    /\ NumInput \in {-1, Len(args)}
    /\ fn = "QueryContext" => rows < MaxRows
    /\ bound' = AllNull
    /\ scall' = [fn |-> fn, i |-> 1, args |-> args]
    /\ fault' = FALSE
    /\ UNCHANGED <<params, stmt, handles, vdbe, serr, rows, ended, sret, stored, read>>

\* SQLite refuses to bind a parameter that does not exist (RANGE), or any while
\* the statement is not ready (MISUSE).
Bind ==
    /\ scall.fn \in {"QueryContext", "ExecContext"} /\ scall.i <= Len(scall.args)
    /\ LET arg == scall.args[scall.i]
           ids == IDs(scall.i, arg)
       IN IF ids # {} /\ (vdbe # "ready" \/ ~(ids \subseteq Params))
          THEN Return("error") /\ UNCHANGED bound
          ELSE /\ bound' = [p \in Params |-> IF p \in ids THEN Number("int", arg.value) ELSE bound[p]]
               /\ scall' = [scall EXCEPT !.i = @ + 1]
               /\ UNCHANGED sret
    /\ UNCHANGED <<params, stmt, handles, vdbe, serr, rows, ended, fault, stored, read>>

Queried ==
    /\ Calling("QueryContext") /\ scall.i > Len(scall.args)
    /\ rows' = rows + 1
    /\ Return("nil")
    /\ UNCHANGED <<params, stmt, handles, vdbe, serr, ended, fault, data>>

-------------------------------------------------------------------------------
(* Step, and the calls that use it.  SQLite resets a statement that is halted
   by itself before it runs it again. *)
\* Mutant: every result is an error.
StepRaw(outcome) ==
    /\ vdbe' = IF outcome = "ROW" THEN "row" ELSE "halted"
    /\ serr' = outcome

Step(outcome) ==
    /\ vdbe' = IF outcome = "ROW" THEN "row" ELSE "halted"
    /\ serr' = CASE outcome = "ROW" -> serr [] outcome = "DONE" -> "nil" [] outcome = "ERROR" -> "error"

\* Mutant: s.err stays.
ResetKeep == vdbe' = "ready" /\ UNCHANGED serr

Reset == vdbe' = "ready" /\ serr' = "nil"

\* Mutant: the statement is not reset when a step fails.
ExecUnlessError ==
    /\ Calling("ExecContext") /\ scall.i > Len(scall.args)
    /\ \/ Step("ROW") /\ UNCHANGED <<scall, sret>>
       \/ Reset /\ Return("nil")
       \/ Step("ERROR") /\ Return("error")
    /\ UNCHANGED <<params, stmt, handles, rows, ended, fault, data>>

\* Stmt.Exec: the last step, which returns no row, and the reset are one.
Exec ==
    /\ Calling("ExecContext") /\ scall.i > Len(scall.args)
    /\ \/ Step("ROW") /\ UNCHANGED <<scall, sret>>
       \/ Reset /\ \E r \in {"nil", "error"} : Return(r)
    /\ UNCHANGED <<params, stmt, handles, rows, ended, fault, data>>

\* For an empty BLOB ColumnBlob gets a null pointer; it then asks SQLite for the
\* error of the statement's handle, which is not the connection's.
ColumnBlob == serr' \in {"nil", "error"}

\* The row's columns are read; one may be empty.
Next(outcome, empty) ==
    /\ Calling("none") /\ rows > ended
    /\ \/ outcome = "ROW" /\ empty /\ vdbe' = "row" /\ ColumnBlob
       \/ ~(outcome = "ROW" /\ empty) /\ Step(outcome)
    /\ Return(IF outcome = "DONE" THEN "EOF" ELSE serr')
    /\ fault' = (outcome = "ERROR" \/ (outcome = "ROW" /\ empty))
    /\ ended' = IF sret' = "nil" THEN ended ELSE ended + 1
    /\ UNCHANGED <<params, stmt, handles, rows, data>>

rowsClose ==
    /\ Calling("none") /\ rows > 0
    /\ Reset
    /\ rows' = rows - 1
    /\ \/ ended > 0 /\ ended' = ended - 1
       \/ rows > ended /\ UNCHANGED ended
    /\ Return("nil")
    /\ fault' = FALSE
    /\ UNCHANGED <<params, stmt, handles, data>>

-------------------------------------------------------------------------------
(* The statement SELECT ?1 of a program that uses Stmt, to store a time and to
   read it.  One time is stored in each statement. *)
PrepareDirect ==
    /\ Calling("none") /\ stmt = "none"
    /\ stmt' = "direct" /\ handles' = {"stmt"}
    /\ params' = <<<<>>>> /\ bound' = <<NULL>>
    /\ Return("nil")
    /\ fault' = FALSE
    /\ UNCHANGED <<vdbe, serr, rows, ended, stored, read>>

Instants == [tick : -Ticks .. Ticks, zone : Zones]

Formats == TextFormats \cup NumericFormats \cup {RFC3339Nano, TimeFormatAuto}

BindTime(f, t) ==
    /\ stmt = "direct" /\ vdbe = "ready" /\ stored = Nothing
    /\ bound' = <<Encode(f, t)>>
    /\ stored' = {<<f, t>>}
    /\ UNCHANGED <<params, stmt, handles, vdbe, serr, rows, ended, scall, sret, fault, read>>

DirectStep ==
    /\ stmt = "direct"
    /\ \E outcome \in {"ROW", "DONE", "ERROR"} :
          /\ vdbe = "ready" => outcome # "DONE"
          /\ vdbe = "row" => outcome # "ROW"
          /\ Step(outcome)
    /\ read' = Nothing
    /\ UNCHANGED <<params, stmt, handles, bound, rows, ended, scall, sret, fault, stored>>

DirectReset ==
    /\ stmt = "direct"
    /\ Reset
    /\ read' = Nothing
    /\ UNCHANGED <<params, stmt, handles, bound, rows, ended, scall, sret, fault, stored>>

\* The value that was bound, or its text.
Column == {bound[1]} \cup Texts(bound[1])

ColumnTime(f, v) ==
    /\ stmt = "direct" /\ vdbe = "row" /\ stored # Nothing
    /\ read' = {<<f, v, Decode(f, v)>>}
    /\ serr' = IF Decode(f, v) = {} THEN "error" ELSE serr
    /\ UNCHANGED <<params, stmt, handles, vdbe, bound, rows, ended, scall, sret, fault, stored>>

\* The formats that a time of format f should be readable with.
Readers(f) == {f, TimeFormatAuto} \cup IF f \notin DateTimes \cup DayTimes THEN {}
                                       ELSE {g \in DateTimes \cup DayTimes :
                                                g.sep = f.sep /\ (g.digits = -1 <=> f.digits = -1)}

DriverStmt ==
    \/ \E sql \in {"error", "empty", "statement"}, tail \in {"none", "error", "empty", "statement"},
          names \in Signatures : Prepare(sql, tail, names)
    \/ PrepareTail \/ CloseStmt \/ NumInputNil \/ Bind \/ Queried \/ Exec \/ rowsClose
    \/ \E args \in ArgLists, fn \in {"QueryContext", "ExecContext"} : QueryContext(fn, args)
    \/ \E outcome \in {"ROW", "DONE", "ERROR"}, empty \in BOOLEAN : Next(outcome, empty)

DirectStmt ==
    \/ PrepareDirect \/ DirectStep \/ DirectReset \/ CloseStmt
    \/ stmt = "direct" /\ stored = Nothing /\ \E f \in Formats, t \in Instants : BindTime(f, t)
    \/ \E s \in stored : \E f \in Readers(s[1]), v \in Column : ColumnTime(f, v)
-------------------------------------------------------------------------------
\* The driver's comments: "Use QueryContext to setup bindings", and "No need to
\* close rows: that simply resets the statement, exec does the same".  Once all
\* rows of a statement are closed, whatever failed before, its next use starts
\* from the first row, can bind its arguments, and meets no old error.
Rewound == Calling("none") /\ stmt = "open" /\ rows = 0 => vdbe = "ready" /\ serr = "nil"

\* If QueryContext succeeds each parameter has the value of the last argument
\* that stands for it, by number or by name with any of the three prefixes, and
\* is NULL if there is none, whatever an earlier call has bound.
Bindings(args) ==
    [p \in Params |->
        LET given == {i \in DOMAIN args : p \in IDs(i, args[i])}
        IN IF given = {} THEN NULL
           ELSE Number("int", args[CHOOSE i \in given : \A j \in given : j <= i].value)]

QueryBinds ==
    scall.fn \in {"QueryContext", "ExecContext"} /\ scall.i > Len(scall.args)
        => bound = Bindings(scall.args)

\* rows.Next returns an error only if a step or a column failed in the same
\* call, unless other rows of the statement are open: s.err, which Step leaves
\* alone when there is a row, is not an old one.
NextFresh == [][Calling("none") /\ rows = 1 /\ rows' = 1 /\ scall' = Idle /\ sret' = "error"
                    => fault']_svars

-------------------------------------------------------------------------------
(* Times.  Every property is about the time that is stored, <<f, t>>, and what
   it is read as, <<format, column, decoded>>. *)
\* The offset in a text of format f.
ZoneOf(f, t) == IF f.tz THEN t.zone ELSE 0

\* What a text of format f keeps of a time.
Kept(f, t) ==
    LET zone == ZoneOf(f, t)
        local == t.tick + zone
        day == IF f.sep = "time" THEN Y2K ELSE local \div DayLen
        at == IF f.sep = "date" THEN 0 ELSE Cut(local % DayLen, Unit(f.digits))
    IN [tick |-> day * DayLen + at - zone, zone |-> zone]

\* Can the year be read?  Is the offset written in full?
YearKept(f, t) == f.sep = "time" \/ FourDigitYear((t.tick + ZoneOf(f, t)) \div DayLen)
ZoneKept(f, t) == Offset(ZoneOf(f, t)) = ZoneOf(f, t)

\* How many nanoseconds off the text of a float v may be.
TextLoss(f, v) == TextError(v) \div IF f = JulianDay THEN 1 ELSE Day

\* Is a time recovered to the precision of its format?
Recovered(f, t, column, decoded) ==
    CASE f \in {JulianDay, UnixFrac} ->
             LET loss == IF column.kind = "float" THEN 0 ELSE TextLoss(f, Encode(f, t).n)
             IN decoded # {} /\ \A u \in decoded :
                   2 * (u.tick - t.tick) \in -(FloatStep + 2 * loss + 4) .. FloatStep + 2 * loss
      [] f \in NumericFormats \ {JulianDay, UnixFrac} ->
             \E u \in decoded : decoded = {u} /\ u.tick = Cut(t.tick, Unit(f.digits))
      [] OTHER ->
             IF ~YearKept(f, t) THEN decoded = {}
             ELSE IF ZoneKept(f, t) THEN decoded = {Kept(f, t)}
             ELSE \E u \in decoded : /\ decoded = {u} /\ u # t
                                     /\ u.tick - Kept(f, t).tick \in -(Minute * Sec) .. Minute * Sec

\* TimeFormatAuto: "Julian day numbers are safe to use for historical dates,
\* from 4712BC through 9999AD."  Unix timestamps "are safe to use for current
\* events, from 1980 through at least 2260": from the first second that has no
\* fewer milliseconds than YearEnd has seconds.  The last second of 9999 may be
\* rounded up.
SafeForAuto(f, n) ==
    LET historical == FloatStep <= n + Epoch /\ n < (YearEnd - 1) * Sec
    IN f \in NumericFormats => historical /\ (f = JulianDay \/ YearEnd * Milli <= n)

\* Decode is the inverse of Encode, up to the precision of the format (time.go:
\* "with nanosecond accuracy, and preserving any timezone offset"), also with
\* another format (Readers): "The timezone indicator and fractional seconds are
\* always optional for formats TimeFormat2 through TimeFormat10", and
\* TimeFormatAuto recognizes every text, and the numbers that are safe.  A float
\* may be off by half the distance of two float64 values, what its text loses and
\* what math.Floor does.  Against the comment, a text is refused if the year has
\* not four digits, and is less than a minute off if the offset has seconds.
Recovers ==
    \A s \in stored, r \in read :
        (r[1] = TimeFormatAuto => SafeForAuto(s[1], s[2].tick))
            => Recovered(s[1], s[2], r[2], r[3])

\* driver/time.go: "times can be persisted to, and recovered from, the database,
\* but if a string is needed, database/sql will recover the same string".  Of the
\* texts of a time in any format, with the offset of UTC spelled out or not, the
\* one that RFC3339Nano writes for what it keeps becomes that time, and the others
\* stay texts: also one whose offset is spelled out, or whose fraction ends in
\* zeros.  Against time_test.go, "any time.Time can be recovered as a time.Time,
\* with nanosecond accuracy, and preserving any timezone offset", a time is not
\* recovered if its year has not four digits or its offset has seconds.
MaybeTime ==
    \A s \in stored : s[1] \in TextFormats \cup {RFC3339Nano} =>
        LET text == bound[1]
            spelled == [text EXCEPT !.tz = IF @ = "Z" THEN "offset" ELSE @]
            kept == Kept(s[1], s[2])
        IN IF YearKept(s[1], s[2]) /\ ZoneKept(s[1], s[2])
           THEN \A x \in {text, spelled} :
                   maybeTime(x) = IF x = Format(RFC3339Nano, kept) THEN {kept} ELSE {}
           ELSE s[2] \notin maybeTime(text)
===============================================================================

------------------------------ MODULE Connections -----------------------------
(***************************************************************************)
(* Connections of a process (Runtime), one of which, Main, has prepared    *)
(* statements (Statement): the driver's if the driver has opened it, or    *)
(* the program's own.  Close leaves a connection with unfinalized          *)
(* statements open.                                                        *)
(*                                                                         *)
(* Connections share the runtime and nothing else: the calls of one on its *)
(* statement commute with the calls that open and close the others.  The   *)
(* others are opened and closed while Main has no statement, and Main has  *)
(* one only as the first and only connection of the process.               *)
(***************************************************************************)
EXTENDS Runtime, Statement

CONSTANT Main

ASSUME MainAssumption == Main \in Conns

VARIABLE busy       \* did Close return BUSY, of Main?

cvars == <<rvars, svars, busy>>

Init == RuntimeInit /\ StmtInit /\ busy = FALSE

OpenOrClose(c) ==
    /\ c # Main => stmt = "none" /\ Calling("none")
    /\ \/ \E a \in {"OpenFlags", "Open"} : Open(c, a)
       \/ Opening(c)
       \/ Close(c) /\ (c = Main => handles = {} /\ stmt = "none")
    /\ busy' = FALSE
    /\ UNCHANGED svars

\* database/sql has closed its statements, and a program may not have.
CloseBusy ==
    /\ pc[Main] = "conn" /\ handles # {} /\ Calling("none")
    /\ api[Main] = "Open" => stmt = "none"
    /\ busy' = TRUE
    /\ UNCHANGED <<rvars, svars>>

Alone == instances = 1 /\ \A c \in Conns \ {Main} : pc[c] = "closed"

UseStatement ==
    /\ pc[Main] = "conn" /\ Alone
    /\ IF api[Main] = "Open" THEN DriverStmt ELSE DirectStmt
    /\ busy' = FALSE
    /\ UNCHANGED rvars

CNext ==
    \/ \E s \in Sources : Configure(s) /\ UNCHANGED <<svars, busy>>
    \/ \E c \in Conns : OpenOrClose(c)
    \/ CloseBusy \/ UseStatement

CSpec == Init /\ [][CNext]_cvars

\* Scheduling: goroutines that are opening a connection go on.
FairCSpec == CSpec /\ \A c \in Conns : WF_cvars(Opening(c) /\ busy' = FALSE /\ UNCHANGED svars)
-------------------------------------------------------------------------------
\* The types of the runtime's, the openers' and the statement's state.
ConnectionsTypeOK ==
    /\ source \in Sources /\ once \in {"new", "running", "done"}
    /\ err \in Sources \cup {"nil"} /\ compiled \in {"nil", "incomplete", "sqlite"}
    /\ lost \subseteq live /\ live \subseteq 1 .. instances
    /\ name \in [Conns -> 0 .. instances]
    /\ api \in [Conns -> {"OpenFlags", "Open"}]
    /\ pc \in [Conns -> {"closed", "once", "compile", "instances", "InstantiateModule",
                         "newConn", "open", "driver", "conn"}]
    /\ stmt \in {"none", "nil", "open", "direct"}
    /\ handles \subseteq {"stmt"}
    /\ vdbe \in {"ready", "row", "halted"} /\ serr \in {"nil", "error"}
    /\ ended \in 0 .. rows /\ rows \in 0 .. MaxRows
    /\ DOMAIN bound = Params
    /\ sret \in {"nil", "error", "tail", "EOF", "panic"}
    /\ busy \in BOOLEAN

\* Conn.Close: "If the database connection is associated with unfinalized
\* prepared statements [...] Close will leave the database connection open and
\* return BUSY".  That does not happen to database/sql, which closes the
\* statements it knows of: Prepare has not left it one that it does not.
NeverBusy == busy => api[Main] = "OpenFlags"
===============================================================================

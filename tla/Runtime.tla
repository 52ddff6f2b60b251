-------------------------------- MODULE Runtime -------------------------------
(***************************************************************************)
(* How connections come and go: OpenFlags and Conn.Close (conn.go), with   *)
(* the module that is compiled once and instantiated for each connection   *)
(* (compile.go), newConn (api.go) and the driver's Open (driver.go).       *)
(*                                                                         *)
(* Goroutines open connections concurrently.  The program, or package      *)
(* embed, provides the module before that, or too late.  wazero refuses an *)
(* instance whose name is taken, and may fail to compile or instantiate.   *)
(***************************************************************************)
EXTENDS Naturals, FiniteSets

CONSTANTS
    Conns,          \* connections, each opened by a goroutine of its own
    MaxInstances    \* bound on the instances ever made

VARIABLES
    source,         \* what Binary and Path provide: nothing, an unreadable
                    \* file, no module, a module without some export, SQLite
    once,           \* s.once: new, running or done
    err, compiled,  \* s.err, and what s.compiled was made from
    instances,      \* s.instances
    live,           \* the names of wazero's instances
    lost,           \* those that nobody can close any more
    pc, name, api   \* of each opener: where it is, the name of its instance, and
                    \* whether it calls OpenFlags or the driver's Open

rvars == <<source, once, err, compiled, instances, live, lost, pc, name, api>>

Sources == {"nothing", "unreadable", "invalid", "incomplete", "sqlite"}

RuntimeInit ==
    /\ source \in Sources
    /\ once = "new" /\ err = "nil" /\ compiled = "nil" /\ instances = 0
    /\ live = {} /\ lost = {}
    /\ pc = [c \in Conns |-> "closed"]
    /\ name = [c \in Conns |-> 0]
    /\ api = [c \in Conns |-> "OpenFlags"]

Goto(c, p) == pc' = [pc EXCEPT ![c] = p]

\* Open fails, or the connection is closed: no name is kept.
Closed(c) ==
    /\ Goto(c, "closed")
    /\ name' = [name EXCEPT ![c] = 0]
    /\ api' = [api EXCEPT ![c] = "OpenFlags"]

\* The program sets Binary or Path.  It is not read again once compiled.
Configure(s) ==
    /\ compiled = "nil"
    /\ source' = s
    /\ UNCHANGED <<once, err, compiled, instances, live, lost, pc, name, api>>

Open(c, a) ==
    /\ pc[c] = "closed"
    /\ instances < MaxInstances
    /\ Goto(c, "once")
    /\ api' = [api EXCEPT ![c] = a]
    /\ UNCHANGED <<source, once, err, compiled, instances, live, lost, name>>

-------------------------------------------------------------------------------
(* instantiateModule. *)
\* Mutant: those who come second do not wait.
OnceNoWait(c) ==
    /\ pc[c] = "once"
    /\ \/ once = "new" /\ once' = "running" /\ Goto(c, "compile") /\ UNCHANGED <<name, api>>
       \/ once # "new" /\ err = "nil" /\ Goto(c, "instances") /\ UNCHANGED <<once, name, api>>
       \/ once # "new" /\ err # "nil" /\ Closed(c) /\ UNCHANGED once
    /\ UNCHANGED <<source, err, compiled, instances, live, lost>>

\* s.once.Do, and the test of s.err: the first one compiles, the others wait.
Once(c) ==
    /\ pc[c] = "once"
    /\ \/ once = "new" /\ once' = "running" /\ Goto(c, "compile") /\ UNCHANGED <<name, api>>
       \/ once = "done" /\ err = "nil" /\ Goto(c, "instances") /\ UNCHANGED <<once, name, api>>
       \/ once = "done" /\ err # "nil" /\ Closed(c) /\ UNCHANGED once
    /\ UNCHANGED <<source, err, compiled, instances, live, lost>>

\* Mutant: an error leaves s.once running.
CompileStuck(c) ==
    /\ pc[c] = "compile"
    /\ IF source \in {"incomplete", "sqlite"}
       THEN compiled' = source /\ once' = "done" /\ Goto(c, "once") /\ UNCHANGED err
       ELSE err' = source /\ Goto(c, "closed") /\ UNCHANGED <<compiled, once>>
    /\ UNCHANGED <<source, instances, live, lost, name, api>>

\* Mutant: the errors of ReadFile and CompileModule are ignored.
CompileUnchecked(c) ==
    /\ pc[c] = "compile"
    /\ compiled' = source
    /\ once' = "done"
    /\ Goto(c, "once")
    /\ UNCHANGED <<source, err, instances, live, lost, name, api>>

compileModule(c) ==
    /\ pc[c] = "compile"
    /\ IF source \in {"incomplete", "sqlite"}
       THEN compiled' = source /\ UNCHANGED err
       ELSE err' = source /\ UNCHANGED compiled
    /\ once' = "done"
    /\ Goto(c, "once")
    /\ UNCHANGED <<source, instances, live, lost, name, api>>

\* Mutant: the instances are numbered by how many there are.
CountInstances(c) ==
    /\ pc[c] = "instances"
    /\ instances' = instances + 1
    /\ name' = [name EXCEPT ![c] = Cardinality(live) + 1]
    /\ Goto(c, "InstantiateModule")
    /\ UNCHANGED <<source, once, err, compiled, live, lost, api>>

\* s.instances.Add(1) makes the name.
AddInstance(c) ==
    /\ pc[c] = "instances"
    /\ instances' = instances + 1
    /\ name' = [name EXCEPT ![c] = instances + 1]
    /\ Goto(c, "InstantiateModule")
    /\ UNCHANGED <<source, once, err, compiled, live, lost, api>>

InstantiateModule(c) ==
    /\ pc[c] = "InstantiateModule"
    /\ \/ /\ name[c] \notin live
          /\ live' = live \cup {name[c]}
          /\ Goto(c, "newConn") /\ UNCHANGED <<name, api>>
       \/ Closed(c) /\ UNCHANGED live
    /\ UNCHANGED <<source, once, err, compiled, instances, lost>>

-------------------------------------------------------------------------------
(* The rest of OpenFlags, and of the driver's Open. *)
\* The deferred module.Close of OpenFlags, when it returns no connection.
CloseModule(c) ==
    /\ live' = live \ {name[c]}
    /\ Closed(c)

\* Mutant: the module is not closed.
newConnForgets(c) ==
    /\ pc[c] = "newConn"
    /\ IF compiled = "sqlite" THEN Goto(c, "open") /\ UNCHANGED <<live, name, api>>
                              ELSE Closed(c) /\ UNCHANGED live
    /\ UNCHANGED <<source, once, err, compiled, instances, lost>>

\* newConn looks the exports of the module up.
newConn(c) ==
    /\ pc[c] = "newConn"
    /\ IF compiled = "sqlite" THEN Goto(c, "open") /\ UNCHANGED <<live, name, api>>
                              ELSE CloseModule(c)
    /\ UNCHANGED <<source, once, err, compiled, instances, lost>>

\* newArena may panic for want of memory, and sqlite3_open may fail.
open(c) ==
    /\ pc[c] = "open"
    /\ \/ Goto(c, IF api[c] = "Open" THEN "driver" ELSE "conn") /\ UNCHANGED <<live, name, api>>
       \/ CloseModule(c)
    /\ UNCHANGED <<source, once, err, compiled, instances, lost>>

\* An invalid _txlock or _pragma is an error, and the connection stays open.
driverOpen(c) ==
    /\ pc[c] = "driver"
    /\ \/ Goto(c, "conn") /\ UNCHANGED <<lost, name, api>>
       \/ lost' = lost \cup {name[c]} /\ Closed(c)
    /\ UNCHANGED <<source, once, err, compiled, instances, live>>

\* Conn.Close, when sqlite3_close agrees.
Close(c) ==
    /\ pc[c] = "conn"
    /\ CloseModule(c)
    /\ UNCHANGED <<source, once, err, compiled, instances, lost>>

Opening(c) ==
    \/ Once(c) \/ compileModule(c) \/ AddInstance(c) \/ InstantiateModule(c)
    \/ newConn(c) \/ open(c) \/ driverOpen(c)
-------------------------------------------------------------------------------
\* Whoever is about to make an instance has a module that is compiled, by
\* whichever goroutine came first, and a name that nobody else has or will
\* take, in any order of concurrent opens and closes.
Instantiable ==
    \A c \in Conns : pc[c] = "InstantiateModule" =>
        /\ once = "done" /\ err = "nil" /\ compiled # "nil"
        /\ name[c] \notin live
        /\ \A d \in Conns \ {c} : name[d] # name[c]

\* Every instance belongs to a connection, or to a call that will return one or
\* close it: OpenFlags leaves none behind when it fails.  The driver's Open does,
\* after an invalid parameter.
ModulesOwned ==
    live = lost \cup {name[c] : c \in {d \in Conns :
                                        pc[d] \in {"newConn", "open", "driver", "conn"}}}

\* Every Open returns, also when the module could not be compiled.
OpenReturns ==
    \A c \in Conns : pc[c] = "once" ~> pc[c] \in {"closed", "conn"}
===============================================================================

--------------------------- MODULE ConnectionsProofs --------------------------
(***************************************************************************)
(* Proofs about Connections: the opening and closing of connections, for   *)
(* any number of them and of instances; and statements, for any arguments  *)
(* and any number of open rows.                                            *)
(***************************************************************************)
EXTENDS Connections, SequenceTheorems, TLAPS

\* Where an opener has an instance of its own, and where it has a name.
Owning == {"newConn", "open", "driver", "conn"}
Named == {"InstantiateModule"} \cup Owning

\* The values the state of the runtime takes.
RuntimeTypeOK ==
    /\ source \in Sources /\ once \in {"new", "running", "done"}
    /\ err \in Sources \cup {"nil"} /\ compiled \in {"nil", "incomplete", "sqlite"}
    /\ instances \in Nat
    /\ lost \subseteq live /\ live \subseteq 1 .. instances
    /\ name \in [Conns -> 0 .. instances]
    /\ api \in [Conns -> {"OpenFlags", "Open"}]
    /\ pc \in [Conns -> {"closed", "once", "compile", "instances"} \cup Named]

\* One goroutine compiles, the module is compiled unless there is an error, and
\* nobody is past s.once.Do before.
CompiledOnce ==
    /\ \A c \in Conns : pc[c] = "compile" => once = "running" /\ \A d \in Conns \ {c} : pc[d] # "compile"
    /\ once # "done" => err = "nil" /\ compiled = "nil"
    /\ once = "done" /\ err = "nil" => compiled # "nil"
    /\ \A c \in Conns : pc[c] \in {"instances"} \cup Named => once = "done" /\ err = "nil"

\* Names are taken from the counter, are not shared, and an instance exists
\* from the time it is made until it is closed.
NamesDiffer ==
    /\ \A c \in Conns : IF pc[c] \in Named THEN name[c] \in 1 .. instances \ lost ELSE name[c] = 0
    /\ \A c, d \in Conns : c # d /\ pc[c] \in Named => name[c] # name[d]
    /\ \A c \in Conns : pc[c] = "InstantiateModule" => name[c] \notin live

\* The inductive invariant of the runtime.
RuntimeInv == RuntimeTypeOK /\ CompiledOnce /\ NamesDiffer /\ ModulesOwned

\* Initially nobody has a connection.
LEMMA InitRuntimeInv == RuntimeInit => RuntimeInv
<1> SUFFICES ASSUME RuntimeInit PROVE RuntimeInv
  OBVIOUS
<1> USE DEF RuntimeInit, Named, Owning
<1>1. RuntimeTypeOK
  BY DEF RuntimeTypeOK
<1>2. CompiledOnce /\ NamesDiffer
  BY DEF CompiledOnce, NamesDiffer
<1>3. ModulesOwned
  BY DEF ModulesOwned
<1> QED
  BY <1>1, <1>2, <1>3 DEF RuntimeInv

\* Every step of an opener preserves the invariant.
LEMMA NextRuntimeInv == ASSUME RuntimeInv, [CNext]_cvars PROVE RuntimeInv'
<1> USE DEF Goto, Closed, CloseModule, Named, Owning
<1>1. ASSUME NEW c \in Conns, NEW a \in {"OpenFlags", "Open"}, Open(c, a) PROVE RuntimeInv'
  <2> USE <1>1 DEF RuntimeInv, Open
  <2>1. RuntimeTypeOK'
    BY DEF RuntimeTypeOK
  <2>2. CompiledOnce'
    BY DEF RuntimeTypeOK, CompiledOnce
  <2>3. NamesDiffer'
    BY DEF RuntimeTypeOK, NamesDiffer, ModulesOwned
  <2>4. ModulesOwned'
    BY DEF RuntimeTypeOK, NamesDiffer, ModulesOwned
  <2> QED
    BY <2>1, <2>2, <2>3, <2>4
<1>2. ASSUME NEW c \in Conns, Once(c) PROVE RuntimeInv'
  <2> USE <1>2 DEF RuntimeInv, Once
  <2>1. RuntimeTypeOK'
    BY DEF RuntimeTypeOK
  <2>2. CompiledOnce'
    BY DEF RuntimeTypeOK, CompiledOnce
  <2>3. NamesDiffer'
    BY DEF RuntimeTypeOK, NamesDiffer, ModulesOwned
  <2>4. ModulesOwned'
    BY DEF RuntimeTypeOK, NamesDiffer, ModulesOwned
  <2> QED
    BY <2>1, <2>2, <2>3, <2>4
<1>3. ASSUME NEW c \in Conns, compileModule(c) PROVE RuntimeInv'
  <2> USE <1>3 DEF RuntimeInv, compileModule
  <2>1. RuntimeTypeOK'
    BY DEF RuntimeTypeOK, Sources
  <2>2. CompiledOnce'
    BY DEF RuntimeTypeOK, CompiledOnce, Sources
  <2>3. NamesDiffer'
    BY DEF RuntimeTypeOK, NamesDiffer, ModulesOwned
  <2>4. ModulesOwned'
    BY DEF RuntimeTypeOK, NamesDiffer, ModulesOwned
  <2> QED
    BY <2>1, <2>2, <2>3, <2>4
<1>4. ASSUME NEW c \in Conns, AddInstance(c) PROVE RuntimeInv'
  <2> USE <1>4 DEF RuntimeInv, AddInstance
  <2>1. RuntimeTypeOK'
    BY DEF RuntimeTypeOK
  <2>2. CompiledOnce'
    BY DEF RuntimeTypeOK, CompiledOnce
  <2>3. NamesDiffer'
    BY DEF RuntimeTypeOK, NamesDiffer, ModulesOwned
  <2>4. ModulesOwned'
    BY DEF RuntimeTypeOK, NamesDiffer, ModulesOwned
  <2> QED
    BY <2>1, <2>2, <2>3, <2>4
<1>5. ASSUME NEW c \in Conns, InstantiateModule(c) PROVE RuntimeInv'
  <2> USE <1>5 DEF RuntimeInv, InstantiateModule
  <2>1. RuntimeTypeOK'
    BY DEF RuntimeTypeOK, NamesDiffer, ModulesOwned
  <2>2. CompiledOnce'
    BY DEF RuntimeTypeOK, CompiledOnce
  <2>3. NamesDiffer'
    BY DEF RuntimeTypeOK, NamesDiffer, ModulesOwned
  <2>4. ModulesOwned'
    BY DEF RuntimeTypeOK, NamesDiffer, ModulesOwned
  <2> QED
    BY <2>1, <2>2, <2>3, <2>4
<1>6. ASSUME NEW c \in Conns, newConn(c) PROVE RuntimeInv'
  <2> USE <1>6 DEF RuntimeInv, newConn
  <2>1. RuntimeTypeOK'
    BY DEF RuntimeTypeOK, NamesDiffer, ModulesOwned
  <2>2. CompiledOnce'
    BY DEF RuntimeTypeOK, CompiledOnce
  <2>3. NamesDiffer'
    BY DEF RuntimeTypeOK, NamesDiffer, ModulesOwned
  <2>4. ModulesOwned'
    BY DEF RuntimeTypeOK, NamesDiffer, ModulesOwned
  <2> QED
    BY <2>1, <2>2, <2>3, <2>4
<1>7. ASSUME NEW c \in Conns, open(c) PROVE RuntimeInv'
  <2> USE <1>7 DEF RuntimeInv, open
  <2>1. RuntimeTypeOK'
    BY DEF RuntimeTypeOK, NamesDiffer, ModulesOwned
  <2>2. CompiledOnce'
    BY DEF RuntimeTypeOK, CompiledOnce
  <2>3. NamesDiffer'
    BY DEF RuntimeTypeOK, NamesDiffer, ModulesOwned
  <2>4. ModulesOwned'
    BY DEF RuntimeTypeOK, NamesDiffer, ModulesOwned
  <2> QED
    BY <2>1, <2>2, <2>3, <2>4
<1>8. ASSUME NEW c \in Conns, driverOpen(c) PROVE RuntimeInv'
  <2> USE <1>8 DEF RuntimeInv, driverOpen
  <2>1. RuntimeTypeOK'
    BY DEF RuntimeTypeOK, NamesDiffer, ModulesOwned
  <2>2. CompiledOnce'
    BY DEF RuntimeTypeOK, CompiledOnce
  <2>3. NamesDiffer'
    BY DEF RuntimeTypeOK, NamesDiffer, ModulesOwned
  <2>4. ModulesOwned'
    BY DEF RuntimeTypeOK, NamesDiffer, ModulesOwned
  <2> QED
    BY <2>1, <2>2, <2>3, <2>4
<1>9. ASSUME NEW c \in Conns, Close(c) PROVE RuntimeInv'
  <2> USE <1>9 DEF RuntimeInv, Close
  <2>1. RuntimeTypeOK'
    BY DEF RuntimeTypeOK, NamesDiffer, ModulesOwned
  <2>2. CompiledOnce'
    BY DEF RuntimeTypeOK, CompiledOnce
  <2>3. NamesDiffer'
    BY DEF RuntimeTypeOK, NamesDiffer, ModulesOwned
  <2>4. ModulesOwned'
    BY DEF RuntimeTypeOK, NamesDiffer, ModulesOwned
  <2> QED
    BY <2>1, <2>2, <2>3, <2>4
<1>10. ASSUME NEW s \in Sources, Configure(s) PROVE RuntimeInv'
  <2> USE <1>10 DEF RuntimeInv, Configure
  <2>1. RuntimeTypeOK'
    BY DEF RuntimeTypeOK
  <2>2. CompiledOnce'
    BY DEF RuntimeTypeOK, CompiledOnce
  <2>3. NamesDiffer'
    BY DEF RuntimeTypeOK, NamesDiffer, ModulesOwned
  <2>4. ModulesOwned'
    BY DEF RuntimeTypeOK, NamesDiffer, ModulesOwned
  <2> QED
    BY <2>1, <2>2, <2>3, <2>4
<1>11. CASE UNCHANGED rvars
  BY <1>11 DEF rvars, RuntimeInv, RuntimeTypeOK, CompiledOnce, NamesDiffer, ModulesOwned
<1> QED
  BY <1>1, <1>2, <1>3, <1>4, <1>5, <1>6, <1>7, <1>8, <1>9, <1>10, <1>11
  DEF CNext, cvars, OpenOrClose, Opening, CloseBusy, UseStatement

\* In any order of opens and closes, whoever is about to instantiate the module
\* (compile.go, instantiateModule) has one that is compiled, and a name of its own.
THEOREM OpensInstantiate == CSpec => []Instantiable
<1>1. CSpec => []RuntimeInv
  BY InitRuntimeInv, NextRuntimeInv, PTL DEF CSpec, Init
<1>2. RuntimeInv => Instantiable
  BY DEF RuntimeInv, RuntimeTypeOK, CompiledOnce, NamesDiffer, Instantiable, Named, Owning
<1> QED
  BY <1>1, <1>2, PTL

\* OpenFlags closes the module (conn.go) whenever it returns no connection: only
\* the driver's Open loses instances, those of `lost'.
THEOREM OpensOwn == CSpec => []ModulesOwned
<1>1. CSpec => []RuntimeInv
  BY InitRuntimeInv, NextRuntimeInv, PTL DEF CSpec, Init
<1> QED
  BY <1>1, PTL DEF RuntimeInv

\* Whoever waits in s.once.Do waits for a goroutine that is compiling.
OnceServed == once = "running" => \E d \in Conns : pc[d] = "compile"

\* Only the goroutine that compiles ends its compilation, and s.once with it.
LEMMA NextOnceServed == ASSUME RuntimeInv, OnceServed, [CNext]_cvars PROVE OnceServed'
<1>1. pc \in [Conns -> {"closed", "once", "compile", "instances"} \cup Named]
  BY DEF RuntimeInv, RuntimeTypeOK
<1> USE <1>1 DEF OnceServed, Goto, Closed, CloseModule
<1>2. ASSUME NEW c \in Conns, NEW a \in {"OpenFlags", "Open"}, Open(c, a) PROVE OnceServed'
  BY <1>2 DEF Open
<1>3. ASSUME NEW c \in Conns, Once(c) PROVE OnceServed'
  BY <1>3 DEF Once
<1>4. ASSUME NEW c \in Conns, compileModule(c) PROVE OnceServed'
  BY <1>4 DEF compileModule
<1>5. ASSUME NEW c \in Conns, AddInstance(c) PROVE OnceServed'
  BY <1>5 DEF AddInstance
<1>6. ASSUME NEW c \in Conns, InstantiateModule(c) PROVE OnceServed'
  BY <1>6 DEF InstantiateModule
<1>7. ASSUME NEW c \in Conns, newConn(c) PROVE OnceServed'
  BY <1>7 DEF newConn
<1>8. ASSUME NEW c \in Conns, open(c) PROVE OnceServed'
  BY <1>8 DEF open
<1>9. ASSUME NEW c \in Conns, driverOpen(c) PROVE OnceServed'
  BY <1>9 DEF driverOpen
<1>10. ASSUME NEW c \in Conns, Close(c) PROVE OnceServed'
  BY <1>10 DEF Close
<1>11. ASSUME NEW s \in Sources, Configure(s) PROVE OnceServed'
  BY <1>11 DEF Configure
<1>12. CASE UNCHANGED rvars
  BY <1>12 DEF rvars
<1> HIDE <1>1 DEF OnceServed, Goto, Closed, CloseModule
<1> QED
  BY <1>2, <1>3, <1>4, <1>5, <1>6, <1>7, <1>8, <1>9, <1>10, <1>11, <1>12
  DEF CNext, cvars, OpenOrClose, Opening, CloseBusy, UseStatement

\* No goroutine waits for ever in s.once.Do (compile.go): as long as the others
\* have to wait there is one that compiles, also if it will fail.  With the
\* scheduling that FairCSpec assumes this is why every Open returns.
THEOREM OnceNeverStuck == CSpec => []OnceServed
<1>1. CSpec => []RuntimeInv
  BY InitRuntimeInv, NextRuntimeInv, PTL DEF CSpec, Init
<1>2. Init => OnceServed
  BY DEF Init, RuntimeInit, OnceServed
<1> QED
  BY <1>1, <1>2, NextOnceServed, PTL DEF CSpec

-------------------------------------------------------------------------------
(* The statement. *)
\* The arguments of a call.
Args == [name : {"unnamed", "a", "b"}, value : Values]

\* The driver is inside a call that binds arguments.
Binding == scall.fn \in {"QueryContext", "ExecContext"}

\* All arguments are bound and the statement is run.
Stepping == Calling("ExecContext") /\ scall.i > Len(scall.args)

\* The values the state of the statement takes.
StmtTypeOK ==
    /\ stmt \in {"none", "nil", "open", "direct"}
    /\ vdbe \in {"ready", "row", "halted"} /\ serr \in {"nil", "error"}
    /\ rows \in 0 .. MaxRows /\ ended \in 0 .. rows
    /\ bound = [p \in Params |-> bound[p]]
    /\ sret \in {"nil", "error", "tail", "EOF", "panic"}
    /\ scall = [fn |-> scall.fn, i |-> scall.i, args |-> scall.args]
    /\ scall.fn \in {"none", "tail", "QueryContext", "ExecContext"}
    /\ Calling("tail") => scall.args[1] \in {"error", "empty", "statement"}
    /\ Binding => scall.i \in Nat \ {0} /\ scall.args \in Seq(Args)

\* What of SQLite's statement goes with which of the driver's, and what is left
\* of an error.
StmtAgrees ==
    /\ handles = IF stmt \in {"open", "direct"} \/ Calling("tail") THEN {"stmt"} ELSE {}
    /\ Calling("tail") => stmt = "none"
    /\ Binding => stmt = "open" /\ scall.i <= Len(scall.args) + 1
    /\ Calling("QueryContext") => rows < MaxRows
    /\ rows > 0 => stmt = "open"
    /\ stmt = "direct" => Len(params) = 1
    /\ stmt # "direct" /\ rows <= 1 /\ ended = 0 => serr = "nil"
    /\ stmt # "direct" /\ rows = 0 /\ ~Stepping => vdbe = "ready"

\* The arguments before the ith that stand for a parameter.
Given(p, i) == {j \in 1 .. i - 1 : p \in IDs(j, scall.args[j])}

\* They are bound, the last one of each parameter.
BoundSoFar ==
    Binding => \A p \in Params :
        \/ Given(p, scall.i) = {} /\ bound[p] = NULL
        \/ \E j \in Given(p, scall.i) :
              /\ \A k \in Given(p, scall.i) : k <= j
              /\ bound[p] = Number("int", scall.args[j].value)

\* Only a connection has a statement, and the program's is not the driver's.
StmtOwned ==
    /\ stmt # "none" \/ ~Calling("none") => pc[Main] = "conn"
    /\ stmt \in {"nil", "open"} \/ ~Calling("none") => api[Main] = "Open"
    /\ stmt = "direct" => api[Main] = "OpenFlags"

\* The inductive invariant of the statement.
StmtInv == StmtTypeOK /\ StmtAgrees /\ BoundSoFar /\ StmtOwned

\* The arguments of a call are a sequence.
LEMMA ArgListsSeq == ASSUME NEW args \in ArgLists PROVE args \in Seq(Args)
<1>1. PICK n \in 0 .. MaxArgs : args \in [1 .. n -> Args]
  BY DEF ArgLists, Args
<1>2. n \in Nat
  BY BoundsAssumption
<1> QED
  BY <1>1, <1>2

\* The parameters that an argument stands for are a matter of their names.
LEMMA SameIDs == ASSUME UNCHANGED params PROVE \A i, arg : IDs(i, arg)' = IDs(i, arg)
BY DEF IDs, BindIndex, Params

\* A call that goes on with the same bindings keeps them, and none is left of a
\* call that returns.
LEMMA SameBindings ==
    ASSUME BoundSoFar, UNCHANGED <<params, bound, scall>> \/ scall'.fn \in {"none", "tail"}
    PROVE  BoundSoFar'
<1>1. CASE scall'.fn \in {"none", "tail"}
  BY <1>1 DEF BoundSoFar, Binding
<1>2. CASE UNCHANGED <<params, bound, scall>>
  <2>1. \A p : Given(p, scall.i)' = Given(p, scall.i)
    BY <1>2, SameIDs DEF Given
  <2> QED
    BY <1>2, <2>1 DEF BoundSoFar, Binding, Params
<1> QED
  BY <1>1, <1>2

\* Every step of a statement preserves what is known of it.
LEMMA UseStatementInv == ASSUME RuntimeTypeOK, StmtInv, UseStatement PROVE StmtInv'
<1> USE BoundsAssumption, MainAssumption DEF StmtInv, Calling, Return, Idle, Params, data
<1> /\ pc[Main] = "conn" /\ UNCHANGED <<pc, api>>
    /\ api[Main] \in {"OpenFlags", "Open"}
  BY DEF UseStatement, rvars, RuntimeTypeOK
<1>1. ASSUME NEW sql \in {"error", "empty", "statement"}, NEW tail \in {"none", "error", "empty", "statement"},
       NEW names \in Signatures, Prepare(sql, tail, names), api[Main] = "Open"
     PROVE  StmtInv'
  <2> USE <1>1 DEF Prepare
  <2>1. StmtTypeOK'
    BY DEF StmtTypeOK, StmtAgrees, StmtOwned, Binding, Stepping
  <2>2. StmtAgrees'
    BY DEF StmtTypeOK, StmtAgrees, StmtOwned, Binding, Stepping
  <2>3. BoundSoFar'
    BY SameBindings
  <2>4. StmtOwned'
    BY DEF StmtTypeOK, StmtAgrees, StmtOwned, Binding
  <2> QED
    BY <2>1, <2>2, <2>3, <2>4
<1>2. ASSUME PrepareTail, api[Main] = "Open"
     PROVE  StmtInv'
  <2> USE <1>2 DEF PrepareTail
  <2>1. StmtTypeOK'
    BY DEF StmtTypeOK, StmtAgrees, StmtOwned, Binding, Stepping
  <2>2. StmtAgrees'
    BY DEF StmtTypeOK, StmtAgrees, StmtOwned, Binding, Stepping
  <2>3. BoundSoFar'
    BY SameBindings
  <2>4. StmtOwned'
    BY DEF StmtTypeOK, StmtAgrees, StmtOwned, Binding
  <2> QED
    BY <2>1, <2>2, <2>3, <2>4
<1>3. ASSUME CloseStmt
     PROVE  StmtInv'
  <2> USE <1>3 DEF CloseStmt
  <2>1. StmtTypeOK'
    BY DEF StmtTypeOK, StmtAgrees, StmtOwned, Binding, Stepping
  <2>2. StmtAgrees'
    BY DEF StmtTypeOK, StmtAgrees, StmtOwned, Binding, Stepping
  <2>3. BoundSoFar'
    BY SameBindings
  <2>4. StmtOwned'
    BY DEF StmtTypeOK, StmtAgrees, StmtOwned, Binding
  <2> QED
    BY <2>1, <2>2, <2>3, <2>4
<1>4. ASSUME NumInputNil, api[Main] = "Open"
     PROVE  StmtInv'
  <2> USE <1>4 DEF NumInputNil
  <2>1. StmtTypeOK'
    BY DEF StmtTypeOK, StmtAgrees, StmtOwned, Binding, Stepping
  <2>2. StmtAgrees'
    BY DEF StmtTypeOK, StmtAgrees, StmtOwned, Binding, Stepping
  <2>3. BoundSoFar'
    BY SameBindings
  <2>4. StmtOwned'
    BY DEF StmtTypeOK, StmtAgrees, StmtOwned, Binding
  <2> QED
    BY <2>1, <2>2, <2>3, <2>4
<1>5. ASSUME NEW args \in ArgLists, NEW fn \in {"QueryContext", "ExecContext"}, QueryContext(fn, args),
       api[Main] = "Open"
     PROVE  StmtInv'
  <2> USE <1>5 DEF QueryContext
  <2>1. StmtTypeOK'
    BY ArgListsSeq DEF StmtTypeOK, StmtAgrees, StmtOwned, Binding, Stepping, AllNull
  <2>2. StmtAgrees'
    BY ArgListsSeq DEF StmtTypeOK, StmtAgrees, StmtOwned, Binding, Stepping
  <2>3. BoundSoFar'
    BY ArgListsSeq DEF StmtTypeOK, StmtAgrees, BoundSoFar, Binding, Given, IDs, BindIndex, AllNull
  <2>4. StmtOwned'
    BY DEF StmtTypeOK, StmtAgrees, StmtOwned, Binding
  <2> QED
    BY <2>1, <2>2, <2>3, <2>4
<1>6. ASSUME Bind, api[Main] = "Open"
     PROVE  StmtInv'
  <2> DEFINE i == scall.i
             args == scall.args
             ids == IDs(i, args[i])
  <2>1. /\ Binding /\ i <= Len(args)
        /\ UNCHANGED <<params, stmt, handles, vdbe, serr, rows, ended>>
        /\ \/ scall' = Idle /\ sret' = "error" /\ UNCHANGED bound
           \/ /\ scall' = [scall EXCEPT !.i = @ + 1] /\ UNCHANGED sret
              /\ bound' = [p \in Params |-> IF p \in ids THEN Number("int", args[i].value) ELSE bound[p]]
    BY <1>6 DEF Bind, Binding
  <2>2. /\ i \in Nat \ {0} /\ args \in Seq(Args) /\ Len(args) \in Nat
        /\ scall = [fn |-> scall.fn, i |-> i, args |-> args]
        /\ stmt = "open"
    BY <2>1 DEF StmtTypeOK, StmtAgrees
  <2>3. CASE scall' = Idle /\ sret' = "error" /\ UNCHANGED bound
    <3>1. scall'.fn = "none" /\ scall'.args = <<>> /\ scall'.i = 0
      BY <2>3
    <3>2. StmtTypeOK'
      BY <2>1, <2>3, <3>1 DEF StmtTypeOK, Binding
    <3>3. StmtAgrees'
      BY <2>1, <2>2, <3>1 DEF StmtTypeOK, StmtAgrees, Binding, Stepping
    <3>4. BoundSoFar'
      BY <3>1, SameBindings
    <3>5. StmtOwned'
      BY <1>6, <2>1, <3>1 DEF StmtOwned
    <3> QED
      BY <3>2, <3>3, <3>4, <3>5
  <2>4. CASE /\ scall' = [scall EXCEPT !.i = @ + 1] /\ UNCHANGED sret
             /\ bound' = [p \in Params |-> IF p \in ids THEN Number("int", args[i].value) ELSE bound[p]]
    <3>1. /\ scall' = [fn |-> scall.fn, i |-> i + 1, args |-> args]
          /\ scall'.fn = scall.fn /\ scall'.args = args /\ scall'.i = i + 1 /\ Params' = Params
      BY <2>1, <2>2, <2>4
    <3>2. StmtTypeOK'
      <4>1. bound' = [p \in Params' |-> bound'[p]]
        BY <2>4, <3>1
      <4>2. /\ scall'.i \in Nat \ {0} /\ scall'.args \in Seq(Args)
            /\ scall'.fn \in {"QueryContext", "ExecContext"}
            /\ scall' = [fn |-> scall'.fn, i |-> scall'.i, args |-> scall'.args]
        BY <2>1, <2>2, <3>1 DEF Binding
      <4> QED
        BY <2>1, <2>4, <4>1, <4>2 DEF StmtTypeOK
    <3>3. StmtAgrees'
      <4>1. /\ scall'.i <= Len(scall'.args) + 1 /\ ~Calling("tail")
            /\ Calling("QueryContext")' <=> Calling("QueryContext")
        BY <2>1, <2>2, <3>1 DEF Binding
      <4>2. Stepping' \/ ~Stepping
        BY <2>1, <2>2 DEF Stepping
      <4> QED
        BY <2>1, <2>2, <3>1, <4>1, <4>2 DEF StmtAgrees, Binding
    <3>4. BoundSoFar'
      <4>1. \A p : Given(p, scall.i)' = {j \in 1 .. i : p \in IDs(j, args[j])}
        <5>1. scall'.i - 1 = i
          BY <2>2, <3>1
        <5> QED
          BY <2>1, <3>1, <5>1, SameIDs DEF Given
      <4>2. ASSUME NEW p \in Params, p \in ids
            PROVE  /\ i \in Given(p, scall.i)' /\ \A k \in Given(p, scall.i)' : k <= i
                   /\ bound'[p] = Number("int", scall'.args[i].value)
        <5>1. i \in 1 .. i /\ \A k \in 1 .. i : k <= i
          BY <2>2
        <5> QED
          BY <2>4, <3>1, <4>1, <4>2, <5>1
      <4>3. ASSUME NEW p \in Params, p \notin ids
            PROVE  Given(p, scall.i)' = Given(p, scall.i) /\ bound'[p] = bound[p]
        <5>1. \A j : j \in 1 .. i <=> j \in 1 .. i - 1 \/ j = i
          BY <2>2
        <5>2. {j \in 1 .. i : p \in IDs(j, args[j])} = {j \in 1 .. i - 1 : p \in IDs(j, args[j])}
          BY <4>3, <5>1
        <5>3. Given(p, scall.i) = {j \in 1 .. i - 1 : p \in IDs(j, args[j])}
          BY DEF Given
        <5>4. bound'[p] = bound[p]
          BY <2>4, <4>3
        <5> QED
          BY <4>1, <5>2, <5>3, <5>4
      <4>4. ASSUME NEW p \in Params
            PROVE  \/ Given(p, scall.i)' = {} /\ bound'[p] = NULL
                   \/ \E j \in Given(p, scall.i)' :
                         /\ \A k \in Given(p, scall.i)' : k <= j
                         /\ bound'[p] = Number("int", scall'.args[j].value)
        <5>1. CASE p \in ids
          BY <4>2, <5>1
        <5>2. CASE p \notin ids
          BY <2>1, <3>1, <4>3, <5>2 DEF BoundSoFar
        <5> QED
          BY <5>1, <5>2
      <4> QED
        BY <3>1, <4>4 DEF BoundSoFar
    <3>5. StmtOwned'
      BY <1>6, <2>1, <2>2, <3>1 DEF StmtOwned
    <3> QED
      BY <3>2, <3>3, <3>4, <3>5
  <2> QED
    BY <2>1, <2>3, <2>4
<1>7. ASSUME Queried, api[Main] = "Open"
     PROVE  StmtInv'
  <2> USE <1>7 DEF Queried
  <2>1. StmtTypeOK'
    BY DEF StmtTypeOK, StmtAgrees, StmtOwned, Binding, Stepping
  <2>2. StmtAgrees'
    BY DEF StmtTypeOK, StmtAgrees, StmtOwned, Binding, Stepping
  <2>3. BoundSoFar'
    BY SameBindings
  <2>4. StmtOwned'
    BY DEF StmtTypeOK, StmtAgrees, StmtOwned, Binding
  <2> QED
    BY <2>1, <2>2, <2>3, <2>4
<1>8. ASSUME Exec, api[Main] = "Open"
     PROVE  StmtInv'
  <2> USE <1>8 DEF Exec, Step, Reset
  <2>1. StmtTypeOK'
    BY DEF StmtTypeOK, StmtAgrees, StmtOwned, Binding, Stepping
  <2>2. StmtAgrees'
    BY DEF StmtTypeOK, StmtAgrees, StmtOwned, Binding, Stepping
  <2>3. BoundSoFar'
    BY SameBindings
  <2>4. StmtOwned'
    BY DEF StmtTypeOK, StmtAgrees, StmtOwned, Binding
  <2> QED
    BY <2>1, <2>2, <2>3, <2>4
<1>9. ASSUME NEW outcome \in {"ROW", "DONE", "ERROR"}, NEW empty \in BOOLEAN, Next(outcome, empty),
       api[Main] = "Open"
     PROVE  StmtInv'
  <2> USE <1>9 DEF Next, Step, ColumnBlob
  <2>1. StmtTypeOK'
    BY DEF StmtTypeOK, StmtAgrees, StmtOwned, Binding, Stepping
  <2>2. StmtAgrees'
    BY DEF StmtTypeOK, StmtAgrees, StmtOwned, Binding, Stepping
  <2>3. BoundSoFar'
    BY SameBindings
  <2>4. StmtOwned'
    BY DEF StmtTypeOK, StmtAgrees, StmtOwned, Binding
  <2> QED
    BY <2>1, <2>2, <2>3, <2>4
<1>10. ASSUME rowsClose, api[Main] = "Open"
     PROVE  StmtInv'
  <2> USE <1>10 DEF rowsClose, Reset
  <2>1. StmtTypeOK'
    BY DEF StmtTypeOK, StmtAgrees, StmtOwned, Binding, Stepping
  <2>2. StmtAgrees'
    BY DEF StmtTypeOK, StmtAgrees, StmtOwned, Binding, Stepping
  <2>3. BoundSoFar'
    BY SameBindings
  <2>4. StmtOwned'
    BY DEF StmtTypeOK, StmtAgrees, StmtOwned, Binding
  <2> QED
    BY <2>1, <2>2, <2>3, <2>4
<1>11. ASSUME PrepareDirect, api[Main] # "Open"
     PROVE  StmtInv'
  <2> USE <1>11 DEF PrepareDirect
  <2>1. StmtTypeOK'
    BY DEF StmtTypeOK, StmtAgrees, StmtOwned, Binding, Stepping
  <2>2. StmtAgrees'
    BY DEF StmtTypeOK, StmtAgrees, StmtOwned, Binding, Stepping
  <2>3. BoundSoFar'
    BY SameBindings
  <2>4. StmtOwned'
    BY DEF StmtTypeOK, StmtAgrees, StmtOwned, Binding
  <2> QED
    BY <2>1, <2>2, <2>3, <2>4
<1>12. ASSUME DirectStep
     PROVE  StmtInv'
  <2> USE <1>12 DEF DirectStep, Step
  <2>1. StmtTypeOK'
    BY DEF StmtTypeOK, StmtAgrees, StmtOwned, Binding, Stepping
  <2>2. StmtAgrees'
    BY DEF StmtTypeOK, StmtAgrees, StmtOwned, Binding, Stepping
  <2>3. BoundSoFar'
    BY SameBindings
  <2>4. StmtOwned'
    BY DEF StmtTypeOK, StmtAgrees, StmtOwned, Binding
  <2> QED
    BY <2>1, <2>2, <2>3, <2>4
<1>13. ASSUME DirectReset
     PROVE  StmtInv'
  <2> USE <1>13 DEF DirectReset, Reset
  <2>1. StmtTypeOK'
    BY DEF StmtTypeOK, StmtAgrees, StmtOwned, Binding, Stepping
  <2>2. StmtAgrees'
    BY DEF StmtTypeOK, StmtAgrees, StmtOwned, Binding, Stepping
  <2>3. BoundSoFar'
    BY SameBindings
  <2>4. StmtOwned'
    BY DEF StmtTypeOK, StmtAgrees, StmtOwned, Binding
  <2> QED
    BY <2>1, <2>2, <2>3, <2>4
<1>14. ASSUME NEW f \in Formats, NEW t \in Instants, BindTime(f, t)
     PROVE  StmtInv'
  <2> USE <1>14 DEF BindTime
  <2>1. StmtTypeOK'
    <3>1. Params' = 1 .. 1
      BY Zenon DEF StmtAgrees
    <3>2. bound' = [p \in 1 .. 1 |-> bound'[p]]
      OBVIOUS
    <3> QED
      BY <3>1, <3>2 DEF StmtTypeOK, Binding
  <2>2. StmtAgrees'
    BY DEF StmtTypeOK, StmtAgrees, StmtOwned, Binding, Stepping
  <2>3. BoundSoFar'
    BY SameBindings DEF StmtTypeOK, StmtOwned
  <2>4. StmtOwned'
    BY DEF StmtTypeOK, StmtAgrees, StmtOwned, Binding
  <2> QED
    BY <2>1, <2>2, <2>3, <2>4
<1>15. ASSUME NEW f, NEW v, ColumnTime(f, v)
     PROVE  StmtInv'
  <2> USE <1>15 DEF ColumnTime
  <2>1. StmtTypeOK'
    BY DEF StmtTypeOK, StmtAgrees, StmtOwned, Binding, Stepping
  <2>2. StmtAgrees'
    BY DEF StmtTypeOK, StmtAgrees, StmtOwned, Binding, Stepping
  <2>3. BoundSoFar'
    BY SameBindings
  <2>4. StmtOwned'
    BY DEF StmtTypeOK, StmtAgrees, StmtOwned, Binding
  <2> QED
    BY <2>1, <2>2, <2>3, <2>4
<1> QED
  BY <1>1, <1>2, <1>3, <1>4, <1>5, <1>6, <1>7, <1>8, <1>9, <1>10, <1>11, <1>12, <1>13, <1>14, <1>15 DEF UseStatement, DriverStmt, DirectStmt

\* The calls that open and close connections leave the statement alone, and a
\* connection that has one is not closed.
LEMMA NextStmtInv == ASSUME RuntimeInv, StmtInv, [CNext]_cvars PROVE StmtInv'
<1> USE MainAssumption DEF StmtInv
<1>1. CASE UseStatement
  BY <1>1, UseStatementInv DEF RuntimeInv
<1>2. ASSUME UNCHANGED svars PROVE StmtTypeOK' /\ StmtAgrees' /\ BoundSoFar'
  <2>1. UNCHANGED <<params, stmt, handles, vdbe, bound, serr, rows, ended, scall, sret>>
    BY <1>2 DEF svars
  <2>2. StmtTypeOK' /\ StmtAgrees'
    BY <2>1 DEF StmtTypeOK, StmtAgrees, Binding, Stepping, Calling, Params
  <2> QED
    BY <2>1, <2>2, SameBindings
<1>3. ASSUME NEW c \in Conns, OpenOrClose(c) PROVE StmtInv'
  <2>1. UNCHANGED svars /\ UNCHANGED <<stmt, scall>>
    BY <1>3 DEF OpenOrClose, svars
  <2>2. CASE c # Main
    <3>1. UNCHANGED <<pc[Main], api[Main]>>
      BY Zenon, <1>3, <2>2 DEF OpenOrClose, Opening, Open, Once, compileModule, AddInstance, InstantiateModule,
             newConn, open, driverOpen, Close, CloseModule, Closed, Goto, RuntimeInv, RuntimeTypeOK
    <3> QED
      BY <1>2, <2>1, <3>1 DEF StmtOwned, Calling
  <2>3. CASE c = Main
    <3>1. stmt = "none" /\ Calling("none")
      BY Zenon, <1>3, <2>3 DEF OpenOrClose, Opening, Open, Once, compileModule, AddInstance, InstantiateModule,
             newConn, open, driverOpen, Close, StmtOwned, StmtTypeOK, StmtAgrees, Binding, Calling
    <3> QED
      BY <1>2, <2>1, <3>1 DEF StmtOwned, Calling
  <2> QED
    BY <2>2, <2>3
<1>4. ASSUME UNCHANGED svars, UNCHANGED <<pc, api>> PROVE StmtInv'
  BY <1>2, <1>4 DEF StmtOwned, Calling, svars
<1> QED
  BY <1>1, <1>3, <1>4 DEF CNext, cvars, CloseBusy, Configure, rvars

\* What is known of the connections and of the statement, and that only a
\* program's own connection is busy.
ConnInv == RuntimeInv /\ StmtInv /\ busy \in BOOLEAN /\ NeverBusy

\* It holds initially and every step preserves it.
LEMMA ConnInvariance == CSpec => []ConnInv
<1>1. Init => ConnInv
  <2> SUFFICES ASSUME Init PROVE StmtInv /\ busy = FALSE
    BY Zenon, InitRuntimeInv DEF Init, ConnInv, NeverBusy
  <2> USE BoundsAssumption DEF Init, StmtInit, Idle, Calling, Binding
  <2>1. StmtTypeOK /\ BoundSoFar
    BY DEF StmtTypeOK, BoundSoFar, Params
  <2>2. StmtAgrees /\ StmtOwned
    BY DEF StmtAgrees, StmtOwned
  <2> QED
    BY <2>1, <2>2 DEF StmtInv
<1>2. ConnInv /\ [CNext]_cvars => ConnInv'
  <2> SUFFICES ASSUME ConnInv, [CNext]_cvars PROVE busy' \in BOOLEAN /\ NeverBusy'
    BY NextRuntimeInv, NextStmtInv DEF ConnInv
  <2>1. CASE CloseBusy
    <3>1. stmt \in {"open", "direct"} /\ api[Main] \in {"OpenFlags", "Open"}
      BY <2>1, MainAssumption DEF CloseBusy, ConnInv, StmtInv, StmtAgrees, Calling, RuntimeInv, RuntimeTypeOK
    <3> QED
      BY <2>1, <3>1 DEF CloseBusy, NeverBusy, rvars
  <2>2. CASE UNCHANGED <<busy, api>>
    BY <2>2 DEF ConnInv, NeverBusy
  <2>3. CASE busy' = FALSE
    BY Zenon, <2>3 DEF NeverBusy
  <2> QED
    BY Zenon, <2>1, <2>2, <2>3 DEF CNext, cvars, rvars, Configure, OpenOrClose, UseStatement
<1> QED
  BY <1>1, <1>2, PTL DEF CSpec

\* The types of the runtime's, the openers' and the statement's state.
THEOREM ConnectionsTypeCorrect == CSpec => []ConnectionsTypeOK
<1>1. ConnInv => ConnectionsTypeOK
  BY DEF ConnInv, RuntimeInv, RuntimeTypeOK, Named, Owning, StmtInv, StmtTypeOK, StmtAgrees, ConnectionsTypeOK
<1> QED
  BY <1>1, ConnInvariance, PTL

\* Prepare (driver.go) leaves database/sql no statement that it does not know
\* of: its Conn.Close never returns BUSY, after any tail or error.
THEOREM DriverNeverBusy == CSpec => []NeverBusy
BY ConnInvariance, PTL DEF ConnInv

\* A statement whose rows are closed, and that is not being executed, is reset and
\* has no error (Stmt.Exec, rows.Close): it can be bound and run again.
THEOREM StatementRewound == CSpec => []Rewound
<1>1. ConnInv => Rewound
  BY DEF ConnInv, StmtInv, StmtTypeOK, StmtAgrees, Rewound, Stepping, Calling
<1> QED
  BY <1>1, ConnInvariance, PTL

\* QueryContext (driver.go) has bound each parameter to the last argument that
\* stands for it, and nothing is left of an earlier call, for any names of the
\* parameters and any number of arguments.
THEOREM QueryContextBinds == CSpec => []QueryBinds
<1>1. ASSUME ConnInv PROVE QueryBinds
  <2> SUFFICES ASSUME Binding, scall.i > Len(scall.args) PROVE bound = Bindings(scall.args)
    BY DEF QueryBinds, Binding
  <2>1. /\ scall.i \in Nat /\ scall.args \in Seq(Args) /\ scall.i <= Len(scall.args) + 1
        /\ bound = [p \in Params |-> bound[p]] /\ BoundSoFar
    BY <1>1 DEF ConnInv, StmtInv, StmtTypeOK, StmtAgrees
  <2>2. scall.i - 1 = Len(scall.args)
    BY <2>1
  <2>3. ASSUME NEW p \in Params PROVE bound[p] = Bindings(scall.args)[p]
    <3> DEFINE given == {i \in DOMAIN scall.args : p \in IDs(i, scall.args[i])}
    <3>1. given = Given(p, scall.i) /\ given \subseteq Nat
      <4>1. DOMAIN scall.args = 1 .. scall.i - 1 /\ DOMAIN scall.args \subseteq Nat
        BY <2>1, <2>2
      <4> QED
        BY Zenon, <4>1 DEF Given
    <3>2. Bindings(scall.args)[p] =
             IF given = {} THEN NULL
             ELSE Number("int", scall.args[CHOOSE i \in given : \A j \in given : j <= i].value)
      BY DEF Bindings
    <3>3. CASE given = {}
      BY <2>1, <3>1, <3>2, <3>3 DEF BoundSoFar
    <3>4. CASE given # {}
      <4>1. PICK j \in given : (\A k \in given : k <= j) /\ bound[p] = Number("int", scall.args[j].value)
        BY <2>1, <3>1, <3>4 DEF BoundSoFar
      <4>2. j = CHOOSE i \in given : \A k \in given : k <= i
        BY <3>1, <4>1
      <4> QED
        BY <3>2, <3>4, <4>1, <4>2
    <3> QED
      BY <3>3, <3>4
  <2> QED
    BY Zenon, <2>1, <2>3 DEF Bindings
<1> QED
  BY <1>1, ConnInvariance, PTL

\* rows.Next (driver.go) of the only rows of a statement returns an error only
\* if something failed in that call: Stmt.Step keeps no older error.
THEOREM NextMeetsNoOldError == CSpec => NextFresh
<1> DEFINE Fresh == Calling("none") /\ rows = 1 /\ rows' = 1 /\ scall' = Idle /\ sret' = "error" => fault'
<1>1. ConnInv /\ [CNext]_cvars => [Fresh]_svars
  <2> SUFFICES ASSUME ConnInv, UseStatement, Calling("none"), rows = 1, rows' = 1, scall' = Idle, sret' = "error"
               PROVE  fault'
    BY DEF CNext, cvars, OpenOrClose, CloseBusy
  <2>1. stmt = "open" /\ (ended = 0 => serr = "nil") /\ ended \in Nat
    BY DEF ConnInv, StmtInv, StmtTypeOK, StmtAgrees
  <2>2. PICK outcome \in {"ROW", "DONE", "ERROR"}, empty \in BOOLEAN : Next(outcome, empty)
    <3>1. ~DirectStmt
      BY <2>1 DEF DirectStmt, PrepareDirect, DirectStep, DirectReset, BindTime, ColumnTime, CloseStmt
    <3>2. DriverStmt
      BY <3>1 DEF UseStatement
    <3>3. ~(PrepareTail \/ CloseStmt \/ NumInputNil \/ Bind \/ Queried \/ Exec \/ rowsClose)
      BY <2>1 DEF PrepareTail, CloseStmt, NumInputNil, Bind, Queried, Exec, rowsClose, Calling
    <3>4. ASSUME NEW args, NEW fn \in {"QueryContext", "ExecContext"} PROVE ~QueryContext(fn, args)
      BY Zenon DEF QueryContext, Idle
    <3> QED
      BY <2>1, <3>2, <3>3, <3>4 DEF DriverStmt, Prepare
  <2>3. serr = "nil"
    BY <2>1, <2>2 DEF Next
  <2> QED
    BY Zenon, <2>2, <2>3 DEF Next, Step, Return
<1> QED
  BY <1>1, ConnInvariance, PTL DEF CSpec, NextFresh
===============================================================================

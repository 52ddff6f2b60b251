---------------------------- MODULE SavepointProofs ----------------------------
(***************************************************************************)
(* Proofs about Savepoint, for any functions, depth and number of writes.  *)
(* A release function that panics by itself is covered up to and including *)
(* that step; they say nothing of a connection that is used after it.      *)
(***************************************************************************)
EXTENDS Savepoint, Integers, SequenceTheorems, TLAPS

\* An active function.
Frame == [name : Functions, made : BOOLEAN, undo : BOOLEAN, at : SUBSET Nat]

\* A savepoint of SQLite.
Mark == [name : Functions, data : SUBSET Nat]

\* The values the state takes.
SavepointTypeOK ==
    /\ frames \in Seq(Frame) /\ marks \in Seq(Mark)
    /\ pc \in {"idle", "RELEASE", "ROLLBACK_TO", "RELEASE_again"}
    /\ begun \in BOOLEAN /\ writes \in Nat
    /\ db \in SUBSET Nat /\ disk \in SUBSET Nat /\ goal \in SUBSET Nat

\* The savepoints are those of the active functions that can still undo what
\* was written, in the same order.
Matching(h, fs, ms) ==
    /\ h \in [1 .. Len(ms) -> 1 .. Len(fs)]
    /\ \A j, k \in 1 .. Len(ms) : j < k => h[j] < h[k]
    /\ \A k \in 1 .. Len(ms) :
          fs[h[k]].undo /\ fs[h[k]].name = ms[k].name /\ fs[h[k]].at = ms[k].data
    /\ \A i \in 1 .. Len(fs) : fs[i].undo => \E k \in 1 .. Len(ms) : h[k] = i

\* The functions and the savepoints correspond.
Matched == \E h \in [1 .. Len(marks) -> 1 .. Len(frames)] : Matching(h, frames, marks)

\* A function that made a savepoint which is gone was called in a transaction
\* that has ended, and so were its callers.
EndedBelow ==
    \A i \in 1 .. Len(frames) :
        /\ frames[i].undo => frames[i].made
        /\ frames[i].made /\ ~frames[i].undo => \A j \in 1 .. i : ~frames[j].undo

\* Outside a transaction everything is committed, and a savepoint that has begun
\* a transaction goes back to what is committed.
Durable ==
    /\ GetAutocommit => disk = db
    /\ ~begun /\ marks # <<>> => marks[1].data = disk

\* How far the release function is.  In its error path the flag is set only if a
\* row keeps it, and ROLLBACK TO has found it clear.
Releasing ==
    /\ pc = "idle" => db = goal
    /\ pc # "idle" => frames # <<>> /\ Top.made
    /\ pc = "RELEASE" => error = "nil" /\ db = goal
    /\ pc = "ROLLBACK_TO" =>
          /\ error # "nil" /\ (flag => row)
          /\ cause = "IOERR" => marks = <<>> /\ Top.undo /\ db = Top.at
          /\ ~Top.undo => db = goal
    /\ pc = "RELEASE_again" => error # "nil" /\ ~flag /\ Top.undo /\ db = Top.at

\* A commit that failed with IOERR has taken the savepoints away.
InOrder ==
    /\ Matched \/ (pc = "ROLLBACK_TO" /\ cause = "IOERR")
    /\ EndedBelow /\ Durable /\ Releasing

\* The inductive invariant.
SavepointInv == ~panicked => SavepointTypeOK /\ InOrder
-------------------------------------------------------------------------------
\* A savepoint on the top of the stack is the one its name finds.
LEMMA FindLast ==
    ASSUME NEW name, marks \in Seq(Mark), marks # <<>>,
           marks[Len(marks)].name = name
    PROVE  Find(name) = Len(marks)
<1> DEFINE I == {i \in 1 .. Len(marks) : marks[i].name = name}
<1>1. Len(marks) \in Nat /\ Len(marks) > 0
  BY EmptySeq
<1>2. Len(marks) \in I /\ \A i \in I : i \in Nat /\ i <= Len(marks)
  BY <1>1
<1>3. Find(name) = IF I # {} THEN Max(I) ELSE 0
  BY DEF Find, SelectLastInSeq
<1> HIDE DEF I
<1>4. Max(I) = Len(marks)
  BY <1>1, <1>2 DEF Max
<1> QED
  BY <1>2, <1>3, <1>4

\* Without savepoints no name is found.
LEMMA FindNone ==
    ASSUME NEW name, marks = <<>>
    PROVE  Find(name) = 0
<1>1. {i \in 1 .. Len(marks) : marks[i].name = name} = {}
  OBVIOUS
<1> QED
  BY <1>1 DEF Find, SelectLastInSeq
-------------------------------------------------------------------------------
(* Matching functions with savepoints. *)
\* The sequence t is s with e at its end, or s without its last element.
Pushed(t, s, e) ==
    /\ Len(t) = Len(s) + 1 /\ t[Len(s) + 1] = e
    /\ \A i \in 1 .. Len(s) : t[i] = s[i]

\* The stack without its last element.
Popped(t, s) ==
    /\ Len(s) > 0 /\ Len(t) = Len(s) - 1
    /\ \A i \in 1 .. Len(t) : t[i] = s[i]

\* Append pushes and SubSeq pops.
LEMMA PushedPopped ==
    ASSUME NEW S, NEW s \in Seq(S), NEW e \in S
    PROVE  /\ Len(s) \in Nat /\ (Len(s) = 0 <=> s = <<>>)
           /\ Append(s, e) \in Seq(S) /\ Pushed(Append(s, e), s, e)
           /\ s # <<>> =>
                 /\ SubSeq(s, 1, Len(s) - 1) \in Seq(S) /\ Popped(SubSeq(s, 1, Len(s) - 1), s)
                 /\ SubSeq(s, 1, Len(s)) = s
<1>1. Len(s) \in Nat /\ (Len(s) = 0 <=> s = <<>>)
  BY EmptySeq
<1>2. Append(s, e) \in Seq(S) /\ Pushed(Append(s, e), s, e)
  BY AppendProperties DEF Pushed
<1>3. ASSUME s # <<>>
      PROVE  SubSeq(s, 1, Len(s) - 1) \in Seq(S) /\ Popped(SubSeq(s, 1, Len(s) - 1), s)
  <2> DEFINE n == Len(s) - 1
             t == SubSeq(s, 1, n)
  <2>1. /\ n \in Nat /\ Len(s) = n + 1 /\ \A i \in 1 .. n : s[i] \in S
        /\ n - 1 + 1 = n
    BY <1>1, <1>3
  <2> HIDE DEF n
  <2>2. /\ t \in Seq(S)
        /\ Len(t) = IF 1 <= n THEN n - 1 + 1 ELSE 0
        /\ \A i \in 1 .. n - 1 + 1 : t[i] = s[1 + i - 1]
    BY <2>1, SubSeqProperties
  <2> HIDE DEF t
  <2>3. Len(t) = n /\ \A i \in 1 .. n : t[i] = s[i]
    <3>1. Len(t) = n
      BY <2>1, <2>2
    <3>2. ASSUME NEW i \in 1 .. n PROVE t[i] = s[i]
      <4>1. 1 + i - 1 = i /\ i \in 1 .. n - 1 + 1
        BY <2>1
      <4> QED
        BY <2>2, <4>1
    <3> QED
      BY <3>1, <3>2
  <2>4. Popped(t, s)
    BY <2>1, <2>3 DEF Popped
  <2> QED
    BY <2>2, <2>4 DEF t, n
<1>4. SubSeq(s, 1, Len(s)) = s
  BY SubSeqFull
<1> QED
  BY <1>1, <1>2, <1>3, <1>4

\* The function on top that can undo has the savepoint on top.
LEMMA MatchTop ==
    ASSUME NEW fs, NEW ms, NEW h, Len(fs) \in Nat, Len(ms) \in Nat, Matching(h, fs, ms),
           Len(fs) > 0, fs[Len(fs)].undo
    PROVE  Len(ms) > 0 /\ h[Len(ms)] = Len(fs)
<1>1. PICK k \in 1 .. Len(ms) : h[k] = Len(fs)
  BY DEF Matching
<1>2. Len(ms) > 0 /\ Len(ms) \in 1 .. Len(ms) /\ h[Len(ms)] \in 1 .. Len(fs)
  BY <1>1 DEF Matching
<1>3. k < Len(ms) => h[k] < h[Len(ms)]
  BY <1>2 DEF Matching
<1> QED
  BY <1>1, <1>2, <1>3

\* A new function, with or without its savepoint, extends the correspondence.
LEMMA MatchPush ==
    ASSUME NEW fs, NEW ms, NEW h, Len(fs) \in Nat, Len(ms) \in Nat, Matching(h, fs, ms),
           NEW gs, NEW f, Pushed(gs, fs, f)
    PROVE  /\ ~f.undo => Matching(h, gs, ms)
           /\ \A m, ns : /\ Pushed(ns, ms, m)
                         /\ f.undo /\ f.name = m.name /\ f.at = m.data
                         => \E g \in [1 .. Len(ns) -> 1 .. Len(gs)] : Matching(g, gs, ns)
<1>1. ASSUME ~f.undo PROVE Matching(h, gs, ms)
  <2>1. h \in [1 .. Len(ms) -> 1 .. Len(gs)]
    BY DEF Matching, Pushed
  <2>2. \A k \in 1 .. Len(ms) : h[k] \in 1 .. Len(fs) /\ gs[h[k]] = fs[h[k]]
    <3>1. \A k \in 1 .. Len(ms) : h[k] \in 1 .. Len(fs)
      BY DEF Matching
    <3>2. \A i \in 1 .. Len(fs) : gs[i] = fs[i]
      BY DEF Pushed
    <3> QED
      BY Zenon, <3>1, <3>2
  <2>3. \A i \in 1 .. Len(gs) : gs[i].undo => i \in 1 .. Len(fs) /\ fs[i].undo
    BY <1>1 DEF Pushed
  <2> QED
    BY Zenon, <2>1, <2>2, <2>3 DEF Matching
<1>2. ASSUME NEW m, NEW ns, Pushed(ns, ms, m), f.undo, f.name = m.name, f.at = m.data
      PROVE  \E g \in [1 .. Len(ns) -> 1 .. Len(gs)] : Matching(g, gs, ns)
  <2> DEFINE g == [k \in 1 .. Len(ns) |-> IF k \in 1 .. Len(ms) THEN h[k] ELSE Len(gs)]
  <2>1. /\ Len(ns) = Len(ms) + 1 /\ Len(gs) = Len(fs) + 1
        /\ \A k \in 1 .. Len(ns) : k \in 1 .. Len(ms) \/ k = Len(ns)
        /\ \A i \in 1 .. Len(gs) : i \in 1 .. Len(fs) \/ i = Len(gs)
        /\ Len(ns) \notin 1 .. Len(ms)
    BY <1>2 DEF Pushed
  <2>2. \A k \in 1 .. Len(ms) : h[k] \in 1 .. Len(fs) /\ g[k] = h[k]
    BY <2>1 DEF Matching
  <2>3. g[Len(ns)] = Len(gs)
    BY <2>1
  <2>4. g \in [1 .. Len(ns) -> 1 .. Len(gs)]
    <3>1. ASSUME NEW k \in 1 .. Len(ms) PROVE h[k] \in 1 .. Len(gs)
      <4>1. h[k] \in 1 .. Len(fs) /\ Len(gs) = Len(fs) + 1
        BY Zenon, <2>1, <2>2
      <4> HIDE DEF g
      <4> QED
        BY <4>1
    <3>2. Len(gs) \in 1 .. Len(gs)
      BY <2>1
    <3>3. ASSUME NEW k \in 1 .. Len(ns)
          PROVE  (IF k \in 1 .. Len(ms) THEN h[k] ELSE Len(gs)) \in 1 .. Len(gs)
      <4>1. CASE k \in 1 .. Len(ms)
        BY <3>1, <4>1
      <4>2. CASE k \notin 1 .. Len(ms)
        BY <3>2, <4>2
      <4> QED
        BY <4>1, <4>2
    <3> QED
      BY Zenon, <3>3
  <2> HIDE DEF g
  <2>5. \A j, k \in 1 .. Len(ns) : j < k => g[j] < g[k]
    <3> SUFFICES ASSUME NEW j \in 1 .. Len(ns), NEW k \in 1 .. Len(ns), j < k
                 PROVE  g[j] < g[k]
      OBVIOUS
    <3>1. j \in 1 .. Len(ms)
      BY <2>1
    <3>2. CASE k \in 1 .. Len(ms)
      BY <2>2, <3>1, <3>2 DEF Matching
    <3>3. CASE k = Len(ns)
      <4>1. h[j] \in 1 .. Len(fs) /\ g[j] = h[j] /\ g[k] = Len(fs) + 1
        BY <2>1, <2>2, <2>3, <3>1, <3>3
      <4> QED
        BY <4>1
    <3> QED
      BY <2>1, <3>2, <3>3
  <2>6. \A k \in 1 .. Len(ns) :
           gs[g[k]].undo /\ gs[g[k]].name = ns[k].name /\ gs[g[k]].at = ns[k].data
    <3> SUFFICES ASSUME NEW k \in 1 .. Len(ns)
                 PROVE  gs[g[k]].undo /\ gs[g[k]].name = ns[k].name /\ gs[g[k]].at = ns[k].data
      OBVIOUS
    <3>1. CASE k \in 1 .. Len(ms)
      <4>1. gs[g[k]] = fs[h[k]] /\ ns[k] = ms[k]
        BY <1>2, <2>2, <3>1 DEF Pushed
      <4> QED
        BY <3>1, <4>1 DEF Matching
    <3>2. CASE k = Len(ns)
      <4>1. gs[g[k]] = f /\ ns[k] = m
        BY <1>2, <2>1, <2>3, <3>2 DEF Pushed
      <4> QED
        BY <1>2, <4>1
    <3> QED
      BY <2>1, <3>1, <3>2
  <2>7. \A i \in 1 .. Len(gs) : gs[i].undo => \E k \in 1 .. Len(ns) : g[k] = i
    <3> SUFFICES ASSUME NEW i \in 1 .. Len(gs), gs[i].undo
                 PROVE  \E k \in 1 .. Len(ns) : g[k] = i
      OBVIOUS
    <3>1. CASE i \in 1 .. Len(fs)
      <4>1. fs[i].undo
        BY <3>1 DEF Pushed
      <4>2. PICK k \in 1 .. Len(ms) : h[k] = i
        BY <3>1, <4>1 DEF Matching
      <4> QED
        BY <2>1, <2>2, <4>2
    <3>2. CASE i = Len(gs)
      BY <2>1, <2>3, <3>2
    <3> QED
      BY <2>1, <3>1, <3>2
  <2> QED
    BY Zenon, <2>4, <2>5, <2>6, <2>7 DEF Matching
<1> QED
  BY <1>1, <1>2

\* A function that returns takes its own savepoint away, if it has one.
LEMMA MatchPop ==
    ASSUME NEW fs, NEW ms, NEW h, Len(fs) \in Nat, Len(ms) \in Nat, Matching(h, fs, ms),
           NEW gs, Popped(gs, fs)
    PROVE  /\ ~fs[Len(fs)].undo => Matching(h, gs, ms)
           /\ fs[Len(fs)].undo => \A ns : Popped(ns, ms) =>
                 \E g \in [1 .. Len(ns) -> 1 .. Len(gs)] : Matching(g, gs, ns)
<1>1. /\ Len(gs) = Len(fs) - 1 /\ Len(fs) > 0
      /\ \A i \in 1 .. Len(fs) : i \in 1 .. Len(gs) \/ i = Len(fs)
      /\ \A i \in 1 .. Len(gs) : i \in 1 .. Len(fs) /\ gs[i] = fs[i]
  BY DEF Popped
<1>2. ASSUME ~fs[Len(fs)].undo PROVE Matching(h, gs, ms)
  <2>1. \A k \in 1 .. Len(ms) : h[k] \in 1 .. Len(gs)
    BY Zenon, <1>1, <1>2 DEF Matching
  <2>2. h \in [1 .. Len(ms) -> 1 .. Len(gs)]
    BY <2>1 DEF Matching
  <2> QED
    BY Zenon, <1>1, <2>1, <2>2 DEF Matching
<1>3. ASSUME fs[Len(fs)].undo, NEW ns, Popped(ns, ms)
      PROVE  \E g \in [1 .. Len(ns) -> 1 .. Len(gs)] : Matching(g, gs, ns)
  <2> DEFINE g == [k \in 1 .. Len(ns) |-> h[k]]
  <2>1. Len(ms) > 0 /\ h[Len(ms)] = Len(fs)
    BY <1>1, <1>3, MatchTop
  <2>2. /\ Len(ns) = Len(ms) - 1
        /\ \A k \in 1 .. Len(ms) : k \in 1 .. Len(ns) \/ k = Len(ms)
        /\ \A k \in 1 .. Len(ns) : k \in 1 .. Len(ms) /\ k < Len(ms) /\ ns[k] = ms[k]
    BY <1>3 DEF Popped
  <2>3. \A k \in 1 .. Len(ns) : h[k] \in 1 .. Len(gs) /\ g[k] = h[k]
    <3> SUFFICES ASSUME NEW k \in 1 .. Len(ns) PROVE h[k] \in 1 .. Len(gs)
      OBVIOUS
    <3>1. k \in 1 .. Len(ms) /\ Len(ms) \in 1 .. Len(ms) /\ k < Len(ms)
      BY <2>1, <2>2
    <3>2. h[k] < h[Len(ms)] /\ h[k] \in 1 .. Len(fs)
      BY Zenon, <3>1 DEF Matching
    <3> QED
      BY <1>1, <2>1, <3>2
  <2>4. g \in [1 .. Len(ns) -> 1 .. Len(gs)]
    BY <2>3
  <2> HIDE DEF g
  <2>5. \A i \in 1 .. Len(gs) : gs[i].undo => \E k \in 1 .. Len(ns) : g[k] = i
    <3> SUFFICES ASSUME NEW i \in 1 .. Len(gs), gs[i].undo
                 PROVE  \E k \in 1 .. Len(ns) : g[k] = i
      OBVIOUS
    <3>1. PICK k \in 1 .. Len(ms) : h[k] = i
      BY Zenon, <1>1 DEF Matching
    <3>2. k # Len(ms)
      BY <1>1, <2>1, <3>1
    <3> QED
      BY Zenon, <2>2, <2>3, <3>1, <3>2
  <2>6. \A k \in 1 .. Len(ns) :
           gs[g[k]].undo /\ gs[g[k]].name = ns[k].name /\ gs[g[k]].at = ns[k].data
    <3> SUFFICES ASSUME NEW k \in 1 .. Len(ns)
                 PROVE  gs[g[k]].undo /\ gs[g[k]].name = ns[k].name /\ gs[g[k]].at = ns[k].data
      OBVIOUS
    <3>1. gs[g[k]] = fs[h[k]] /\ ns[k] = ms[k] /\ k \in 1 .. Len(ms)
      BY Zenon, <1>1, <2>2, <2>3
    <3> QED
      BY <3>1 DEF Matching
  <2>7. \A j, k \in 1 .. Len(ns) : j < k => g[j] < g[k]
    BY <2>2, <2>3 DEF Matching
  <2> QED
    BY Zenon, <2>4, <2>5, <2>6, <2>7 DEF Matching
<1> QED
  BY <1>2, <1>3

\* Without savepoints no function can undo anything.
LEMMA MatchNone ==
    ASSUME NEW fs, Len(fs) \in Nat, \A i \in 1 .. Len(fs) : ~fs[i].undo
    PROVE  \E h \in [1 .. Len(<<>>) -> 1 .. Len(fs)] : Matching(h, fs, <<>>)
<1> DEFINE h == [k \in 1 .. 0 |-> 1]
<1>1. h \in [1 .. 0 -> 1 .. Len(fs)] /\ Len(<<>>) = 0
  OBVIOUS
<1>2. Matching(h, fs, <<>>)
  BY <1>1 DEF Matching
<1> QED
  BY Zenon, <1>1, <1>2

-------------------------------------------------------------------------------
(* What a step does to the two stacks. *)
LEMMA Stacks ==
    ASSUME SavepointTypeOK
    PROVE  /\ Len(frames) \in Nat /\ (Len(frames) = 0 <=> frames = <<>>)
           /\ Len(marks) \in Nat /\ (Len(marks) = 0 <=> marks = <<>>)
           /\ SubSeq(marks, 1, Len(marks)) = marks
           /\ marks # <<>> =>
                 /\ SubSeq(marks, 1, Len(marks) - 1) \in Seq(Mark)
                 /\ Popped(SubSeq(marks, 1, Len(marks) - 1), marks)
                 /\ marks[Len(marks)] \in Mark
           /\ frames # <<>> =>
                 /\ Top = frames[Len(frames)] /\ Top \in Frame
                 /\ Front(frames) \in Seq(Frame) /\ Popped(Front(frames), frames)
<1>1. /\ Len(frames) \in Nat /\ (Len(frames) = 0 <=> frames = <<>>)
      /\ Len(marks) \in Nat /\ (Len(marks) = 0 <=> marks = <<>>)
  BY EmptySeq DEF SavepointTypeOK
<1>2. SubSeq(marks, 1, Len(marks)) = marks
  BY SubSeqFull DEF SavepointTypeOK
<1>3. ASSUME marks # <<>>
      PROVE  /\ SubSeq(marks, 1, Len(marks) - 1) \in Seq(Mark)
             /\ Popped(SubSeq(marks, 1, Len(marks) - 1), marks)
             /\ marks[Len(marks)] \in Mark
  <2>1. marks \in Seq(Mark)
    BY DEF SavepointTypeOK
  <2>2. Len(marks) \in 1 .. Len(marks)
    BY <1>1, <1>3
  <2>3. marks[Len(marks)] \in Mark
    BY <2>1, <2>2, ElementOfSeq
  <2> QED
    BY <1>3, <2>1, <2>3, PushedPopped
<1>4. ASSUME frames # <<>>
      PROVE  /\ Top = frames[Len(frames)] /\ Top \in Frame
             /\ Front(frames) \in Seq(Frame) /\ Popped(Front(frames), frames)
  <2>1. frames \in Seq(Frame)
    BY DEF SavepointTypeOK
  <2>2. Len(frames) \in 1 .. Len(frames)
    BY <1>1, <1>4
  <2>3. frames[Len(frames)] \in Frame
    BY <2>1, <2>2, ElementOfSeq
  <2>4. Top = frames[Len(frames)] /\ Front(frames) = SubSeq(frames, 1, Len(frames) - 1)
    BY DEF Top, Last, Front
  <2> QED
    BY <1>4, <2>1, <2>3, <2>4, PushedPopped
<1> QED
  BY <1>1, <1>2, <1>3, <1>4

\* The function that returns finds its own savepoint on top.
LEMMA TopMark ==
    ASSUME SavepointTypeOK, Matched, frames # <<>>, Top.undo
    PROVE  /\ marks # <<>> /\ Find(Top.name) = Len(marks)
           /\ marks[Len(marks)].data = Top.at /\ marks[Len(marks)].name = Top.name
<1>1. PICK h : Matching(h, frames, marks)
  BY DEF Matched
<1>2. Len(frames) > 0 /\ Len(frames) \in Nat /\ Len(marks) \in Nat /\ Top = frames[Len(frames)]
  BY Stacks
<1>3. Len(marks) > 0 /\ h[Len(marks)] = Len(frames)
  BY <1>1, <1>2, MatchTop
<1>4. marks # <<>>
  BY <1>3, Stacks
<1>5. marks[Len(marks)].name = Top.name /\ marks[Len(marks)].data = Top.at
  BY <1>1, <1>2, <1>3 DEF Matching
<1> QED
  BY <1>4, <1>5, FindLast DEF SavepointTypeOK

\* When the transaction ends, no function can undo and no savepoint is left.
LEMMA EndedStacks ==
    ASSUME SavepointTypeOK, EndedBelow, Ended, marks' = <<>>
    PROVE  /\ frames' \in Seq(Frame) /\ (frames' = <<>> <=> frames = <<>>)
           /\ Matched' /\ EndedBelow'
<1> DEFINE n == Len(frames)
           fs == [i \in 1 .. n |-> [frames[i] EXCEPT !.undo = FALSE]]
<1>1. n \in Nat /\ frames \in Seq(Frame) /\ DOMAIN frames = 1 .. n
  BY Stacks, LenProperties DEF SavepointTypeOK
<1>2. frames' = fs
  BY <1>1 DEF Ended
<1>3. \A i \in 1 .. n : frames[i] \in Frame
  BY <1>1, ElementOfSeq
<1> HIDE DEF n
<1>4. \A i \in 1 .. n : fs[i] \in Frame /\ ~fs[i].undo
  BY Zenon, <1>3 DEF Frame
<1>5. fs \in [1 .. n -> Frame]
  BY Zenon, <1>4
<1>6. fs \in Seq(Frame)
  BY Zenon, <1>1, <1>5, SeqDef
<1> HIDE DEF fs
<1>7. Len(fs) = n
  BY <1>1, <1>5, <1>6, LenProperties
<1>8. fs = <<>> <=> frames = <<>>
  BY <1>1, <1>6, <1>7, EmptySeq DEF n
<1>9. \E h \in [1 .. Len(<<>>) -> 1 .. Len(fs)] : Matching(h, fs, <<>>)
  BY <1>1, <1>4, <1>7, MatchNone
<1>10. Matched'
  BY Zenon, <1>2, <1>9 DEF Matched
<1>11. EndedBelow'
  <2>1. \A i \in 1 .. Len(fs) :
           /\ fs[i].undo => fs[i].made
           /\ fs[i].made /\ ~fs[i].undo => \A j \in 1 .. i : ~fs[j].undo
    BY <1>1, <1>4, <1>7
  <2> QED
    BY <1>2, <2>1 DEF EndedBelow
<1> QED
  BY <1>2, <1>6, <1>8, <1>10, <1>11

\* The functions that remain when one returns.
LEMMA EndedBelowPop ==
    ASSUME Len(frames) \in Nat, EndedBelow, Popped(frames', frames)
    PROVE  EndedBelow'
<1>1. \A i \in 1 .. Len(frames') : i \in 1 .. Len(frames) /\ frames'[i] = frames[i]
  BY DEF Popped
<1>2. ASSUME NEW i \in 1 .. Len(frames'), NEW j \in 1 .. i
      PROVE  j \in 1 .. Len(frames')
  BY DEF Popped
<1>3. ASSUME NEW i \in 1 .. Len(frames')
      PROVE  /\ frames'[i].undo => frames'[i].made
             /\ frames'[i].made /\ ~frames'[i].undo => \A j \in 1 .. i : ~frames'[j].undo
  BY Zenon, <1>1, <1>2 DEF EndedBelow
<1> QED
  BY <1>3 DEF EndedBelow

\* A function that can undo nothing returns and leaves SQLite alone.
LEMMA PlainReturn ==
    ASSUME SavepointTypeOK, Matched, EndedBelow, frames # <<>>, ~Top.undo,
           frames' = Front(frames), UNCHANGED marks
    PROVE  frames' \in Seq(Frame) /\ Matched' /\ EndedBelow'
<1>1. PICK h : Matching(h, frames, marks)
  BY DEF Matched
<1>2. /\ Len(frames) \in Nat /\ Len(marks) \in Nat /\ Top = frames[Len(frames)]
      /\ frames' \in Seq(Frame) /\ Popped(frames', frames)
  BY Stacks
<1>3. Matching(h, frames', marks)
  BY <1>1, <1>2, MatchPop
<1>4. Matched'
  <2>1. marks' = marks /\ h \in [1 .. Len(marks) -> 1 .. Len(frames')]
    BY <1>3 DEF Matching
  <2>2. \E g \in [1 .. Len(marks') -> 1 .. Len(frames')] : Matching(g, frames', marks')
    BY Zenon, <1>3, <2>1
  <2> QED
    BY <2>2 DEF Matched
<1>5. EndedBelow'
  BY <1>2, EndedBelowPop
<1> QED
  BY <1>2, <1>4, <1>5

\* A function returns after RELEASE of its savepoint.
LEMMA ReleaseTop ==
    ASSUME SavepointTypeOK, Matched, EndedBelow, Durable, frames # <<>>, Top.undo,
           frames' = Front(frames), RELEASE(Top.name)
    PROVE  /\ frames' \in Seq(Frame) /\ marks' \in Seq(Mark) /\ begun' \in BOOLEAN
           /\ db' = db /\ disk' \in {disk, db}
           /\ Matched' /\ EndedBelow' /\ Durable'
<1>1. PICK h : Matching(h, frames, marks)
  BY DEF Matched
<1>2. /\ Len(frames) \in Nat /\ Len(marks) \in Nat /\ Top = frames[Len(frames)]
      /\ frames' \in Seq(Frame) /\ Popped(frames', frames)
  BY Stacks
<1>3. /\ marks # <<>> /\ Find(Top.name) = Len(marks) /\ Len(marks) > 0
      /\ SubSeq(marks, 1, Len(marks) - 1) \in Seq(Mark)
      /\ Popped(SubSeq(marks, 1, Len(marks) - 1), marks)
  BY TopMark, Stacks
<1>4. /\ marks' \in Seq(Mark) /\ Popped(marks', marks) /\ begun' \in BOOLEAN
      /\ db' = db /\ disk' \in {disk, db}
  <2>1. CASE Len(marks) = 1 /\ ~begun
    <3>1. marks' = <<>> /\ begun' = FALSE /\ db' = db /\ disk' = db
      BY <1>3, <2>1 DEF RELEASE, Commit
    <3>2. <<>> \in Seq(Mark) /\ Len(<<>>) = 0
      BY EmptySeq
    <3>3. Popped(<<>>, marks)
      BY <2>1, <3>2 DEF Popped
    <3> QED
      BY Zenon, <3>1, <3>2, <3>3
  <2>2. CASE ~(Len(marks) = 1 /\ ~begun)
    <3>1. marks' = SubSeq(marks, 1, Len(marks) - 1) /\ UNCHANGED <<begun, db, disk>>
      BY <1>3, <2>2 DEF RELEASE
    <3> QED
      BY <1>3, <3>1 DEF SavepointTypeOK
  <2> QED
    BY <2>1, <2>2
<1>5. \E g \in [1 .. Len(marks') -> 1 .. Len(frames')] : Matching(g, frames', marks')
  BY <1>1, <1>2, <1>4, MatchPop
<1>6. Matched'
  BY <1>5 DEF Matched
<1>7. EndedBelow'
  BY <1>2, <1>4, EndedBelowPop
<1>8. Durable'
  <2>1. CASE Len(marks) = 1 /\ ~begun
    BY <1>3, <2>1 DEF RELEASE, Commit, Durable
  <2>2. CASE ~(Len(marks) = 1 /\ ~begun)
    <3>1. begun' = begun
      BY <1>3, <2>2 DEF RELEASE
    <3>2. Len(<<>>) = 0
      OBVIOUS
    <3>3. Len(marks') = Len(marks) - 1
      BY <1>4 DEF Popped
    <3>4. begun' \/ marks' # <<>>
      BY <1>2, <2>2, <1>3, <3>1, <3>2, <3>3
    <3>5. ASSUME marks' # <<>> PROVE marks'[1] = marks[1]
      <4>1. Len(marks') \in Nat /\ Len(marks') # 0
        BY <1>4, <3>5, EmptySeq
      <4>2. 1 \in 1 .. Len(marks')
        BY <4>1
      <4> QED
        BY <1>4, <4>2 DEF Popped
    <3>6. disk' = disk
      BY <1>3, <2>2 DEF RELEASE
    <3> QED
      BY <1>3, <3>1, <3>4, <3>5, <3>6 DEF Durable, GetAutocommit
  <2> QED
    BY <2>1, <2>2
<1> QED
  BY <1>2, <1>4, <1>6, <1>7, <1>8

-------------------------------------------------------------------------------
(* The invariant, action by action. *)
LEMMA SameStacks ==
    ASSUME UNCHANGED <<frames, marks>>
    PROVE  Matched' = Matched /\ EndedBelow' = EndedBelow /\ Top' = Top
BY DEF Matched, EndedBelow, Top

\* Savepoint is called: the invariant is kept.
LEMMA CallStep ==
    ASSUME SavepointTypeOK, InOrder, NEW f \in Functions, Call(f)
    PROVE  SavepointTypeOK' /\ InOrder'
<1> DEFINE e == [name |-> f, made |-> ~Interrupted, undo |-> ~Interrupted, at |-> goal]
           m == [name |-> f, data |-> db]
<1>1. /\ pc = "idle" /\ db = goal /\ frames' = Append(frames, e)
      /\ UNCHANGED <<begun, db, disk, pc, writes, goal>>
      /\ Interrupted => marks' = marks
      /\ ~Interrupted => marks' = Append(marks, m)
  BY DEF Call, Idle, SAVEPOINT, sqlite, InOrder, Releasing
<1>2. /\ e \in Frame /\ e.undo = ~Interrupted /\ e.made = ~Interrupted /\ e.name = f /\ e.at = goal
      /\ m \in Mark /\ m.name = f /\ m.data = db
  BY DEF SavepointTypeOK, Frame, Mark
<1> HIDE DEF e, m
<1>3. /\ frames' \in Seq(Frame) /\ Pushed(frames', frames, e) /\ Len(frames) \in Nat
      /\ marks \in Seq(Mark) /\ Len(marks) \in Nat
      /\ ~Interrupted => marks' \in Seq(Mark) /\ Pushed(marks', marks, m)
  <2>1. frames \in Seq(Frame) /\ marks \in Seq(Mark)
    BY DEF SavepointTypeOK
  <2>2. frames' \in Seq(Frame) /\ Pushed(frames', frames, e) /\ Len(frames) \in Nat
    <3>1. /\ Append(frames, e) \in Seq(Frame) /\ Pushed(Append(frames, e), frames, e)
          /\ Len(frames) \in Nat
      BY Zenon, <1>2, <2>1, PushedPopped
    <3> QED
      BY Zenon, <1>1, <3>1
  <2>3. /\ Append(marks, m) \in Seq(Mark) /\ Pushed(Append(marks, m), marks, m)
        /\ Len(marks) \in Nat
    BY Zenon, <1>2, <2>1, PushedPopped
  <2> QED
    BY Zenon, <1>1, <2>1, <2>2, <2>3
<1>4. Matched'
  <2>1. PICK h : Matching(h, frames, marks)
    BY <1>1 DEF InOrder, Matched
  <2>2. \E g \in [1 .. Len(marks') -> 1 .. Len(frames')] : Matching(g, frames', marks')
    <3>1. CASE Interrupted
      <4>1. Matching(h, frames', marks)
        BY Zenon, <1>2, <1>3, <2>1, <3>1, MatchPush
      <4>2. h \in [1 .. Len(marks) -> 1 .. Len(frames')]
        BY <4>1 DEF Matching
      <4> QED
        BY Zenon, <1>1, <3>1, <4>1, <4>2
    <3>2. CASE ~Interrupted
      <4>1. \A n, ns : /\ Pushed(ns, marks, n)
                       /\ e.undo /\ e.name = n.name /\ e.at = n.data
                       => \E g \in [1 .. Len(ns) -> 1 .. Len(frames')] :
                              Matching(g, frames', ns)
        BY <1>3, <2>1, MatchPush
      <4>2. Pushed(marks', marks, m) /\ e.undo /\ e.name = m.name /\ e.at = m.data
        BY Zenon, <1>1, <1>2, <1>3, <3>2
      <4> QED
        BY Zenon, <4>1, <4>2
    <3> QED
      BY <3>1, <3>2
  <2> QED
    BY <2>2 DEF Matched
<1>5. EndedBelow'
  <2>1. \A i \in 1 .. Len(frames') : i \in 1 .. Len(frames) \/ frames'[i] = e
    BY <1>3 DEF Pushed
  <2>2. \A i \in 1 .. Len(frames) : frames'[i] = frames[i]
    BY <1>3 DEF Pushed
  <2>3. ASSUME NEW i \in 1 .. Len(frames), NEW j \in 1 .. i PROVE j \in 1 .. Len(frames)
    BY <1>3
  <2>4. ASSUME NEW i \in 1 .. Len(frames')
        PROVE  /\ frames'[i].undo => frames'[i].made
               /\ frames'[i].made /\ ~frames'[i].undo =>
                     \A j \in 1 .. i : ~frames'[j].undo
    <3>1. CASE i \in 1 .. Len(frames)
      BY Zenon, <2>2, <2>3, <3>1 DEF EndedBelow, InOrder
    <3>2. CASE frames'[i] = e
      BY <1>2, <3>2
    <3> QED
      BY <2>1, <3>1, <3>2
  <2> QED
    BY <1>1, <2>4 DEF EndedBelow
<1>6. Durable'
  <2>1. CASE Interrupted
    BY <1>1, <2>1 DEF InOrder, Durable, GetAutocommit
  <2>2. CASE ~Interrupted
    <3>1. Len(marks') = Len(marks) + 1 /\ Len(<<>>) = 0
      BY <1>3, <2>2 DEF Pushed
    <3>2. marks' # <<>>
      BY <1>3, <3>1
    <3>3. CASE marks = <<>>
      <4>1. marks'[1] = m
        BY <1>3, <2>2, <3>1, <3>3 DEF Pushed
      <4> QED
        BY <1>1, <1>2, <3>2, <3>3, <4>1 DEF InOrder, Durable, GetAutocommit
    <3>4. CASE marks # <<>>
      <4>1. 1 \in 1 .. Len(marks)
        BY <1>3, <3>4, EmptySeq
      <4>2. marks'[1] = marks[1]
        BY <1>3, <2>2, <4>1 DEF Pushed
      <4> QED
        BY <1>1, <3>2, <3>4, <4>2 DEF InOrder, Durable, GetAutocommit
    <3> QED
      BY <3>3, <3>4
  <2> QED
    BY <2>1, <2>2
<1>7. Releasing'
  BY <1>1 DEF Releasing
<1>8. SavepointTypeOK'
  BY <1>1, <1>3 DEF SavepointTypeOK
<1> QED
  BY <1>4, <1>5, <1>6, <1>7, <1>8 DEF InOrder

\* A write in the innermost function.
LEMMA WriteStep ==
    ASSUME SavepointTypeOK, InOrder, Write
    PROVE  SavepointTypeOK' /\ InOrder'
<1>1. /\ pc = "idle" /\ db = goal
      /\ writes' = writes + 1 /\ db' = db \cup {writes'} /\ goal' = goal \cup {writes'}
      /\ disk' = IF GetAutocommit THEN db' ELSE disk
      /\ UNCHANGED <<frames, marks, begun, pc>>
  BY DEF Write, Idle, InOrder, Releasing
<1>2. Matched' /\ EndedBelow' /\ Durable'
  BY <1>1, SameStacks DEF InOrder, Durable, GetAutocommit
<1>3. Releasing'
  BY <1>1 DEF Releasing
<1>4. SavepointTypeOK'
  BY <1>1 DEF SavepointTypeOK
<1> QED
  BY <1>2, <1>3, <1>4 DEF InOrder

\* SQLite or the caller rolls the transaction back.
LEMMA AbortStep ==
    ASSUME SavepointTypeOK, InOrder, Abort
    PROVE  SavepointTypeOK' /\ InOrder'
<1>1. /\ pc' = "idle" /\ pc = "idle" /\ UNCHANGED <<disk, writes>>
      /\ db' = disk /\ goal' = disk /\ marks' = <<>> /\ begun' = FALSE
  BY DEF Abort, Idle, RollbackAll
<1>2. frames' \in Seq(Frame) /\ Matched' /\ EndedBelow'
  BY Zenon, <1>1, EndedStacks DEF Abort, InOrder
<1>3. Durable' /\ Releasing'
  BY <1>1 DEF Durable, Releasing
<1>4. SavepointTypeOK'
  BY Zenon, <1>1, <1>2, EmptySeq DEF SavepointTypeOK
<1> QED
  BY <1>2, <1>3, <1>4 DEF InOrder

\* The caller commits, from within a function too.
LEMMA EndStep ==
    ASSUME SavepointTypeOK, InOrder, End
    PROVE  SavepointTypeOK' /\ InOrder'
<1>1. /\ pc' = "idle" /\ pc = "idle" /\ UNCHANGED <<db, goal, writes>> /\ db = goal
      /\ disk' = db /\ marks' = <<>> /\ begun' = FALSE
  BY DEF End, Idle, Commit, InOrder, Releasing
<1>2. frames' \in Seq(Frame) /\ Matched' /\ EndedBelow'
  BY Zenon, <1>1, EndedStacks DEF End, InOrder
<1>3. Durable' /\ Releasing'
  BY <1>1 DEF Durable, Releasing
<1>4. SavepointTypeOK'
  BY Zenon, <1>1, <1>2, EmptySeq DEF SavepointTypeOK
<1> QED
  BY <1>2, <1>3, <1>4 DEF InOrder

\* The caller begins a transaction.
LEMMA BeginStep ==
    ASSUME SavepointTypeOK, InOrder, Begin
    PROVE  SavepointTypeOK' /\ InOrder'
<1>1. /\ pc' = "idle" /\ pc = "idle" /\ begun' = TRUE /\ db = goal
      /\ UNCHANGED <<frames, marks, db, disk, writes, goal>>
  BY DEF Begin, Idle, InOrder, Releasing
<1>2. Matched' /\ EndedBelow'
  BY <1>1, SameStacks DEF InOrder
<1>3. Durable' /\ Releasing'
  BY <1>1 DEF Durable, Releasing, GetAutocommit
<1>4. SavepointTypeOK'
  BY <1>1 DEF SavepointTypeOK
<1> QED
  BY <1>2, <1>3, <1>4 DEF InOrder

\* The context, its goroutine and the rows only decide what the next step does.
LEMMA ContextStep ==
    ASSUME SavepointTypeOK, InOrder,
           Query \/ Reset \/ Cancel \/ sendInterrupt \/ SetInterrupt
    PROVE  SavepointTypeOK' /\ InOrder'
<1>1. /\ UNCHANGED <<frames, marks, begun, db, disk, pc, error, cause, writes, goal>>
      /\ pc \in {"idle", "RELEASE"} \/ UNCHANGED <<row, flag>>
  BY DEF Query, Reset, Cancel, sendInterrupt, SetInterrupt, sqlite, Idle, Interrupted
<1>2. SavepointTypeOK' /\ Durable'
  BY <1>1 DEF SavepointTypeOK, InOrder, Durable, GetAutocommit
<1>3. Releasing'
  BY <1>1, SameStacks DEF InOrder, Releasing
<1> QED
  BY <1>1, <1>2, <1>3, SameStacks DEF InOrder

\* The function on top can undo, or has no savepoint; it may be that another
\* transaction was begun since its own has ended, without savepoints so far.
LEMMA TopCanUndo ==
    ASSUME SavepointTypeOK, Matched, EndedBelow, frames # <<>>
    PROVE  /\ ~Top.made \/ GetAutocommit => ~Top.undo
           /\ Top.made /\ ~Top.undo => marks = <<>>
<1>1. /\ Len(frames) \in Nat /\ Len(frames) \in 1 .. Len(frames)
      /\ Top = frames[Len(frames)] /\ Len(marks) \in Nat
      /\ (Len(marks) = 0 <=> marks = <<>>)
  BY Stacks
<1>2. ~Top.made => ~Top.undo
  BY <1>1 DEF EndedBelow
<1>3. GetAutocommit => ~Top.undo
  BY TopMark DEF GetAutocommit
<1>4. ASSUME Top.made, ~Top.undo PROVE marks = <<>>
  <2>1. \A j \in 1 .. Len(frames) : ~frames[j].undo
    BY <1>1, <1>4 DEF EndedBelow
  <2>2. PICK h : Matching(h, frames, marks)
    BY DEF Matched
  <2>3. 1 \notin 1 .. Len(marks)
    BY <2>1, <2>2 DEF Matching
  <2> QED
    BY <1>1, <2>3
<1> QED
  BY <1>2, <1>3, <1>4

\* The release function starts, after success, an error or a panic.
LEMMA ReleaseStep ==
    ASSUME SavepointTypeOK, InOrder, NEW err \in {"nil", "error", "panic"}, release(err)
    PROVE  SavepointTypeOK' /\ InOrder'
<1>1. /\ pc = "idle" /\ db = goal /\ frames # <<>> /\ cause' = "nil"
      /\ UNCHANGED <<marks, begun, db, disk, row, writes>>
  BY DEF release, Idle, sqlite, InOrder, Releasing
<1>2. Matched /\ EndedBelow /\ Durable
  BY <1>1 DEF InOrder
<1>3. Durable'
  BY <1>1, <1>2 DEF Durable, GetAutocommit
<1>4. CASE ~Top.made \/ GetAutocommit
  <2>1. ~Top.undo
    BY <1>1, <1>2, <1>4, TopCanUndo
  <2>2. \E r \in {"nil", "error", "panic"} : Leave(r)
    BY <1>4 DEF release
  <2>3. pc' = "idle" /\ goal' = goal /\ frames' = Front(frames)
    BY <2>1, <2>2 DEF Leave
  <2>4. frames' \in Seq(Frame) /\ Matched' /\ EndedBelow'
    BY <1>1, <1>2, <2>1, <2>3, PlainReturn
  <2>5. SavepointTypeOK'
    BY <1>1, <2>3, <2>4 DEF SavepointTypeOK
  <2>6. Releasing'
    BY <1>1, <2>3 DEF Releasing
  <2> QED
    BY <1>3, <2>4, <2>5, <2>6 DEF InOrder
<1>5. CASE Top.made /\ ~GetAutocommit
  <2>1. /\ pc' = IF err = "nil" THEN "RELEASE" ELSE "ROLLBACK_TO"
        /\ error' = err /\ UNCHANGED <<frames, goal>>
        /\ flag' = (flag /\ (row \/ pc' # "ROLLBACK_TO"))
    BY <1>5 DEF release
  <2>2. Matched' /\ EndedBelow' /\ Top' = Top
    BY <1>1, <1>2, <2>1, SameStacks
  <2>3. SavepointTypeOK'
    BY <1>1, <2>1 DEF SavepointTypeOK
  <2>4. Releasing'
    BY <1>1, <1>5, <2>1, <2>2 DEF Releasing
  <2> QED
    BY <1>3, <2>2, <2>3, <2>4 DEF InOrder
<1> QED
  BY <1>4, <1>5

\* RELEASE succeeds, or fails and becomes a rollback.
LEMMA SucceedStep ==
    ASSUME SavepointTypeOK, InOrder, Succeed
    PROVE  SavepointTypeOK' /\ InOrder'
<1>1. /\ pc = "RELEASE" /\ error = "nil" /\ db = goal /\ frames # <<>> /\ Top.made
      /\ UNCHANGED <<row, writes>>
  BY DEF Succeed, InOrder, Releasing
<1>2. Matched /\ EndedBelow /\ Durable
  BY <1>1 DEF InOrder
<1>3. ASSUME Find(Top.name) > 0 PROVE Top.undo
  BY <1>1, <1>2, <1>3, TopCanUndo, FindNone
<1>4. CASE RELEASE(Top.name) /\ Leave(error)
  <2>1. pc' = "idle" /\ goal' = goal /\ frames' = Front(frames) /\ Top.undo
    BY <1>1, <1>3, <1>4 DEF Leave, RELEASE
  <2>2. /\ frames' \in Seq(Frame) /\ marks' \in Seq(Mark) /\ begun' \in BOOLEAN
        /\ db' = db /\ disk' \in {disk, db}
        /\ Matched' /\ EndedBelow' /\ Durable'
    BY <1>1, <1>2, <1>4, <2>1, ReleaseTop
  <2>3. SavepointTypeOK'
    BY <1>1, <2>1, <2>2 DEF SavepointTypeOK
  <2>4. Releasing'
    BY <1>1, <2>1, <2>2 DEF Releasing
  <2> QED
    BY <2>2, <2>3, <2>4 DEF InOrder
<1>5. ASSUME NEW code \in {"INTERRUPT", "ERROR", "BUSY"}, cause' = code, UNCHANGED sqlite,
             pc' = "ROLLBACK_TO", error' = "error", flag' => row, UNCHANGED <<frames, goal>>
      PROVE  SavepointTypeOK' /\ InOrder'
  <2>1. UNCHANGED <<marks, begun, db, disk>>
    BY <1>5 DEF sqlite
  <2>2. Matched' /\ EndedBelow' /\ Top' = Top
    BY <1>2, <1>5, <2>1, SameStacks
  <2>3. SavepointTypeOK' /\ Durable'
    BY <1>1, <1>2, <1>5, <2>1 DEF SavepointTypeOK, Durable, GetAutocommit
  <2>4. Releasing'
    BY <1>1, <1>5, <2>1, <2>2 DEF Releasing
  <2> QED
    BY <2>2, <2>3, <2>4 DEF InOrder
<1>6. ASSUME Find(Top.name) = 1, ~begun,
             RollbackAll, cause' = "IOERR", pc' = "ROLLBACK_TO", error' = "error",
             flag' => row, UNCHANGED <<frames, goal>>
      PROVE  SavepointTypeOK' /\ InOrder'
  <2>1. db' = disk /\ disk' = disk /\ marks' = <<>> /\ begun' = FALSE /\ Top.undo
    BY <1>3, <1>6 DEF RollbackAll
  <2>2. EndedBelow' /\ Durable'
    BY <1>2, <1>6, <2>1 DEF EndedBelow, Durable
  <2>3. SavepointTypeOK'
    BY Zenon, <1>1, <1>6, <2>1, EmptySeq DEF SavepointTypeOK
  <2>4. Top' = Top /\ Top.at = disk
    <3>1. Find(Top.name) = Len(marks) /\ marks # <<>> /\ marks[Len(marks)].data = Top.at
      BY <1>1, <1>2, <2>1, TopMark
    <3>2. marks[1].data = Top.at
      BY <1>6, <3>1
    <3> QED
      BY <1>2, <1>6, <3>1, <3>2 DEF Durable, Top
  <2>5. Releasing'
    BY <1>1, <1>6, <2>1, <2>4 DEF Releasing
  <2> QED
    BY <1>6, <2>2, <2>3, <2>5 DEF InOrder
<1>7. CASE ~(RELEASE(Top.name) /\ Leave(error))
  <2>1. /\ pc' = "ROLLBACK_TO" /\ error' = "error" /\ UNCHANGED <<frames, goal>>
        /\ flag' => row
    BY <1>7 DEF Succeed
  <2>2. PICK code \in {"INTERRUPT", "ERROR", "BUSY", "IOERR"} :
           ReleaseFails(Top.name, code) /\ cause' = code
    BY <1>7 DEF Succeed
  <2>3. CASE UNCHANGED sqlite /\ code # "IOERR"
    BY <1>5, <2>1, <2>2, <2>3
  <2>4. CASE code = "IOERR"
    <3>1. Find(Top.name) = 1 /\ ~begun /\ RollbackAll
      BY <2>2, <2>4 DEF ReleaseFails
    <3> QED
      BY <1>6, <2>1, <2>2, <2>4, <3>1
  <2>5. UNCHANGED sqlite \/ code = "IOERR"
    BY <2>2, SavepointAssumption DEF ReleaseFails
  <2> QED
    BY <2>3, <2>4, <2>5
<1> QED
  BY <1>4, <1>7

\* ROLLBACK TO, unless it panics.
LEMMA RollBackStep ==
    ASSUME SavepointTypeOK, InOrder, RollBack, ~panicked'
    PROVE  SavepointTypeOK' /\ InOrder'
<1>1. /\ pc = "ROLLBACK_TO" /\ error # "nil" /\ frames # <<>> /\ Top.made
      /\ ROLLBACKTO(Top.name) /\ pc' = "RELEASE_again" /\ ~flag
      /\ UNCHANGED <<frames, flag, error, goal, cause, writes>>
  BY DEF RollBack, Interrupted, InOrder, Releasing
<1>2. marks # <<>>
  BY <1>1, FindNone DEF ROLLBACKTO
<1>3. Top.undo /\ Matched /\ EndedBelow
  <2>1. Matched /\ EndedBelow
    BY <1>1, <1>2 DEF InOrder, Releasing
  <2> QED
    BY <1>1, <1>2, <2>1, TopCanUndo
<1>4. /\ marks # <<>> /\ Find(Top.name) = Len(marks) /\ marks[Len(marks)].data = Top.at
      /\ SubSeq(marks, 1, Len(marks)) = marks /\ Top \in Frame
  BY <1>1, <1>3, TopMark, Stacks
<1>5. marks' = marks /\ db' = Top.at /\ UNCHANGED <<begun, disk>>
  BY <1>1, <1>4 DEF ROLLBACKTO
<1>6. Matched' /\ EndedBelow' /\ Top' = Top
  BY <1>1, <1>3, <1>5, SameStacks
<1>7. Durable'
  BY <1>4, <1>5 DEF InOrder, Durable, GetAutocommit
<1>8. Releasing'
  BY <1>1, <1>3, <1>5, <1>6 DEF Releasing
<1>9. SavepointTypeOK'
  BY <1>1, <1>4, <1>5 DEF SavepointTypeOK, Frame
<1> QED
  BY <1>6, <1>7, <1>8, <1>9 DEF InOrder

\* The second RELEASE, unless it panics.
LEMMA ReleaseAgainStep ==
    ASSUME SavepointTypeOK, InOrder, ReleaseAgain, ~panicked'
    PROVE  SavepointTypeOK' /\ InOrder'
<1>1. /\ pc = "RELEASE_again" /\ error # "nil" /\ frames # <<>> /\ Top.undo /\ db = Top.at
      /\ RELEASE(Top.name) /\ Leave(error) /\ UNCHANGED writes
  BY DEF ReleaseAgain, InOrder, Releasing
<1>2. Matched /\ EndedBelow /\ Durable
  BY <1>1 DEF InOrder
<1>3. pc' = "idle" /\ goal' = Top.at /\ frames' = Front(frames)
  BY <1>1 DEF Leave
<1>4. /\ frames' \in Seq(Frame) /\ marks' \in Seq(Mark) /\ begun' \in BOOLEAN
      /\ db' = db /\ disk' \in {disk, db}
      /\ Matched' /\ EndedBelow' /\ Durable'
  BY <1>1, <1>2, <1>3, ReleaseTop
<1>5. Releasing'
  BY <1>1, <1>3, <1>4 DEF Releasing
<1>6. SavepointTypeOK'
  BY <1>1, <1>3, <1>4 DEF SavepointTypeOK
<1> QED
  BY <1>4, <1>5, <1>6 DEF InOrder

\* Initially there are no functions and no savepoints.
LEMMA InitInv == Init => SavepointInv
<1> SUFFICES ASSUME Init PROVE SavepointTypeOK /\ InOrder
  BY DEF SavepointInv
<1>1. Len(<<>>) = 0 /\ <<>> \in Seq(Frame) /\ <<>> \in Seq(Mark)
  BY EmptySeq
<1>2. SavepointTypeOK
  BY Zenon, <1>1 DEF Init, SavepointTypeOK
<1>3. EndedBelow /\ Durable /\ Releasing
  BY <1>1 DEF Init, EndedBelow, Durable, Releasing
<1>4. \E h \in [1 .. Len(<<>>) -> 1 .. Len(frames)] : Matching(h, frames, <<>>)
  BY <1>1, MatchNone DEF Init
<1>5. Matched
  BY Zenon, <1>4 DEF Init, Matched
<1> QED
  BY <1>2, <1>3, <1>5 DEF InOrder

\* Every step keeps the invariant.
LEMMA NextInv == SavepointInv /\ [Next]_vars => SavepointInv'
<1> SUFFICES ASSUME SavepointInv, [Next]_vars, ~panicked'
             PROVE  SavepointTypeOK' /\ InOrder'
  BY DEF SavepointInv
<1>1. ~panicked
  BY Zenon DEF Next, vars, Call, Write, Abort, Begin, End, Query, Reset, Cancel,
         sendInterrupt, SetInterrupt, release, Succeed, RollBack, ReleaseAgain
<1>2. SavepointTypeOK /\ InOrder
  BY <1>1 DEF SavepointInv
<1>3. CASE \E f \in Functions : Call(f)
  BY <1>2, <1>3, CallStep
<1>4. CASE Write
  BY <1>2, <1>4, WriteStep
<1>5. CASE Abort
  BY <1>2, <1>5, AbortStep
<1>6. CASE Begin
  BY <1>2, <1>6, BeginStep
<1>7. CASE End
  BY <1>2, <1>7, EndStep
<1>8. CASE Query \/ Reset \/ Cancel \/ sendInterrupt \/ SetInterrupt
  BY <1>2, <1>8, ContextStep
<1>9. CASE \E err \in {"nil", "error", "panic"} : release(err)
  BY <1>2, <1>9, ReleaseStep
<1>10. CASE Succeed
  BY <1>2, <1>10, SucceedStep
<1>11. CASE RollBack
  BY <1>2, <1>11, RollBackStep
<1>12. CASE ReleaseAgain
  BY <1>2, <1>12, ReleaseAgainStep
<1>13. CASE UNCHANGED vars
  <2>1. UNCHANGED <<frames, marks, begun, db, disk, row, flag, pc, error, cause, writes, goal>>
    BY <1>13 DEF vars, sqlite
  <2>2. SavepointTypeOK' /\ Durable'
    BY <1>2, <2>1 DEF SavepointTypeOK, InOrder, Durable, GetAutocommit
  <2>3. Releasing'
    BY <1>2, <2>1, SameStacks DEF InOrder, Releasing
  <2> QED
    BY <1>2, <2>1, <2>2, <2>3, SameStacks DEF InOrder
<1> QED
  BY <1>3, <1>4, <1>5, <1>6, <1>7, <1>8, <1>9, <1>10, <1>11, <1>12, <1>13 DEF Next

\* So it always holds.
LEMMA SavepointInvariant == Spec => []SavepointInv
BY InitInv, NextInv, PTL DEF Spec

-------------------------------------------------------------------------------
\* Whenever no release function is running, the data is what the functions
\* meant: those that failed have undone what they and their callees wrote,
\* those that succeeded have kept it.  A failing release that rolls back the
\* callers' savepoints too, or RELEASE without ROLLBACK TO, would break it.
THEOREM DataAsMeant == Spec => []AsMeant
<1>1. SavepointInv => AsMeant
  BY DEF SavepointInv, InOrder, Releasing, AsMeant, Idle
<1> QED
  BY <1>1, SavepointInvariant, PTL

\* When the outermost function has returned, on any path, the transaction its
\* savepoint began is over and what was meant is committed.
THEOREM NoSavepointLeft == Spec => []Settled
<1>1. SavepointInv => Settled
  <2> SUFFICES ASSUME SavepointTypeOK, InOrder, pc = "idle", frames = <<>>, ~begun
               PROVE  GetAutocommit /\ disk = goal
    BY DEF SavepointInv, Settled, Idle
  <2>1. Len(frames) = 0 /\ Len(marks) \in Nat /\ (Len(marks) = 0 <=> marks = <<>>)
    BY Stacks
  <2>2. PICK h : Matching(h, frames, marks)
    BY DEF InOrder, Matched
  <2>3. 1 \notin 1 .. Len(marks)
    BY <2>1, <2>2 DEF Matching
  <2>4. GetAutocommit
    BY <2>1, <2>3 DEF GetAutocommit
  <2> QED
    BY <2>4 DEF InOrder, Durable, Releasing
<1> QED
  BY <1>1, SavepointInvariant, PTL

\* Whichever statement of the release function fails, the data is as the
\* function found it, unless a query on a row has kept the interrupt for ROLLBACK
\* TO, which leaves the savepoint to go back to.  Otherwise the release function
\* panics only because a commit has failed, or because the transaction was ended
\* under the function and another begun.
THEOREM AlwaysRolledBack == Spec => AlwaysRollback
<1> DEFINE Undone == /\ db' = goal'
                     /\ \/ pc = "ROLLBACK_TO" /\ (cause = "IOERR" \/ ~Top.undo)
                        \/ pc = "RELEASE_again" /\ Find(Top.name) = 1 /\ ~begun
           CanUndo == \E i \in DOMAIN marks' :
                         marks'[i].name = Top.name /\ marks'[i].data = goal'
           Kept == pc = "ROLLBACK_TO" /\ flag /\ row /\ CanUndo
<1>1. SavepointInv /\ [Next]_vars => [~panicked /\ panicked' => Undone \/ Kept]_vars
  <2> SUFFICES ASSUME SavepointTypeOK, InOrder, Next, ~panicked, panicked'
               PROVE  Undone \/ Kept
    BY DEF SavepointInv, vars
  <2>1. RollBack \/ ReleaseAgain
    BY Zenon DEF Next, Call, Write, Abort, Begin, End, Query, Reset, Cancel, sendInterrupt,
           SetInterrupt, release, Succeed
  <2>2. CASE RollBack
    <3>1. /\ pc = "ROLLBACK_TO" /\ (flag \/ Find(Top.name) = 0)
          /\ Leave("panic") /\ UNCHANGED <<marks, db>>
      BY Zenon, <2>2 DEF RollBack, Interrupted, sqlite
    <3>2. /\ frames # <<>> /\ Top.made /\ (flag => row)
          /\ cause = "IOERR" => Top.undo /\ db = Top.at
          /\ ~Top.undo => db = goal
      BY <3>1 DEF InOrder, Releasing
    <3>3. goal' = IF Top.undo THEN Top.at ELSE goal
      BY <3>1 DEF Leave
    <3>4. CASE cause = "IOERR" \/ ~Top.undo
      BY <3>1, <3>2, <3>3, <3>4
    <3>5. CASE cause # "IOERR" /\ Top.undo
      <4>1. Matched
        BY <3>5 DEF InOrder
      <4>2. /\ marks # <<>> /\ Find(Top.name) = Len(marks)
            /\ marks[Len(marks)].data = Top.at /\ marks[Len(marks)].name = Top.name
        BY <3>2, <3>5, <4>1, TopMark
      <4>3. Len(marks) \in DOMAIN marks /\ Find(Top.name) # 0
        BY <4>2, Stacks, LenProperties DEF SavepointTypeOK
      <4> HIDE DEF Kept, Undone
      <4>4. CanUndo
        BY <3>1, <3>3, <3>5, <4>2, <4>3
      <4> QED
        BY <3>1, <3>2, <4>3, <4>4 DEF Kept
    <3> QED
      BY <3>4, <3>5
  <2>3. CASE ReleaseAgain
    <3>1. PICK code : ReleaseFails(Top.name, code) /\ Leave("panic")
      BY Zenon, <2>3 DEF ReleaseAgain
    <3>2. /\ pc = "RELEASE_again" /\ frames # <<>> /\ Top.undo /\ db = Top.at
          /\ Matched /\ Durable /\ ~Interrupted
      BY <2>3 DEF ReleaseAgain, InOrder, Releasing, Interrupted
    <3>3. /\ Find(Top.name) = Len(marks) /\ Find(Top.name) > 0
          /\ marks # <<>> /\ marks[Len(marks)].data = Top.at
      BY <3>2, TopMark, Stacks
    <3>4. Find(Top.name) = 1 /\ ~begun /\ (UNCHANGED sqlite \/ RollbackAll)
      BY <3>1, <3>2, <3>3 DEF ReleaseFails
    <3>5. marks[1].data = Top.at
      BY <3>3, <3>4
    <3>6. disk = Top.at
      BY <3>2, <3>3, <3>4, <3>5 DEF Durable
    <3>7. db' = Top.at
      BY <3>2, <3>4, <3>6 DEF sqlite, RollbackAll
    <3> QED
      BY <3>1, <3>2, <3>4, <3>7 DEF Leave
  <2> QED
    BY <2>1, <2>2, <2>3
<1> QED
  BY <1>1, SavepointInvariant, PTL DEF Spec, AlwaysRollback
===============================================================================

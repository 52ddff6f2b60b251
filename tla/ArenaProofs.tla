------------------------------ MODULE ArenaProofs ------------------------------
(***************************************************************************)
(* Proofs about Arena, for any word, memory, block and requests.           *)
(***************************************************************************)
EXTENDS Arena, Integers, TLAPS

\* Blocks do not overlap, and the arena's block is the one of its owner.
HeapApart ==
    /\ \A b, c \in heap : b = c \/ Apart(b, c)
    /\ \A b \in heap : b.owner = "base" => b = BaseBlock
    /\ pc # "freed" => BaseBlock \in heap

\* An argument lies in the part of the arena's block that is given out, or at
\* the start of a block of its own.  A request that wraps next around is
\* followed by a panic.
InBase(r) == Within(r, BaseBlock) /\ (pc = "ok" => r.ptr + r.size <= Base + next)

\* A range lies at the start of a block of this owner.
AtStart(r, owner) == \E b \in heap : b.owner = owner /\ b.ptr = r.ptr /\ r.size <= b.size

\* Every argument has its place, and no two arguments overlap.
UsedHeld ==
    /\ \A r \in used : (pc # "freed" /\ InBase(r)) \/ AtStart(r, "arena")
    /\ \A r, s \in used : r = s \/ Apart(r, s)

\* A value is bound in a block of its own.
BoundHeld ==
    /\ \A v \in bound : AtStart(v, "bound")
    /\ \A v, w \in bound : v.ptr = w.ptr => v = w

\* FreedOnce, element by element.
PtrsHeld ==
    /\ \A i \in DOMAIN ptrs : \E b \in heap : b.owner = "arena" /\ b.ptr = ptrs[i]
    /\ \A b \in heap : b.owner = "arena" => \E i \in DOMAIN ptrs : ptrs[i] = b.ptr
    /\ \A i, j \in DOMAIN ptrs : ptrs[i] = ptrs[j] => i = j

\* The inductive invariant.
ArenaInv == TypeOK /\ HeapApart /\ UsedHeld /\ BoundHeld /\ PtrsHeld
-------------------------------------------------------------------------------
(* Words. *)
\* The remainder by the word size never grows, and keeps what fits.
LEMMA WordFacts ==
    ASSUME NEW a \in Nat
    PROVE  a % Word \in 0 .. Word - 1 /\ a % Word <= a /\ (a < Word => a % Word = a)
  BY ArenaAssumption
-------------------------------------------------------------------------------
(* Blocks. *)
\* What ArenaAssumption says of the constants, one by one.
LEMMA Constants ==
    /\ Word \in Nat /\ MemSize \in Nat /\ Base \in Nat /\ Size \in Nat /\ PtrLen \in Nat
    /\ MaxLength \in Nat
    /\ 0 < Base /\ 0 < Size /\ Base + Size <= MemSize /\ MemSize <= Word
    /\ 0 < PtrLen /\ Size + PtrLen < Word
    /\ MaxLength + 1 < Word
  BY ArenaAssumption

\* The values that the types give to addresses and sizes.
LEMMA HeapTypes ==
    ASSUME TypeOK
    PROVE  /\ next \in Nat /\ next <= Size
           /\ \A b \in heap : b.ptr \in Nat /\ b.ptr >= 1 /\ b.size \in Nat /\ b.size >= 1
           /\ \A r \in used \cup bound : r.ptr \in Nat /\ r.ptr >= 1 /\ r.size \in Nat
  BY Constants DEF TypeOK

\* malloc has handed out a block of n bytes.
Adds(ptr, n, owner) ==
    /\ ptr \in 1 .. MemSize /\ n \in 1 .. MemSize
    /\ \A b \in heap : Apart(At(ptr, n), b)
    /\ heap' = heap \cup {Block(ptr, n, owner)}

\* malloc fails, or hands out a block that is large enough.
LEMMA MallocAdds ==
    ASSUME NEW ptr \in 0 .. MemSize, NEW size \in Nat, NEW owner, malloc(ptr, size, owner)
    PROVE  \/ ptr = 0 /\ UNCHANGED heap
           \/ \E n \in 1 .. MemSize : size <= n /\ Adds(ptr, n, owner)
<1> USE ArenaAssumption
<1>1. CASE ptr = 0 /\ UNCHANGED heap
  BY <1>1
<1>2. CASE /\ ptr > 0 /\ size > 0 /\ ptr + size <= MemSize
           /\ \A b \in heap : Apart(At(ptr, size), b)
           /\ heap' = heap \cup {Block(ptr, size, owner)}
  BY <1>2 DEF Adds
<1>3. CASE /\ ptr \in 1 .. MemSize - 1 /\ size = 0
           /\ \A b \in heap : Apart(At(ptr, 1), b)
           /\ heap' = heap \cup {Block(ptr, 1, owner)}
  BY <1>3 DEF Adds
<1> QED
  BY <1>1, <1>2, <1>3 DEF malloc

\* The blocks are as they were, or one more.
LEMMA AddsHeap ==
    ASSUME TypeOK, HeapApart, NEW ptr, NEW n, NEW owner \in {"arena", "bound", "leaked"},
           Adds(ptr, n, owner), pc # "freed" \/ pc' = "freed"
    PROVE  /\ HeapApart'
           /\ heap' \subseteq [ptr : 1 .. MemSize, size : 1 .. MemSize,
                               owner : {"base", "arena", "bound", "leaked"}]
           /\ \A b \in heap : b.ptr # ptr
<1> DEFINE block == Block(ptr, n, owner)
<1>1. block.ptr = ptr /\ block.size = n /\ block.owner = owner
  BY DEF Block
<1>2. ASSUME NEW b \in heap
      PROVE  Apart(block, b) /\ Apart(b, block) /\ b.ptr # ptr
  <2>1. ptr \in Nat /\ n \in Nat /\ n >= 1
    BY Constants DEF Adds
  <2>2. b.ptr \in Nat /\ b.size \in Nat /\ b.size >= 1
    BY HeapTypes
  <2>3. Apart(At(ptr, n), b)
    BY DEF Adds
  <2>4. At(ptr, n).ptr = ptr /\ At(ptr, n).size = n
    BY DEF At
  <2> HIDE DEF block
  <2>5. ptr + n <= b.ptr \/ b.ptr + b.size <= ptr
    BY <2>3, <2>4 DEF Apart
  <2> QED
    BY <1>1, <2>1, <2>2, <2>5 DEF Apart
<1>3. heap' = heap \cup {block}
  BY DEF Adds
<1>4. block \in [ptr : 1 .. MemSize, size : 1 .. MemSize,
               owner : {"base", "arena", "bound", "leaked"}]
  BY DEF Adds, Block
<1> HIDE DEF block
<1>5. HeapApart'
  BY <1>1, <1>2, <1>3 DEF HeapApart, BaseBlock
<1> QED
  BY <1>2, <1>3, <1>4, <1>5 DEF TypeOK

\* An argument and a value that is bound do not overlap.
LEMMA HeldApart ==
    ASSUME ArenaInv, NEW r \in used, NEW v \in bound,
           \E b \in heap : b.owner \in {"base", "arena"} /\ Within(r, b)
    PROVE  Apart(r, v) /\ Apart(v, r)
<1>1. PICK b \in heap : b.owner \in {"base", "arena"} /\ Within(r, b)
  OBVIOUS
<1>2. PICK c \in heap : c.owner = "bound" /\ c.ptr = v.ptr /\ v.size <= c.size
  BY DEF ArenaInv, BoundHeld, AtStart
<1>3. Apart(b, c)
  BY <1>1, <1>2 DEF ArenaInv, HeapApart
<1> QED
  BY <1>1, <1>2, <1>3, HeapTypes DEF ArenaInv, Apart, Within
-------------------------------------------------------------------------------
(* arena.new. *)
\* What a call of arena.new comes to.
Carves(size, ptr) == ptr = Base + next /\ UNCHANGED <<ptrs, heap>>

\* new carves the request from the block, fails, or adds a block for it alone.
LEMMA NewOutcome ==
    ASSUME TypeOK, NEW size \in 0 .. Word - 1, NEW ptr \in 0 .. MemSize, new(size, ptr)
    PROVE  \/ /\ Carves(size, ptr) /\ next' \in 0 .. Size
              /\ next + size < Word => next' = next + size
           \/ ptr = 0 /\ UNCHANGED <<next, ptrs, heap>>
           \/ /\ ptrs' = Append(ptrs, ptr) /\ UNCHANGED next
              /\ \E n \in 1 .. MemSize : size <= n /\ Adds(ptr, n, "arena")
<1> USE Constants
<1>0. next \in Nat /\ size \in Nat
  BY DEF TypeOK
<1>1. CASE /\ (next + size) % Word <= Size
           /\ ptr = Base + next
           /\ next' = (next + size) % Word
           /\ UNCHANGED <<ptrs, heap>>
  <2>1. next + size \in Nat
    BY <1>0
  <2>2. next' \in Nat /\ (next + size < Word => next' = next + size)
    BY <1>1, <2>1, WordFacts
  <2> QED
    BY <1>1, <2>2 DEF Carves
<1>2. CASE (next + size) % Word > Size /\ NewBlock(size, ptr)
  <2>1. CASE ptr = 0
    <3>1. UNCHANGED heap
      BY <1>2, <2>1 DEF NewBlock, malloc
    <3> QED
      BY <1>2, <2>1, <3>1 DEF NewBlock
  <2>2. CASE ptr # 0
    <3>1. \E n \in 1 .. MemSize : size <= n /\ Adds(ptr, n, "arena")
      BY <1>0, <1>2, <2>2, MallocAdds DEF NewBlock
    <3> QED
      BY <1>2, <2>2, <3>1 DEF NewBlock
  <2> QED
    BY <2>1, <2>2
<1> QED
  BY <1>1, <1>2 DEF new

\* An argument is carved off the arena's block.
LEMMA CarvesInv ==
    ASSUME ArenaInv, pc = "ok", NEW m \in Nat, NEW ptr, Carves(m, ptr),
           next' = next + m, next' \in 0 .. Size,
           used' = used \cup {At(ptr, m)}, UNCHANGED <<bound, pc>>
    PROVE  ArenaInv'
<1> DEFINE arg == At(ptr, m)
<1>0. arg.ptr = Base + next /\ arg.size = m
  BY DEF At, Carves
<1>1. TypeOK'
  BY Constants DEF ArenaInv, TypeOK, At, Carves
<1>2. HeapApart' /\ BoundHeld' /\ PtrsHeld'
  BY DEF ArenaInv, HeapApart, BoundHeld, PtrsHeld, AtStart, Carves
<1>3. \A s \in used : Apart(arg, s) /\ Apart(s, arg)
  <2> TAKE s \in used
  <2>1. CASE InBase(s)
    BY <1>0, <2>1, Constants, HeapTypes DEF ArenaInv, InBase, Apart
  <2>2. CASE AtStart(s, "arena")
    <3>1. PICK b \in heap : b.owner = "arena" /\ b.ptr = s.ptr /\ s.size <= b.size
      BY <2>2 DEF AtStart
    <3>2. Apart(b, BaseBlock)
      BY <3>1 DEF ArenaInv, HeapApart, BaseBlock, Block
    <3> QED
      BY <1>0, <3>1, <3>2, Constants, HeapTypes DEF ArenaInv, Apart, BaseBlock, Block
  <2> QED
    BY <2>1, <2>2 DEF ArenaInv, UsedHeld
<1>4. InBase(arg)'
  BY <1>0, Constants, HeapTypes DEF ArenaInv, InBase, Within, BaseBlock, Block
<1>5. \A s \in used : (InBase(s) \/ AtStart(s, "arena"))'
  BY Constants, HeapTypes DEF ArenaInv, UsedHeld, InBase, AtStart, Carves
<1> HIDE DEF arg
<1>6. UsedHeld'
  BY <1>3, <1>4, <1>5 DEF ArenaInv, UsedHeld, arg
<1> QED
  BY <1>1, <1>2, <1>6 DEF ArenaInv

\* What appending to ptrs does to its elements.
LEMMA AppendFacts ==
    ASSUME NEW s \in Seq(1 .. MemSize), NEW e \in 1 .. MemSize
    PROVE  /\ Append(s, e) \in Seq(1 .. MemSize)
           /\ DOMAIN s = 1 .. Len(s) /\ Len(s) \in Nat
           /\ DOMAIN Append(s, e) = 1 .. Len(s) + 1
           /\ \A i \in 1 .. Len(s) : Append(s, e)[i] = s[i]
           /\ Append(s, e)[Len(s) + 1] = e
  OBVIOUS

\* What is held in the blocks is held in one block more.
LEMMA AddsKeeps ==
    ASSUME ArenaInv, NEW ptr, NEW n, NEW owner \in {"arena", "bound", "leaked"},
           Adds(ptr, n, owner)
    PROVE  /\ \A r, o : AtStart(r, o) => AtStart(r, o)'
           /\ owner # "arena" /\ UNCHANGED ptrs => PtrsHeld'
           /\ \A r \in used : (pc # "freed" /\ InBase(r)) \/ AtStart(r, "arena") =>
                 \A s : s.ptr = ptr /\ s.size \in 0 .. n => Apart(r, s) /\ Apart(s, r)
<1>1. \A r, o : AtStart(r, o) => AtStart(r, o)'
  BY DEF Adds, AtStart
<1>2. owner # "arena" /\ UNCHANGED ptrs => PtrsHeld'
  BY DEF ArenaInv, PtrsHeld, Adds, Block
<1>3. ASSUME NEW r \in used, (pc # "freed" /\ InBase(r)) \/ AtStart(r, "arena"),
             NEW s, s.ptr = ptr, s.size \in 0 .. n
      PROVE  Apart(r, s) /\ Apart(s, r)
  <2>1. ptr \in Nat /\ n \in Nat /\ s.size \in Nat /\ s.size <= n
    BY <1>3, Constants DEF Adds
  <2>2. PICK b \in heap : Within(r, b)
    <3>1. CASE pc # "freed" /\ InBase(r)
      BY <3>1 DEF InBase, ArenaInv, HeapApart
    <3>2. CASE AtStart(r, "arena")
      BY <3>2, HeapTypes DEF AtStart, Within, ArenaInv
    <3> QED
      BY <1>3, <3>1, <3>2
  <2>3. ptr + n <= b.ptr \/ b.ptr + b.size <= ptr
    BY DEF Adds, Apart, At
  <2> QED
    BY <1>3, <2>1, <2>2, <2>3, HeapTypes DEF Apart, Within, ArenaInv
<1> QED
  BY <1>1, <1>2, <1>3

\* An argument gets a block of its own, or the call panics once it has it.
LEMMA AllocatesInv ==
    ASSUME ArenaInv, pc = "ok", NEW ptr, NEW n, NEW m \in 0 .. n, Adds(ptr, n, "arena"),
           ptrs' = Append(ptrs, ptr), UNCHANGED <<next, bound>>,
           \/ used' = used \cup {At(ptr, m)} /\ UNCHANGED pc
           \/ UNCHANGED used /\ pc' = "panic"
    PROVE  ArenaInv'
<1> DEFINE arg == At(ptr, m)
           block == Block(ptr, n, "arena")
<1>0. /\ arg.ptr = ptr /\ arg.size = m
      /\ block.ptr = ptr /\ block.size = n /\ block.owner = "arena"
      /\ heap' = heap \cup {block}
  BY DEF At, Block, Adds
<1>1. ptr \in 1 .. MemSize /\ n \in 1 .. MemSize /\ m \in 0 .. MemSize
  BY Constants DEF Adds
<1>2. HeapApart' /\ \A b \in heap : b.ptr # ptr
  BY AddsHeap DEF ArenaInv
<1>3. TypeOK'
  <2>1. heap' \subseteq [ptr : 1 .. MemSize, size : 1 .. MemSize,
                         owner : {"base", "arena", "bound", "leaked"}]
    BY AddsHeap DEF ArenaInv
  <2>2. ptrs' \in Seq(1 .. MemSize)
    BY <1>1 DEF ArenaInv, TypeOK
  <2>3. (used \cup bound)' \subseteq [ptr : 1 .. MemSize, size : 0 .. MemSize]
    BY <1>1 DEF ArenaInv, TypeOK, At
  <2> QED
    BY <2>1, <2>2, <2>3 DEF ArenaInv, TypeOK
<1>4. BoundHeld'
  BY AddsKeeps DEF ArenaInv, BoundHeld
<1>5. PtrsHeld'
  <2> DEFINE k == Len(ptrs)
  <2>1. /\ DOMAIN ptrs = 1 .. k /\ k \in Nat /\ DOMAIN ptrs' = 1 .. k + 1
        /\ \A i \in 1 .. k : ptrs'[i] = ptrs[i]
        /\ ptrs'[k + 1] = ptr
    BY <1>1, AppendFacts DEF ArenaInv, TypeOK
  <2> HIDE DEF k
  <2>2. \A i \in DOMAIN ptrs : ptrs[i] # ptr
    BY <1>2 DEF ArenaInv, PtrsHeld
  <2>3. \A i \in 1 .. k + 1 : i \in 1 .. k \/ i = k + 1
    BY <2>1
  <2> HIDE DEF block
  <2>4. \A i \in DOMAIN ptrs' : \E b \in heap' : b.owner = "arena" /\ b.ptr = ptrs'[i]
    BY <1>0, <2>1, <2>3 DEF ArenaInv, PtrsHeld
  <2>5. \A b \in heap' : b.owner = "arena" => \E i \in DOMAIN ptrs' : ptrs'[i] = b.ptr
    BY <1>0, <2>1, <2>3 DEF ArenaInv, PtrsHeld
  <2>6. \A i, j \in DOMAIN ptrs' : ptrs'[i] = ptrs'[j] => i = j
    <3>1. \A i, j \in 1 .. k : ptrs[i] = ptrs[j] => i = j
      BY Zenon, <2>1 DEF ArenaInv, PtrsHeld
    <3>2. \A i \in 1 .. k : ptrs'[i] # ptrs'[k + 1]
      BY Zenon, <2>1, <2>2
    <3>3. \A i, j \in 1 .. k : ptrs'[i] = ptrs'[j] => i = j
      BY Zenon, <2>1, <3>1
    <3> QED
      BY Zenon, <2>1, <2>3, <3>2, <3>3
  <2> QED
    BY Zenon, <2>4, <2>5, <2>6 DEF PtrsHeld
<1>6. UsedHeld'
  <2>1. \A r \in used : (InBase(r) \/ AtStart(r, "arena"))'
    BY AddsKeeps DEF ArenaInv, UsedHeld, InBase
  <2>2. AtStart(arg, "arena")'
    BY <1>0 DEF AtStart
  <2>3. \A r \in used : Apart(r, arg) /\ Apart(arg, r)
    BY <1>0, AddsKeeps DEF ArenaInv, UsedHeld
  <2>4. pc' # "freed"
    OBVIOUS
  <2> HIDE DEF arg
  <2> QED
    BY <2>1, <2>2, <2>3, <2>4 DEF ArenaInv, UsedHeld, arg
<1> QED
  BY <1>2, <1>3, <1>4, <1>5, <1>6 DEF ArenaInv

\* The call panics without a new block.
LEMMA PanicsInv ==
    ASSUME ArenaInv, pc = "ok", pc' = "panic", next' \in 0 .. Size,
           UNCHANGED <<ptrs, heap, used, bound>>
    PROVE  ArenaInv'
  BY DEF ArenaInv, TypeOK, HeapApart, UsedHeld, BoundHeld, PtrsHeld, InBase, AtStart

\* Making room for a result pointer keeps the invariant.
LEMMA CellInv ==
    ArenaInv /\ Cell => ArenaInv'
<1> SUFFICES ASSUME ArenaInv, Cell PROVE ArenaInv'
  OBVIOUS
<1>1. PICK ptr \in 0 .. MemSize :
         /\ new(PtrLen, ptr)
         /\ \/ ptr # 0 /\ used' = used \cup {At(ptr, PtrLen)} /\ UNCHANGED pc
            \/ ptr = 0 /\ pc' = "panic" /\ UNCHANGED used
  BY DEF Cell
<1>2. pc = "ok" /\ UNCHANGED bound
  BY DEF Cell, Ready
<1>3. PtrLen \in 0 .. Word - 1 /\ next \in 0 .. Size /\ next + PtrLen < Word
  BY Constants DEF ArenaInv, TypeOK
<1>4. CASE Carves(PtrLen, ptr) /\ next' \in 0 .. Size /\ next' = next + PtrLen
  BY <1>1, <1>2, <1>3, <1>4, CarvesInv, Constants DEF Carves
<1>5. CASE ptr = 0 /\ UNCHANGED <<next, ptrs, heap>>
  BY <1>1, <1>2, <1>3, <1>5, PanicsInv
<1>6. CASE /\ ptrs' = Append(ptrs, ptr) /\ UNCHANGED next
           /\ \E n \in 1 .. MemSize : PtrLen <= n /\ Adds(ptr, n, "arena")
  <2>1. PICK n \in 1 .. MemSize : PtrLen <= n /\ Adds(ptr, n, "arena")
    BY <1>6
  <2>2. PtrLen \in 0 .. n
    BY <2>1, Constants
  <2> QED
    BY Zenon, <1>1, <1>2, <1>6, <2>1, <2>2, AllocatesInv
<1> QED
  BY <1>1, <1>3, <1>4, <1>5, <1>6, NewOutcome DEF ArenaInv

\* writeString succeeds only if the sum of the length and one has not wrapped.
LEMMA WrittenFits ==
    ASSUME NEW len \in Nat, NEW ptr \in Nat, writeString(ptr, len)
    PROVE  (len + 1) % Word = len + 1 /\ ptr # 0 /\ ptr + len + 1 <= MemSize
<1>1. len + 1 \in Nat
  OBVIOUS
<1>2. len < (len + 1) % Word /\ ptr # 0 /\ ptr + ((len + 1) % Word) <= MemSize
  BY DEF writeString, view
<1> QED
  BY <1>1, <1>2, WordFacts, Constants

\* arena.string keeps the invariant, also if it panics.
LEMMA StringInv ==
    ASSUME ArenaInv, NEW len \in Nat, string(len)
    PROVE  ArenaInv'
<1> DEFINE size == (len + 1) % Word
<1>1. PICK ptr \in 0 .. MemSize :
         /\ new(size, ptr)
         /\ \/ writeString(ptr, len) /\ used' = used \cup {At(ptr, len + 1)} /\ UNCHANGED pc
            \/ pc' = "panic" /\ UNCHANGED used
  BY DEF string
<1>2. pc = "ok" /\ UNCHANGED bound
  BY DEF string, Ready
<1>3. size \in 0 .. Word - 1 /\ len + 1 \in Nat
  BY WordFacts
<1>4. ptr \in Nat /\ next \in Nat
  BY Constants, HeapTypes DEF ArenaInv
<1>5. writeString(ptr, len) => size = len + 1 /\ ptr # 0 /\ ptr + len + 1 <= MemSize
  BY <1>4, WrittenFits
<1> HIDE DEF size
<1>6. CASE /\ Carves(size, ptr) /\ next' \in 0 .. Size
           /\ next + size < Word => next' = next + size
  <2>1. CASE writeString(ptr, len) /\ used' = used \cup {At(ptr, len + 1)} /\ UNCHANGED pc
    <3>1. next + size < Word
      BY <1>3, <1>4, <1>5, <1>6, <2>1, Constants DEF Carves
    <3> QED
      BY <1>2, <1>3, <1>5, <1>6, <2>1, <3>1, CarvesInv DEF Carves
  <2>2. CASE pc' = "panic" /\ UNCHANGED used
    BY <1>2, <1>6, <2>2, PanicsInv DEF Carves
  <2> QED
    BY <1>1, <2>1, <2>2
<1>7. CASE ptr = 0 /\ UNCHANGED <<next, ptrs, heap>>
  BY <1>1, <1>2, <1>5, <1>7, PanicsInv DEF ArenaInv, TypeOK
<1>8. CASE /\ ptrs' = Append(ptrs, ptr) /\ UNCHANGED next
           /\ \E n \in 1 .. MemSize : size <= n /\ Adds(ptr, n, "arena")
  <2>1. PICK n \in 1 .. MemSize : size <= n /\ Adds(ptr, n, "arena")
    BY <1>8
  <2>2. size \in 0 .. n /\ 0 \in 0 .. n
    BY <1>3, <2>1, Constants
  <2>3. CASE writeString(ptr, len) /\ used' = used \cup {At(ptr, len + 1)} /\ UNCHANGED pc
    BY Zenon, <1>2, <1>5, <1>8, <2>1, <2>2, <2>3, AllocatesInv
  <2>4. CASE pc' = "panic" /\ UNCHANGED used
    BY Zenon, <1>2, <1>8, <2>1, <2>2, <2>4, AllocatesInv
  <2> QED
    BY <1>1, <2>3, <2>4
<1> QED
  BY <1>1, <1>3, <1>6, <1>7, <1>8, NewOutcome DEF ArenaInv
-------------------------------------------------------------------------------
(* arena.reset and arena.free. *)
\* The blocks that are not the arena's stay, and the others go.
LEMMA FreePtrsFacts ==
    ASSUME ArenaInv
    PROVE  /\ \A b \in FreePtrs(heap) : b \in heap /\ b.owner # "arena"
           /\ \A b \in heap : b.owner # "arena" => b \in FreePtrs(heap)
<1>1. \A b, c \in heap : b.ptr = c.ptr => b = c
  BY HeapTypes DEF ArenaInv, HeapApart, Apart
<1>2. \A b \in heap : b.owner = "arena" => b.ptr \in Pointers
  BY DEF ArenaInv, PtrsHeld, Pointers
<1>3. \A b \in heap : b.owner # "arena" => b.ptr \notin Pointers
  BY <1>1 DEF ArenaInv, PtrsHeld, Pointers
<1> QED
  BY <1>2, <1>3 DEF FreePtrs

\* reset and free, which free the blocks of ptrs, keep the invariant.
LEMMA FreesInv ==
    ArenaInv /\ (reset \/ free) => ArenaInv'
<1> SUFFICES ASSUME ArenaInv, reset \/ free PROVE ArenaInv'
  OBVIOUS
<1>1. /\ next' = 0 /\ ptrs' = <<>> /\ used' = {} /\ UNCHANGED bound
      /\ pc' \in {"ok", "freed"} /\ pc # "freed"
      /\ heap' \subseteq heap
      /\ \A b \in heap' : b.owner # "arena"
      /\ \A b \in heap : b.owner \in {"bound", "leaked"} => b \in heap'
      /\ pc' = "ok" => BaseBlock \in heap'
  <2>1. CASE reset
    BY <2>1, FreePtrsFacts DEF reset, ArenaInv, HeapApart, BaseBlock, Block
  <2>2. CASE free
    BY <2>2, FreePtrsFacts DEF free, BaseBlock, Block
  <2> QED
    BY <2>1, <2>2
<1>2. TypeOK'
  BY <1>1, Constants DEF ArenaInv, TypeOK
<1>3. HeapApart'
  BY <1>1 DEF ArenaInv, HeapApart
<1>4. BoundHeld'
  BY <1>1 DEF ArenaInv, BoundHeld, AtStart
<1>5. UsedHeld' /\ PtrsHeld'
  BY <1>1 DEF UsedHeld, PtrsHeld
<1> QED
  BY <1>2, <1>3, <1>4, <1>5 DEF ArenaInv
-------------------------------------------------------------------------------
(* Bindings. *)
\* A value is bound in a new block, or the block is lost.
LEMMA BindsInv ==
    ASSUME ArenaInv, NEW ptr, NEW n, NEW m \in 0 .. n, NEW owner \in {"bound", "leaked"},
           Adds(ptr, n, owner), UNCHANGED <<next, ptrs, used, pc>>,
           \/ owner = "bound" /\ bound' = bound \cup {At(ptr, m)}
           \/ UNCHANGED bound
    PROVE  ArenaInv'
<1> DEFINE value == At(ptr, m)
           block == Block(ptr, n, owner)
<1>0. /\ value.ptr = ptr /\ value.size = m
      /\ block.ptr = ptr /\ block.size = n /\ block.owner = owner
      /\ heap' = heap \cup {block}
  BY DEF At, Block, Adds
<1>1. ptr \in 1 .. MemSize /\ n \in 1 .. MemSize /\ m \in 0 .. MemSize
  BY Constants DEF Adds
<1>2. HeapApart' /\ \A b \in heap : b.ptr # ptr
  BY AddsHeap DEF ArenaInv
<1>3. TypeOK'
  <2>1. heap' \subseteq [ptr : 1 .. MemSize, size : 1 .. MemSize,
                         owner : {"base", "arena", "bound", "leaked"}]
    BY AddsHeap DEF ArenaInv
  <2>2. (used \cup bound)' \subseteq [ptr : 1 .. MemSize, size : 0 .. MemSize]
    BY <1>1 DEF ArenaInv, TypeOK, At
  <2> QED
    BY <2>1, <2>2 DEF ArenaInv, TypeOK
<1>4. PtrsHeld'
  BY AddsKeeps
<1>5. UsedHeld'
  BY AddsKeeps DEF ArenaInv, UsedHeld, InBase
<1>6. BoundHeld'
  <2>1. owner = "bound" => AtStart(value, "bound")'
    BY <1>0 DEF AtStart
  <2>2. \A v \in bound : AtStart(v, "bound")'
    BY AddsKeeps DEF ArenaInv, BoundHeld
  <2>3. \A v \in bound : v.ptr # ptr
    BY <1>2 DEF ArenaInv, BoundHeld, AtStart
  <2> HIDE DEF value
  <2> QED
    BY <1>0, <2>1, <2>2, <2>3 DEF ArenaInv, BoundHeld, value
<1> QED
  BY <1>2, <1>3, <1>4, <1>5, <1>6 DEF ArenaInv

\* Nothing but SQLite's memory is asked for, and malloc fails.
LEMMA StutterInv ==
    ArenaInv /\ UNCHANGED vars => ArenaInv'
  BY DEF vars, ArenaInv, TypeOK, HeapApart, UsedHeld, BoundHeld, PtrsHeld, InBase, AtStart

\* A value bound in a new block of its own keeps the invariant.
LEMMA BindInv ==
    ASSUME ArenaInv, NEW ptr \in 1 .. MemSize, NEW size \in Nat, NEW len, NEW extent \in 0 .. size,
           Bind(ptr, size, len, extent), UNCHANGED <<next, ptrs, used, pc>>
    PROVE  ArenaInv'
<1>1. CASE malloc(ptr, size, "bound") /\ bound' = bound \cup {At(ptr, extent)}
  <2>1. PICK n \in 1 .. MemSize : size <= n /\ Adds(ptr, n, "bound")
    BY <1>1, MallocAdds, Constants
  <2>2. extent \in 0 .. n
    BY <2>1, Constants
  <2> QED
    BY <1>1, <2>1, <2>2, BindsInv
<1>2. CASE UNCHANGED <<heap, bound>>
  BY <1>2, StutterInv DEF vars
<1> QED
  BY <1>1, <1>2 DEF Bind

\* A block that a panic leaves behind keeps the invariant.
LEMMA LeakInv ==
    ASSUME ArenaInv, NEW ptr \in 0 .. MemSize, NEW size \in Nat, malloc(ptr, size, "leaked"),
           UNCHANGED <<next, ptrs, used, pc, bound>>
    PROVE  ArenaInv'
<1>1. CASE UNCHANGED heap
  BY <1>1, StutterInv DEF vars
<1>2. CASE \E n \in 1 .. MemSize : size <= n /\ Adds(ptr, n, "leaked")
  <2>1. PICK n \in 1 .. MemSize : size <= n /\ Adds(ptr, n, "leaked")
    BY <1>2
  <2>2. 0 \in 0 .. n
    BY Constants
  <2> QED
    BY <2>1, <2>2, BindsInv
<1> QED
  BY <1>1, <1>2, MallocAdds

\* BindText keeps the invariant.
LEMMA BindTextInv ==
    ASSUME ArenaInv, NEW len \in Nat, BindText(len)
    PROVE  ArenaInv'
<1>1. PICK ptr \in 0 .. MemSize :
         \/ writeString(ptr, len) /\ Bind(ptr, newString(len), len, len + 1)
         \/ malloc(ptr, newString(len), "leaked") /\ UNCHANGED bound
  BY DEF BindText
<1>2. UNCHANGED <<next, ptrs, used, pc>>
  BY DEF BindText
<1>3. newString(len) \in Nat
  BY WordFacts, Constants DEF newString
<1>4. CASE writeString(ptr, len) /\ Bind(ptr, newString(len), len, len + 1)
  <2>1. newString(len) = len + 1 /\ ptr \in 1 .. MemSize
    BY <1>4, WrittenFits, Constants DEF newString
  <2> QED
    BY <1>2, <1>3, <1>4, <2>1, BindInv
<1>5. CASE malloc(ptr, newString(len), "leaked") /\ UNCHANGED bound
  BY <1>2, <1>3, <1>5, LeakInv
<1> QED
  BY <1>1, <1>4, <1>5

\* BindBlob keeps the invariant.
LEMMA BindBlobInv ==
    ASSUME ArenaInv, NEW len \in Nat, BindBlob(len)
    PROVE  ArenaInv'
<1>1. PICK ptr \in 0 .. MemSize :
         \/ writeBytes(ptr, len) /\ Bind(ptr, newBytes(len), len, len)
         \/ malloc(ptr, newBytes(len), "leaked") /\ UNCHANGED bound
  BY DEF BindBlob
<1>2. UNCHANGED <<next, ptrs, used, pc>>
  BY DEF BindBlob
<1>3. newBytes(len) \in Nat
  BY WordFacts, Constants DEF newBytes
<1>4. CASE writeBytes(ptr, len) /\ Bind(ptr, newBytes(len), len, len)
  <2>1. ptr \in 1 .. MemSize
    BY <1>4, Constants DEF writeBytes, view
  <2>2. CASE len <= MaxLength
    <3>1. newBytes(len) = len
      BY <2>2, WordFacts, Constants DEF newBytes
    <3> QED
      BY <1>2, <1>3, <1>4, <2>1, <3>1, BindInv
  <2>3. CASE UNCHANGED <<heap, bound>>
    BY <1>2, <2>3, StutterInv DEF vars
  <2> QED
    BY <1>4, <2>2, <2>3 DEF Bind
<1>5. CASE malloc(ptr, newBytes(len), "leaked") /\ UNCHANGED bound
  BY <1>2, <1>3, <1>5, LeakInv
<1> QED
  BY <1>1, <1>4, <1>5

\* SQLite frees the block of a bound value.
LEMMA UnbindInv ==
    ArenaInv /\ Unbind => ArenaInv'
<1> SUFFICES ASSUME ArenaInv, Unbind PROVE ArenaInv'
  OBVIOUS
<1>1. PICK v \in bound :
         bound' = bound \ {v} /\ heap' = {b \in heap : b.ptr # v.ptr}
  BY DEF Unbind
<1>2. UNCHANGED <<next, ptrs, used, pc>>
  BY DEF Unbind
<1>3. \A b, c \in heap : b.ptr = c.ptr => b = c
  BY HeapTypes DEF ArenaInv, HeapApart, Apart
<1>4. \A b \in heap : b.ptr = v.ptr => b.owner = "bound"
  BY <1>3 DEF ArenaInv, BoundHeld, AtStart
<1>5. heap' \subseteq heap /\ \A b \in heap : b.owner # "bound" => b \in heap'
  BY <1>1, <1>4
<1>6. TypeOK'
  BY <1>1, <1>2, <1>5 DEF ArenaInv, TypeOK
<1>7. HeapApart'
  BY <1>2, <1>5 DEF ArenaInv, HeapApart, BaseBlock, Block
<1>8. UsedHeld'
  BY <1>2, <1>5 DEF ArenaInv, UsedHeld, InBase, AtStart
<1>9. PtrsHeld'
  BY <1>2, <1>5 DEF ArenaInv, PtrsHeld
<1>10. BoundHeld'
  BY <1>1 DEF ArenaInv, BoundHeld, AtStart
<1> QED
  BY <1>6, <1>7, <1>8, <1>9, <1>10 DEF ArenaInv
-------------------------------------------------------------------------------
(* The theorems. *)
LEMMA InitInv ==
    Init => ArenaInv
<1> SUFFICES ASSUME Init PROVE ArenaInv
  OBVIOUS
<1>1. BaseBlock \in [ptr : 1 .. MemSize, size : 1 .. MemSize,
                     owner : {"base", "arena", "bound", "leaked"}]
  BY Constants DEF BaseBlock, Block
<1>2. TypeOK
  BY <1>1, Constants DEF Init, TypeOK
<1>3. HeapApart /\ UsedHeld /\ BoundHeld
  BY DEF Init, HeapApart, UsedHeld, BoundHeld
<1>4. BaseBlock.owner = "base" /\ DOMAIN ptrs = {}
  BY DEF Init, BaseBlock, Block
<1>5. PtrsHeld
  BY <1>4 DEF Init, PtrsHeld
<1> QED
  BY <1>2, <1>3, <1>5 DEF ArenaInv

\* Every step keeps the invariant.
LEMMA NextInv ==
    ArenaInv /\ [Next]_vars => ArenaInv'
<1> SUFFICES ASSUME ArenaInv, [Next]_vars PROVE ArenaInv'
  OBVIOUS
<1>1. \A len \in 0 .. Word + 1 : len \in Nat
  BY Constants
<1>2. ASSUME NEW len \in 0 .. Word + 1, string(len) \/ BindText(len) \/ BindBlob(len)
      PROVE  ArenaInv'
  BY <1>1, <1>2, StringInv, BindTextInv, BindBlobInv
<1> QED
  BY <1>2, CellInv, FreesInv, UnbindInv, StutterInv DEF Next

\* So it always holds.
LEMMA Invariance ==
    Spec => []ArenaInv
  BY InitInv, NextInv, PTL DEF Spec

\* The types of the arena; a.next stays in the arena's block also when
\* a.next + size wraps around.
THEOREM ArenaTypeCorrect ==
    Spec => []TypeOK
<1>1. ArenaInv => TypeOK
  BY DEF ArenaInv
<1> QED
  BY <1>1, Invariance, PTL

\* The arguments of a call and the values that are bound never overlap, and
\* each lies in a block of its kind, whatever the lengths of the strings.
THEOREM NoOverlap ==
    Spec => []ArgumentsApart
<1>1. ArenaInv => ArgumentsApart
  <2> SUFFICES ASSUME ArenaInv PROVE ArgumentsApart
    OBVIOUS
  <2>1. \A r \in used : \E b \in heap : b.owner \in {"base", "arena"} /\ Within(r, b)
    BY HeapTypes DEF ArenaInv, UsedHeld, HeapApart, InBase, AtStart, BaseBlock, Block, Within
  <2>2. \A v \in bound : \E b \in heap : b.owner = "bound" /\ Within(v, b)
    BY HeapTypes DEF ArenaInv, BoundHeld, AtStart, Within
  <2>3. \A r \in used, v \in bound : Apart(r, v) /\ Apart(v, r)
    BY <2>1, HeldApart
  <2>4. \A v, w \in bound : v = w \/ Apart(v, w)
    BY HeapTypes DEF ArenaInv, BoundHeld, AtStart, HeapApart, Apart
  <2> QED
    BY <2>1, <2>2, <2>3, <2>4 DEF ArenaInv, UsedHeld, ArgumentsApart
<1> QED
  BY <1>1, Invariance, PTL

\* a.ptrs lists each block that arena.new allocated and that is not yet freed
\* once, so that reset and free free every block once, and none of SQLite's.
THEOREM BlocksFreedOnce ==
    Spec => []FreedOnce
<1>1. ArenaInv => FreedOnce
  BY DEF ArenaInv, PtrsHeld, FreedOnce, Pointers
<1> QED
  BY <1>1, Invariance, PTL
================================================================================

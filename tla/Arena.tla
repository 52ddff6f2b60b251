-------------------------------- MODULE Arena ---------------------------------
(***************************************************************************)
(* The arena of a connection (conn.go), which holds the arguments of a     *)
(* call into SQLite: requests are carved off a block that is allocated     *)
(* once, those that do not fit are allocated separately, and everything is *)
(* given back when the call returns or panics.  Sizes and addresses are    *)
(* unsigned words that wrap around.  The values that are bound to          *)
(* statements are allocated from the same memory and belong to SQLite,     *)
(* which frees them when they are replaced or the statement is closed.     *)
(***************************************************************************)
EXTENDS Naturals, Sequences, FiniteSets

CONSTANTS
    Word,           \* the number of values of a word, 2^32 in the code
    MemSize,        \* the size of the module's memory, at most Word
    Base, Size,     \* the arena's block: a.base and a.size
    PtrLen,         \* ptrlen
    MaxLength,      \* SQLITE_MAX_LENGTH
    MaxNew,         \* bound on the requests in one call
    MaxBound        \* bound on the values that are bound

ASSUME ArenaAssumption ==
    /\ {Word, MemSize, Base, Size, PtrLen, MaxLength, MaxNew, MaxBound} \subseteq Nat
    /\ 0 < Base /\ 0 < Size /\ Base + Size <= MemSize /\ MemSize <= Word
    /\ PtrLen > 0 /\ Size + PtrLen < Word
    /\ MaxLength + 1 < Word

VARIABLES
    next,           \* a.next
    ptrs,           \* a.ptrs
    heap,           \* the blocks that malloc has handed out, with their owners
    used,           \* the ranges of memory that the call uses for its arguments
    bound,          \* the ranges of the values that are bound to statements
    pc              \* "ok", "panic", or "freed" when free was called

vars == <<next, ptrs, heap, used, bound, pc>>

\* A range of n addresses.
At(ptr, n) == [ptr |-> ptr, size |-> n]

Within(r, s) == s.ptr <= r.ptr /\ r.ptr + r.size <= s.ptr + s.size

Apart(r, s) == r.ptr + r.size <= s.ptr \/ s.ptr + s.size <= r.ptr

Block(ptr, size, owner) == [ptr |-> ptr, size |-> size, owner |-> owner]

BaseBlock == Block(Base, Size, "base")

\* newArena has allocated the arena's block.
Init ==
    /\ next = 0
    /\ ptrs = <<>>
    /\ heap = {BaseBlock}
    /\ used = {}
    /\ bound = {}
    /\ pc = "ok"

\* malloc returns a block apart from all others, or 0 when there is no memory.
malloc(ptr, size, owner) ==
    \/ ptr = 0 /\ UNCHANGED heap
    \/ /\ ptr > 0 /\ size > 0 /\ ptr + size <= MemSize
       /\ \A b \in heap : Apart(At(ptr, size), b)
       /\ heap' = heap \cup {Block(ptr, size, owner)}
    \/ /\ ptr \in 1 .. MemSize - 1 /\ size = 0
       /\ \A b \in heap : Apart(At(ptr, 1), b)
       /\ heap' = heap \cup {Block(ptr, 1, owner)}

\* Conn.new, for the arena: the pointer is kept unless malloc fails.
NewBlock(size, ptr) ==
    /\ malloc(ptr, size, "arena")
    /\ ptrs' = IF ptr = 0 THEN ptrs ELSE Append(ptrs, ptr)
    /\ UNCHANGED next

\* What new might do wrong: forget to count a request.
NewUncounted(size, ptr) ==
    \/ /\ (next + size) % Word <= Size
       /\ ptr = Base + next
       /\ UNCHANGED <<next, ptrs, heap>>
    \/ /\ (next + size) % Word > Size
       /\ NewBlock(size, ptr)

\* What new might do wrong: test the room before the request is added.
NewTestedEarly(size, ptr) ==
    \/ /\ next <= Size
       /\ ptr = Base + next
       /\ next' = (next + size) % Word
       /\ UNCHANGED <<ptrs, heap>>
    \/ /\ next > Size
       /\ NewBlock(size, ptr)

\* arena.new(size) returns ptr; 0 stands for the panic of Conn.new.
new(size, ptr) ==
    \/ /\ (next + size) % Word <= Size
       /\ ptr = Base + next
       /\ next' = (next + size) % Word
       /\ UNCHANGED <<ptrs, heap>>
    \/ /\ (next + size) % Word > Size
       /\ NewBlock(size, ptr)

Ready == pc = "ok" /\ Cardinality(used) < MaxNew

\* A cell for a result: arena.new(ptrlen).
Cell ==
    /\ Ready
    /\ \E ptr \in 0 .. MemSize :
          /\ new(PtrLen, ptr)
          /\ IF ptr # 0
             THEN used' = used \cup {At(ptr, PtrLen)} /\ UNCHANGED pc
             ELSE pc' = "panic" /\ UNCHANGED used
    /\ UNCHANGED bound

\* What writeString might do wrong: write without a view of the range.
WriteUnviewed(ptr, len) == ptr # 0

\* view does not panic: the range is in memory.
view(ptr, size) == ptr # 0 /\ ptr + size <= MemSize

\* writeString does not panic: there is a view, and the NUL is in it.  It
\* writes nothing when it panics.
writeString(ptr, len) ==
    LET size == (len + 1) % Word
    IN  view(ptr, size) /\ len < size

\* A string of len bytes and its NUL: arena.string.
string(len) ==
    /\ Ready
    /\ \E ptr \in 0 .. MemSize :
          /\ new((len + 1) % Word, ptr)
          /\ IF writeString(ptr, len)
             THEN used' = used \cup {At(ptr, len + 1)} /\ UNCHANGED pc
             ELSE pc' = "panic" /\ UNCHANGED used
    /\ UNCHANGED bound

Pointers == {ptrs[i] : i \in DOMAIN ptrs}

FreePtrs(blocks) == {b \in blocks : b.ptr \notin Pointers}

\* What reset might do wrong: leave the freed pointers in a.ptrs.
ResetKeepingPtrs ==
    /\ pc \in {"ok", "panic"}
    /\ heap' = FreePtrs(heap)
    /\ next' = 0
    /\ used' = {}
    /\ pc' = "ok"
    /\ UNCHANGED <<ptrs, bound>>

\* The deferred call, when the call into SQLite returns or panics.
reset ==
    /\ pc \in {"ok", "panic"}
    /\ heap' = FreePtrs(heap)
    /\ ptrs' = <<>>
    /\ next' = 0
    /\ used' = {}
    /\ pc' = "ok"
    /\ UNCHANGED bound

\* arena.free; a second call returns at once.
free ==
    /\ pc = "ok"
    /\ heap' = FreePtrs(heap) \ {BaseBlock}
    /\ ptrs' = <<>>
    /\ next' = 0
    /\ used' = {}
    /\ pc' = "freed"
    /\ UNCHANGED bound

-------------------------------------------------------------------------------
(* Bindings. *)
\* What newString might do wrong: ask for no room for the NUL.
NewStringShort(len) == len % Word

\* The sizes that newString and newBytes ask malloc for.
newString(len) == (len + 1) % Word

newBytes(len) == len % Word

\* writeBytes does not panic.  If the length has wrapped, it writes less.
writeBytes(ptr, len) == view(ptr, len % Word)

\* SQLite takes over the block with a value of len bytes, of which extent
\* bytes were to be written.  If it refuses the value, as it does when it is
\* too long, it calls the destructor, which frees the block.
Bind(ptr, size, len, extent) ==
    \/ /\ len <= MaxLength
       /\ malloc(ptr, size, "bound")
       /\ bound' = bound \cup {At(ptr, extent)}
    \/ UNCHANGED <<heap, bound>>

\* A panic of newString or newBytes leaves the block allocated.
BindText(len) ==
    /\ pc # "panic" /\ Cardinality(bound) < MaxBound
    /\ \E ptr \in 0 .. MemSize :
          IF writeString(ptr, len)
          THEN Bind(ptr, newString(len), len, len + 1)
          ELSE malloc(ptr, newString(len), "leaked") /\ UNCHANGED bound
    /\ UNCHANGED <<next, ptrs, used, pc>>

BindBlob(len) ==
    /\ pc # "panic" /\ Cardinality(bound) < MaxBound
    /\ \E ptr \in 0 .. MemSize :
          IF writeBytes(ptr, len)
          THEN Bind(ptr, newBytes(len), len, len)
          ELSE malloc(ptr, newBytes(len), "leaked") /\ UNCHANGED bound
    /\ UNCHANGED <<next, ptrs, used, pc>>

\* Another value is bound, the bindings are cleared, the statement is closed.
Unbind ==
    /\ pc # "panic"
    /\ \E v \in bound :
          /\ bound' = bound \ {v}
          /\ heap' = {b \in heap : b.ptr # v.ptr}
    /\ UNCHANGED <<next, ptrs, used, pc>>

\* Lengths go past the point where len + 1 wraps around.
Next ==
    \/ Cell
    \/ \E len \in 0 .. Word + 1 : string(len) \/ BindText(len) \/ BindBlob(len)
    \/ reset
    \/ free
    \/ Unbind

Spec == Init /\ [][Next]_vars

-------------------------------------------------------------------------------
\* The types of the state; a.next stays within the arena's block.
TypeOK ==
    /\ next \in 0 .. Size
    /\ ptrs \in Seq(1 .. MemSize)
    /\ heap \subseteq [ptr : 1 .. MemSize, size : 1 .. MemSize,
                       owner : {"base", "arena", "bound", "leaked"}]
    /\ used \cup bound \subseteq [ptr : 1 .. MemSize, size : 0 .. MemSize]
    /\ pc \in {"ok", "panic", "freed"}

\* The arguments of a call and the bound values do not overlap, and each lies
\* in a block of its own kind, whatever the requests: arena.new, arena.string,
\* newString and newBytes, at lengths where the 32-bit sums wrap around, too.
ArgumentsApart ==
    /\ \A r, s \in used \cup bound : r = s \/ Apart(r, s)
    /\ \A r \in used : \E b \in heap : b.owner \in {"base", "arena"} /\ Within(r, b)
    /\ \A r \in bound : \E b \in heap : b.owner = "bound" /\ Within(r, b)

\* Every block is freed once: a.ptrs lists the blocks that arena.new has
\* allocated and that are not yet freed, each of them once, so that reset
\* neither leaks one nor frees one twice, nor one of SQLite's, also when it
\* runs after a panic.
FreedOnce ==
    /\ Pointers = {b.ptr : b \in {b \in heap : b.owner = "arena"}}
    /\ \A i, j \in DOMAIN ptrs : ptrs[i] = ptrs[j] => i = j
===============================================================================

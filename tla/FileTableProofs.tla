---------------------------- MODULE FileTableProofs ----------------------------
(***************************************************************************)
(* Proofs about FileTable, for any go_files, names, number and size of     *)
(* files: the slots, and that the table implements Files.                  *)
(***************************************************************************)
EXTENDS FileTable, Integers, FiniteSetTheorems, SequenceTheorems, WellFoundedInduction, TLAPS

\* The contents of a file.
Bytes == Seq({0, 1})

\* The files that a slot, a name or a call of vfsOpen may stand for.
Created == 1 .. Len(data)

\* The values the state takes.
TableTypeOK ==
    /\ vfsOpenFiles \in Seq(Created \cup {NULL})
    /\ ID \in [PFiles -> Nat]
    /\ file \in [PFiles -> Created \cup {NULL}]
    /\ state \in [PFiles -> {"closed", "opening", "open", "abandoned"}]
    /\ dir \in [Names -> Created \cup {NULL}]
    /\ data \in Seq(Bytes)

\* vfsOpen has the file it opened.
Opening == \A p \in PFiles : state[p] = "opening" => file[p] # NULL

\* The inductive invariant.
TableInv == TableTypeOK /\ Opening /\ OwnSlot /\ TableTight
-------------------------------------------------------------------------------
(* Sequences. *)
\* A nonempty set of numbers has a least one: the slot that a search finds.
LEMMA Least ==
    ASSUME NEW T \in SUBSET Nat, T # {}
    PROVE  \E x \in T : \A y \in T : x <= y
<1>1. \E x \in T : \A y \in T : <<y, x>> \notin OpToRel(<, Nat)
  BY NatLessThanWellFounded, WFMin, Zenon
<1>2. \A x, y \in Nat : y < x => <<y, x>> \in OpToRel(<, Nat)
  BY DEF OpToRel
<1>3. \E x \in T : \A y \in T : ~(y < x)
  BY <1>1, <1>2, Zenon
<1> QED
  BY <1>3

\* A function on 1 .. n is a sequence of length n.
LEMMA FunctionIsSeq ==
    ASSUME NEW S, NEW n \in Nat, NEW f \in [1 .. n -> S]
    PROVE  f \in Seq(S) /\ Len(f) = n
<1>1. f \in Seq(S)
  BY SeqDef, Zenon
<1>2. DOMAIN f = 1 .. Len(f) /\ DOMAIN f = 1 .. n /\ Len(f) \in Nat
  BY <1>1
<1>3. 1 .. n = 1 .. Len(f) => n = Len(f)
  BY <1>2
<1> QED
  BY <1>1, <1>2, <1>3

\* The bytes read are bytes, past the end of the file too.
LEMMA ByteAtType ==
    ASSUME NEW bytes \in Bytes, NEW i \in Nat
    PROVE  Abs!ByteAt(bytes, i) \in {0, 1}
<1>1. i < Len(bytes) => i + 1 \in 1 .. Len(bytes)
  BY DEF Bytes
<1> QED
  BY <1>1 DEF Bytes, Abs!ByteAt

\* Writing to the contents of a file gives contents.
LEMMA OverwriteType ==
    ASSUME NEW bytes \in Bytes, NEW off \in Nat, NEW n \in Nat
    PROVE  Abs!Overwrite(bytes, off, n) \in Bytes
<1> DEFINE len == IF n > 0 /\ off + n > Len(bytes) THEN off + n ELSE Len(bytes)
<1>1. len \in Nat
  BY DEF Bytes
<1>2. \A i \in 1 .. len : Abs!ByteAt(bytes, i - 1) \in {0, 1}
  BY <1>1, ByteAtType
<1> HIDE DEF len
<1>3. [i \in 1 .. len |-> IF off < i /\ i <= off + n THEN 1 ELSE Abs!ByteAt(bytes, i - 1)]
         \in [1 .. len -> {0, 1}]
  BY <1>2
<1> QED
  BY Zenon, <1>1, <1>3, FunctionIsSeq DEF Abs!Overwrite, Bytes, len

\* Truncating the contents of a file gives contents.
LEMMA ResizeType ==
    ASSUME NEW bytes \in Bytes, NEW size \in Nat
    PROVE  Abs!Resize(bytes, size) \in Bytes
<1>1. \A i \in 1 .. size : Abs!ByteAt(bytes, 0 + i - 1) \in {0, 1}
  BY ByteAtType
<1>2. [i \in 1 .. size |-> Abs!ByteAt(bytes, 0 + i - 1)] \in [1 .. size -> {0, 1}]
  BY <1>1
<1> QED
  BY <1>2, FunctionIsSeq DEF Abs!Resize, Abs!Extract, Bytes
-------------------------------------------------------------------------------
(* The slots. *)
LEMMA UsedCard ==
    ASSUME TableTypeOK
    PROVE  /\ DOMAIN vfsOpenFiles = 1 .. Len(vfsOpenFiles) /\ Len(vfsOpenFiles) \in Nat
           /\ Cardinality(Used) \in Nat /\ Cardinality(Used) <= Len(vfsOpenFiles)
           /\ Cardinality(Used) = Len(vfsOpenFiles) <=> Used = DOMAIN vfsOpenFiles
<1> DEFINE n == Len(vfsOpenFiles)
<1>1. DOMAIN vfsOpenFiles = 1 .. n /\ n \in Nat
  BY DEF TableTypeOK
<1> HIDE DEF n
<1>2. IsFiniteSet(1 .. n) /\ Cardinality(1 .. n) = n
  BY <1>1, FS_Interval
<1>3. Used \in SUBSET (1 .. n)
  BY <1>1 DEF Used
<1>4. /\ IsFiniteSet(Used) /\ Cardinality(Used) <= n
      /\ n = Cardinality(Used) => 1 .. n = Used
  BY Zenon, <1>2, <1>3, FS_Subset
<1>5. Cardinality(Used) \in Nat
  BY <1>4, FS_CardinalityType
<1> QED
  BY <1>1, <1>2, <1>4, <1>5 DEF n

\* vfsGetFileID returns a slot that is not in use, a new one only if all are.
LEMMA SlotFacts ==
    ASSUME TableTypeOK, NEW f, NEW id, id = vfsGetFileID(f)
    PROVE  /\ id \in 1 .. Len(vfsOpenFiles) + 1 /\ id \notin Used
           /\ id \notin DOMAIN vfsOpenFiles =>
                 id = Len(vfsOpenFiles) + 1 /\ Used = DOMAIN vfsOpenFiles
<1> DEFINE empty == DOMAIN vfsOpenFiles \ Used
<1>1. Used \subseteq DOMAIN vfsOpenFiles
  BY DEF Used
<1>2. CASE empty = {}
  <2>1. id = Len(vfsOpenFiles) + 1
    BY <1>2 DEF vfsGetFileID
  <2>2. Used = DOMAIN vfsOpenFiles
    BY <1>1, <1>2
  <2>3. id \notin 1 .. Len(vfsOpenFiles) /\ id \in 1 .. Len(vfsOpenFiles) + 1
    BY <2>1, UsedCard
  <2> QED
    BY <2>1, <2>2, <2>3, UsedCard
<1>3. CASE empty # {}
  <2>1. empty \in SUBSET Nat
    BY UsedCard
  <2>2. \E i \in empty : \A j \in empty : i <= j
    BY Zenon, <1>3, <2>1, Least
  <2>3. id = CHOOSE i \in empty : \A j \in empty : i <= j
    BY <1>3 DEF vfsGetFileID
  <2> HIDE DEF empty
  <2>4. id \in empty
    BY <2>2, <2>3
  <2> QED
    BY <2>4, UsedCard DEF empty
<1> QED
  BY <1>2, <1>3
-------------------------------------------------------------------------------
(* The invariant. *)
LEMMA InitTableInv ==
    Init => TableInv
<1> SUFFICES ASSUME Init PROVE TableInv
  OBVIOUS
<1>1. TableTypeOK
  BY EmptySeq DEF Init, TableTypeOK, NULL, Bytes
<1>2. Opening /\ TableTight
  BY DEF Init, Opening, TableTight
<1>3. OwnSlot
  BY DEF Init, OwnSlot, Live, Used
<1> QED
  BY <1>1, <1>2, <1>3 DEF TableInv

\* A call that leaves the table as it is, and no file out.
LEMMA SameInv ==
    ASSUME TableInv, UNCHANGED <<vfsOpenFiles, ID, file, state, peak>>,
           dir' \in [Names -> Created \cup {NULL}],
           data' \in Seq(Bytes), Len(data') = Len(data)
    PROVE  TableInv'
  BY DEF TableInv, TableTypeOK, Created, Opening, OwnSlot, TableTight, Live, Used, NULL

\* A call of vfsOpen has a file, which may be new.
LEMMA OpeningInv ==
    ASSUME TableInv, NEW p \in PFiles, NEW f \in 1 .. Len(data'), state[p] = "closed",
           file' = [file EXCEPT ![p] = f], state' = [state EXCEPT ![p] = "opening"],
           dir' \in [Names -> 1 .. Len(data') \cup {NULL}],
           data' \in Seq(Bytes), Len(data') >= Len(data),
           UNCHANGED <<vfsOpenFiles, ID, peak>>
    PROVE  TableInv'
<1>1. Created \subseteq Created'
  BY DEF Created, TableInv, TableTypeOK
<1>2. vfsOpenFiles' \in Seq(Created \cup {NULL})'
  BY <1>1, SeqMonotonic DEF TableInv, TableTypeOK, NULL
<1>3. TableTypeOK'
  BY <1>1, <1>2 DEF TableInv, TableTypeOK, NULL, Created
<1>4. Opening'
  BY DEF TableInv, TableTypeOK, Opening, NULL
<1>5. Live' = Live /\ UNCHANGED <<Used, Len(vfsOpenFiles)>>
  BY DEF TableInv, TableTypeOK, Live, Used
<1> QED
  BY <1>3, <1>4, <1>5 DEF TableInv, OwnSlot, TableTight

\* vfsOpen keeps the invariant up to its call of vfsGetFileID.
LEMMA OpenInv ==
    ASSUME TableInv, NEW p \in PFiles,
           \/ \E n \in Names, create, exclusive \in BOOLEAN : vfsOpen(p, n, create, exclusive)
           \/ vfsOpenTemp(p)
    PROVE  TableInv'
<1>1. Len(data) \in Nat /\ data \in Seq(Bytes) /\ <<>> \in Bytes
  BY EmptySeq DEF TableInv, TableTypeOK, Bytes
<1>2. Append(data, <<>>) \in Seq(Bytes) /\ Len(Append(data, <<>>)) = Len(data) + 1
  BY <1>1, AppendProperties
<1>3. \A n \in Names : dir[n] # NULL => dir[n] \in 1 .. Len(data)
  BY DEF TableInv, TableTypeOK, Created
<1>4. dir \in [Names -> 1 .. Len(data) \cup {NULL}]
  BY DEF TableInv, TableTypeOK, Created
<1>5. ASSUME NEW n \in Names, NEW create \in BOOLEAN, NEW exclusive \in BOOLEAN,
             vfsOpen(p, n, create, exclusive)
      PROVE  TableInv'
  <2>1. CASE /\ dir[n] # NULL /\ state[p] = "closed"
             /\ file' = [file EXCEPT ![p] = dir[n]]
             /\ state' = [state EXCEPT ![p] = "opening"]
             /\ UNCHANGED <<dir, data, vfsOpenFiles, ID, peak>>
    <3>1. dir' \in [Names -> 1 .. Len(data') \cup {NULL}] /\ dir[n] \in 1 .. Len(data')
      BY <1>3, <1>4, <2>1
    <3>2. data' \in Seq(Bytes) /\ Len(data') >= Len(data)
      BY <1>1, <2>1
    <3> QED
      BY Zenon, <2>1, <3>1, <3>2, OpeningInv
  <2>2. CASE /\ dir[n] = NULL /\ state[p] = "closed"
             /\ data' = Append(data, <<>>)
             /\ dir' = [dir EXCEPT ![n] = Len(data) + 1]
             /\ file' = [file EXCEPT ![p] = Len(data) + 1]
             /\ state' = [state EXCEPT ![p] = "opening"]
             /\ UNCHANGED <<vfsOpenFiles, ID, peak>>
    <3>1. dir' \in [Names -> 1 .. Len(data') \cup {NULL}]
      BY <1>1, <1>2, <1>4, <2>2
    <3>2. Len(data) + 1 \in 1 .. Len(data')
      BY <1>1, <1>2, <2>2
    <3>3. data' \in Seq(Bytes) /\ Len(data') >= Len(data)
      BY <1>1, <1>2, <2>2
    <3> QED
      BY Zenon, <2>2, <3>1, <3>2, <3>3, OpeningInv
  <2>3. CASE UNCHANGED <<dir, data, file, state, vfsOpenFiles, ID, peak>>
    BY <1>1, <1>4, <2>3, SameInv DEF Created
  <2> QED
    BY <1>5, <2>1, <2>2, <2>3 DEF vfsOpen
<1>6. CASE vfsOpenTemp(p)
  <2>1. dir' \in [Names -> 1 .. Len(data') \cup {NULL}]
    BY <1>1, <1>2, <1>4, <1>6 DEF vfsOpenTemp
  <2>2. Len(data) + 1 \in 1 .. Len(data')
    BY <1>1, <1>2, <1>6 DEF vfsOpenTemp
  <2>3. data' \in Seq(Bytes) /\ Len(data') >= Len(data)
    BY <1>1, <1>2, <1>6 DEF vfsOpenTemp
  <2> QED
    BY Zenon, <1>6, <2>1, <2>2, <2>3, OpeningInv DEF vfsOpenTemp
<1> QED
  BY <1>5, <1>6

\* vfsOpen puts its file in a slot that no other handle has.
LEMMA SetIDInv ==
    ASSUME TableInv, NEW p \in PFiles, SetID(p)
    PROVE  /\ TableInv'
           /\ vfsOpenFiles'[ID'[p]] = file[p]
           /\ \A q \in Live : q # p /\ vfsOpenFiles'[ID[q]] = vfsOpenFiles[ID[q]]
<1> DEFINE len == Len(vfsOpenFiles)
           id == vfsGetFileID(file[p])
<1>1. /\ DOMAIN vfsOpenFiles = 1 .. len /\ len \in Nat
      /\ vfsOpenFiles \in Seq(Created \cup {NULL})
      /\ file[p] \in Created /\ file[p] # NULL
      /\ state[p] = "opening"
  BY UsedCard DEF TableInv, TableTypeOK, Opening, NULL, SetID
<1>2. /\ id \in 1 .. len + 1 /\ id \notin Used
      /\ id \notin 1 .. len => id = len + 1 /\ Used = 1 .. len
  BY <1>1, SlotFacts DEF TableInv
<1>3. /\ vfsOpenFiles' = IF id \in DOMAIN vfsOpenFiles
                         THEN [vfsOpenFiles EXCEPT ![id] = file[p]]
                         ELSE Append(vfsOpenFiles, file[p])
      /\ ID' = [ID EXCEPT ![p] = id]
      /\ peak' = IF Cardinality(Used) < peak THEN peak ELSE Cardinality(Used) + 1
      /\ state' = [state EXCEPT ![p] = "open"]
      /\ file' = [file EXCEPT ![p] = NULL]
      /\ UNCHANGED <<dir, data>>
  BY DEF SetID
<1> HIDE DEF len, id
<1>4. /\ vfsOpenFiles' \in Seq(Created \cup {NULL})
      /\ DOMAIN vfsOpenFiles' = 1 .. Len(vfsOpenFiles') /\ Len(vfsOpenFiles') \in Nat
      /\ Len(vfsOpenFiles') = IF id \in 1 .. len THEN len ELSE len + 1
      /\ \A i \in 1 .. Len(vfsOpenFiles') :
            vfsOpenFiles'[i] = IF i = id THEN file[p] ELSE vfsOpenFiles[i]
      /\ id \in 1 .. Len(vfsOpenFiles')
      /\ 1 .. len \subseteq 1 .. Len(vfsOpenFiles')
  <2>1. CASE id \in 1 .. len
    <3>1. vfsOpenFiles' = [vfsOpenFiles EXCEPT ![id] = file[p]]
      BY <1>1, <1>3, <2>1
    <3> QED
      BY <1>1, <2>1, <3>1 DEF len
  <2>2. CASE id \notin 1 .. len
    <3>1. vfsOpenFiles' = Append(vfsOpenFiles, file[p]) /\ id = len + 1
      BY <1>1, <1>2, <1>3, <2>2
    <3>2. /\ vfsOpenFiles' \in Seq(Created \cup {NULL})
          /\ Len(vfsOpenFiles') = len + 1
          /\ vfsOpenFiles'[len + 1] = file[p]
          /\ \A i \in 1 .. len : vfsOpenFiles'[i] = vfsOpenFiles[i]
      BY <1>1, <3>1, AppendProperties DEF len
    <3>3. DOMAIN vfsOpenFiles' = 1 .. Len(vfsOpenFiles')
      BY <3>2
    <3> QED
      BY <1>1, <2>2, <3>1, <3>2, <3>3
  <2> QED
    BY <2>1, <2>2
<1>5. Used' = Used \cup {id}
  BY <1>1, <1>2, <1>4 DEF Used, NULL
<1>6. Live' = Live \cup {p} /\ p \notin Live
  BY <1>1, <1>3 DEF TableInv, TableTypeOK, Live
<1>7. \A q \in Live : ID'[q] = ID[q] /\ ID[q] \in Used
  BY <1>3, <1>6 DEF TableInv, TableTypeOK, OwnSlot, Live
<1>8. ID'[p] = id
  BY <1>3 DEF TableInv, TableTypeOK
<1>9. OwnSlot'
  <2>1. \A q, r \in Live' : ID'[q] = ID'[r] => q = r
    BY <1>2, <1>6, <1>7, <1>8 DEF TableInv, OwnSlot
  <2>2. {ID'[q] : q \in Live'} = Used'
    BY <1>5, <1>6, <1>7, <1>8 DEF TableInv, OwnSlot
  <2> QED
    BY <2>1, <2>2 DEF OwnSlot
<1>10. TableTight'
  <2>1. /\ Cardinality(Used) \in Nat /\ Cardinality(Used) <= len
        /\ Cardinality(Used) = len <=> Used = 1 .. len
    BY <1>1, UsedCard DEF TableInv, len
  <2>2. peak = len
    BY DEF TableInv, TableTight, len
  <2>3. id \in 1 .. len => Cardinality(Used) < len
    BY <1>1, <1>2, <2>1
  <2> QED
    BY <1>1, <1>2, <1>3, <1>4, <2>1, <2>2, <2>3 DEF TableTight
<1>11. TableTypeOK' /\ Opening'
  BY <1>1, <1>2, <1>3, <1>4 DEF TableInv, TableTypeOK, Opening, Created, NULL
<1>12. \A q \in Live : q # p /\ ID[q] # id /\ ID[q] \in 1 .. len
  BY <1>1, <1>2, <1>6, <1>7 DEF Used
<1> QED
  BY <1>4, <1>8, <1>9, <1>10, <1>11, <1>12 DEF TableInv

\* vfsClose empties a slot that no other handle has.
LEMMA CloseInv ==
    ASSUME TableInv, NEW p \in PFiles, vfsClose(p)
    PROVE  /\ TableInv'
           /\ \A q \in Live : q # p => vfsOpenFiles'[ID[q]] = vfsOpenFiles[ID[q]]
<1>1. /\ DOMAIN vfsOpenFiles = 1 .. Len(vfsOpenFiles) /\ Len(vfsOpenFiles) \in Nat
      /\ vfsOpenFiles \in Seq(Created \cup {NULL})
      /\ p \in Live
  BY UsedCard DEF TableInv, TableTypeOK, vfsClose, Live
<1>2. ID[p] \in Used /\ ID[p] \in 1 .. Len(vfsOpenFiles)
  BY <1>1 DEF TableInv, OwnSlot, Used
<1>3. /\ vfsOpenFiles' = [vfsOpenFiles EXCEPT ![ID[p]] = NULL]
      /\ state' = [state EXCEPT ![p] = "closed"]
      /\ UNCHANGED <<ID, file, dir, data, peak>>
  BY DEF vfsClose
<1>4. /\ vfsOpenFiles' \in Seq(Created \cup {NULL})
      /\ Len(vfsOpenFiles') = Len(vfsOpenFiles)
      /\ DOMAIN vfsOpenFiles' = 1 .. Len(vfsOpenFiles)
      /\ \A i \in 1 .. Len(vfsOpenFiles) :
            vfsOpenFiles'[i] = IF i = ID[p] THEN NULL ELSE vfsOpenFiles[i]
  BY <1>1, <1>2, <1>3
<1>5. Used' = Used \ {ID[p]}
  BY <1>1, <1>2, <1>4 DEF Used
<1>6. Live' = Live \ {p}
  BY <1>3 DEF TableInv, TableTypeOK, Live
<1>7. OwnSlot'
  BY <1>1, <1>3, <1>5, <1>6 DEF TableInv, OwnSlot
<1>8. TableTypeOK' /\ Opening' /\ TableTight'
  BY <1>3, <1>4 DEF TableInv, TableTypeOK, Opening, TableTight, Created
<1>9. \A q \in Live : ID[q] \in 1 .. Len(vfsOpenFiles) /\ (q # p => ID[q] # ID[p])
  BY <1>1 DEF TableInv, OwnSlot, Used
<1> QED
  BY <1>4, <1>7, <1>8, <1>9 DEF TableInv

\* A module that is closed keeps the slots of its files.
LEMMA AbandonInv ==
    ASSUME TableInv, NEW p \in PFiles, Abandon(p)
    PROVE  TableInv'
<1>1. Live' = Live /\ UNCHANGED <<Used, ID, vfsOpenFiles, peak>>
  BY DEF Abandon, Live, Used, TableInv, TableTypeOK
<1>2. TableTypeOK' /\ Opening'
  BY DEF Abandon, TableInv, TableTypeOK, Opening, Created
<1> QED
  BY <1>1, <1>2 DEF TableInv, OwnSlot, TableTight

\* The files of the go_files that are open are files that were created.
LEMMA LiveFile ==
    ASSUME TableInv, NEW p \in Live
    PROVE  OSFile(p) \in 1 .. Len(data) /\ OSFile(p) # NULL /\ Handle[p] = OSFile(p)
<1>1. ID[p] \in DOMAIN vfsOpenFiles /\ OSFile(p) # NULL
  BY DEF TableInv, OwnSlot, Used, OSFile
<1>2. OSFile(p) \in Created \cup {NULL}
  BY <1>1, UsedCard, ElementOfSeq DEF TableInv, TableTypeOK, OSFile
<1>3. Handle[p] = OSFile(p)
  BY DEF Live, Handle, OSFile
<1> QED
  BY <1>1, <1>2, <1>3 DEF Created

\* A call on an open file changes its bytes only.
LEMMA UpdateInv ==
    ASSUME TableInv, NEW p \in Live, NEW bytes \in Bytes,
           data' = [data EXCEPT ![OSFile(p)] = bytes], Same
    PROVE  TableInv'
<1>1. data' \in Seq(Bytes) /\ Len(data') = Len(data)
  BY LiveFile, ExceptSeq DEF TableInv, TableTypeOK
<1> QED
  BY <1>1, SameInv DEF Same, TableInv, TableTypeOK

\* Writing keeps the invariant.
LEMMA WriteInv ==
    ASSUME TableInv, NEW p \in PFiles, NEW off \in Nat, NEW amt \in Nat, vfsWrite(p, off, amt)
    PROVE  TableInv'
<1>1. p \in Live /\ Same
  BY DEF vfsWrite, Live
<1>2. PICK n \in 0 .. amt : data' = [data EXCEPT ![OSFile(p)] = Abs!Overwrite(@, off, n)]
  BY Zenon DEF vfsWrite
<1>3. data[OSFile(p)] \in Bytes
  BY <1>1, LiveFile DEF TableInv, TableTypeOK
<1>4. Abs!Overwrite(data[OSFile(p)], off, n) \in Bytes
  BY <1>3, OverwriteType
<1> QED
  BY Zenon, <1>1, <1>2, <1>4, UpdateInv

\* Truncating keeps the invariant.
LEMMA TruncateInv ==
    ASSUME TableInv, NEW p \in PFiles, NEW size \in Nat, vfsTruncate(p, size)
    PROVE  TableInv'
<1>1. p \in Live /\ Same
  BY DEF vfsTruncate, Live
<1>2. CASE data' = [data EXCEPT ![OSFile(p)] = Abs!Resize(@, size)]
  <2>1. data[OSFile(p)] \in Bytes
    BY <1>1, LiveFile DEF TableInv, TableTypeOK
  <2>2. Abs!Resize(data[OSFile(p)], size) \in Bytes
    BY <2>1, ResizeType
  <2> QED
    BY Zenon, <1>1, <1>2, <2>2, UpdateInv
<1>3. CASE UNCHANGED data
  BY <1>1, <1>3, SameInv DEF Same, TableInv, TableTypeOK
<1> QED
  BY <1>2, <1>3 DEF vfsTruncate

\* The calls that change no file.
LEMMA QuietInv ==
    ASSUME TableInv,
           \/ UNCHANGED vars
           \/ \E p \in PFiles : vfsSync(p) \/ vfsFileSize(p)
           \/ \E p \in PFiles, off \in Nat, amt \in Nat : vfsRead(p, off, amt)
           \/ \E n \in Names : vfsAccess(n)
    PROVE  TableInv'
<1>1. UNCHANGED <<vfsOpenFiles, ID, file, state, dir, peak, data>>
  BY Zenon DEF vars, vfsSync, vfsFileSize, vfsRead, vfsAccess, Same
<1> QED
  BY <1>1, SameInv DEF TableInv, TableTypeOK

\* Deleting a name keeps the invariant.
LEMMA DeleteInv ==
    ASSUME TableInv, NEW n \in Names, vfsDelete(n)
    PROVE  TableInv'
<1>1. dir' \in [Names -> Created \cup {NULL}]
  BY Zenon DEF vfsDelete, TableInv, TableTypeOK
<1> QED
  BY <1>1, SameInv DEF vfsDelete, TableInv, TableTypeOK

\* The offsets and amounts of calls are numbers.
LEMMA Sizes ==
    /\ \A off \in 0 .. MaxSize - 1 : off \in Nat
    /\ \A size \in 0 .. MaxSize : size \in Nat
    /\ \A amt \in 1 .. MaxSize : amt \in Nat
  BY BoundsAssumption

\* Every step keeps the invariant.
LEMMA NextTableInv ==
    TableInv /\ [Next]_vars => TableInv'
<1> SUFFICES ASSUME TableInv, [Next]_vars PROVE TableInv'
  OBVIOUS
<1>1. ASSUME NEW p \in PFiles, NEW n \in Names, NEW create \in BOOLEAN, NEW exclusive \in BOOLEAN,
             vfsOpen(p, n, create, exclusive)
      PROVE  TableInv'
  BY <1>1, OpenInv
<1>2. ASSUME NEW p \in PFiles, vfsOpenTemp(p) PROVE TableInv'
  BY <1>2, OpenInv
<1>3. ASSUME NEW p \in PFiles, SetID(p) PROVE TableInv'
  BY <1>3, SetIDInv
<1>4. ASSUME NEW p \in PFiles, vfsClose(p) PROVE TableInv'
  BY <1>4, CloseInv
<1>5. ASSUME NEW p \in PFiles, Abandon(p) PROVE TableInv'
  BY <1>5, AbandonInv
<1>6. ASSUME NEW p \in PFiles, vfsSync(p) \/ vfsFileSize(p) PROVE TableInv'
  BY <1>6, QuietInv
<1>7. ASSUME NEW p \in PFiles, NEW off \in 0 .. MaxSize - 1, NEW amt \in 1 .. MaxSize,
             vfsRead(p, off, amt)
      PROVE  TableInv'
  BY <1>7, QuietInv, Sizes
<1>8. ASSUME NEW p \in PFiles, NEW off \in 0 .. MaxSize - 1, NEW amt \in 1 .. MaxSize,
             vfsWrite(p, off, amt)
      PROVE  TableInv'
  BY <1>8, WriteInv, Sizes
<1>9. ASSUME NEW p \in PFiles, NEW size \in 0 .. MaxSize, vfsTruncate(p, size) PROVE TableInv'
  BY <1>9, TruncateInv, Sizes
<1>10. ASSUME NEW n \in Names, vfsDelete(n) PROVE TableInv'
  BY <1>10, DeleteInv
<1>11. ASSUME NEW n \in Names, vfsAccess(n) PROVE TableInv'
  BY <1>11, QuietInv
<1>12. ASSUME UNCHANGED vars PROVE TableInv'
  BY <1>12, QuietInv
<1> QED
  BY <1>1, <1>2, <1>3, <1>4, <1>5, <1>6, <1>7, <1>8, <1>9, <1>10, <1>11, <1>12 DEF Next

\* So it always holds.
LEMMA TableInvariance ==
    Spec => []TableInv
  BY InitTableInv, NextTableInv, PTL DEF Spec
-------------------------------------------------------------------------------
(* The refinement. *)
LEMMA HandleFacts ==
    /\ Handle = [p \in PFiles |-> Handle[p]]
    /\ \A p \in PFiles :
          /\ state[p] = "closed" => Handle[p] = NULL
          /\ state[p] = "opening" => Handle[p] = file[p]
          /\ state[p] \in {"open", "abandoned"} => Handle[p] = vfsOpenFiles[ID[p]]
  BY DEF Handle

\* The file a handle stands for, after a step.
LEMMA HandleFactsPrime ==
    /\ Handle' = [p \in PFiles |-> Handle'[p]]
    /\ \A p \in PFiles :
          /\ state'[p] = "closed" => Handle'[p] = NULL
          /\ state'[p] = "opening" => Handle'[p] = file'[p]
          /\ state'[p] \in {"open", "abandoned"} => Handle'[p] = vfsOpenFiles'[ID'[p]]
  BY DEF Handle

\* One handle changes, or none.
LEMMA HandleSet ==
    ASSUME NEW p \in PFiles, NEW v, Handle'[p] = v,
           \A q \in PFiles : q # p => Handle'[q] = Handle[q]
    PROVE  Handle' = [Handle EXCEPT ![p] = v]
  BY HandleFacts, HandleFactsPrime

\* Handles that stand for the same files are the same function.
LEMMA HandleSame ==
    ASSUME \A q \in PFiles : Handle'[q] = Handle[q]
    PROVE  Handle' = Handle
  BY HandleFacts, HandleFactsPrime

\* Calls that leave the table alone leave every handle its file.
LEMMA SameHandle ==
    ASSUME UNCHANGED <<vfsOpenFiles, ID, file, state>>
    PROVE  Handle' = Handle
  BY DEF Handle

\* Opening gives a file to the one handle.
LEMMA OpensHandle ==
    ASSUME TableInv, NEW p \in PFiles, NEW f, state[p] = "closed",
           file' = [file EXCEPT ![p] = f], state' = [state EXCEPT ![p] = "opening"],
           UNCHANGED <<vfsOpenFiles, ID>>
    PROVE  Handle[p] = NULL /\ Handle' = [Handle EXCEPT ![p] = f]
<1>1. Handle[p] = NULL /\ Handle'[p] = f
  BY HandleFacts, HandleFactsPrime DEF TableInv, TableTypeOK
<1>2. ASSUME NEW q \in PFiles, q # p PROVE Handle'[q] = Handle[q]
  <2>1. state'[q] = state[q] /\ file'[q] = file[q] /\ ID'[q] = ID[q]
    BY <1>2 DEF TableInv, TableTypeOK
  <2>2. state[q] \in {"closed", "opening", "open", "abandoned"}
    BY DEF TableInv, TableTypeOK
  <2> QED
    BY <2>1, <2>2, HandleFacts, HandleFactsPrime
<1> QED
  BY <1>1, <1>2, HandleSet

\* vfsOpen opens the handle when it opens the file.
LEMMA OpenRefines ==
    ASSUME TableInv, NEW p \in PFiles,
           \/ \E n \in Names, create, exclusive \in BOOLEAN : vfsOpen(p, n, create, exclusive)
           \/ vfsOpenTemp(p)
    PROVE  Abs!Open(p) \/ Abs!Other
<1>1. ASSUME NEW n \in Names, NEW create \in BOOLEAN, NEW exclusive \in BOOLEAN,
             vfsOpen(p, n, create, exclusive)
      PROVE  Abs!Open(p) \/ Abs!Other
  <2>1. CASE /\ dir[n] # NULL /\ state[p] = "closed"
             /\ file' = [file EXCEPT ![p] = dir[n]]
             /\ state' = [state EXCEPT ![p] = "opening"]
             /\ UNCHANGED <<dir, data, ret, vfsOpenFiles, ID>>
    BY Zenon, <2>1, OpensHandle DEF Abs!Open, NULL
  <2>2. CASE /\ dir[n] = NULL /\ state[p] = "closed"
             /\ data' = Append(data, <<>>)
             /\ dir' = [dir EXCEPT ![n] = Len(data) + 1]
             /\ file' = [file EXCEPT ![p] = Len(data) + 1]
             /\ state' = [state EXCEPT ![p] = "opening"]
             /\ UNCHANGED <<ret, vfsOpenFiles, ID>>
    BY Zenon, <2>2, OpensHandle DEF Abs!Open, NULL
  <2>3. CASE /\ Return(<<"Other">>, "CANTOPEN", <<>>)
             /\ UNCHANGED <<dir, data, file, state, vfsOpenFiles, ID>>
    BY <2>3, SameHandle DEF Abs!Other, Return
  <2> QED
    BY <1>1, <2>1, <2>2, <2>3 DEF vfsOpen
<1>2. CASE vfsOpenTemp(p)
  BY Zenon, <1>2, OpensHandle DEF vfsOpenTemp, Abs!Open, NULL
<1> QED
  BY <1>1, <1>2

\* Choosing the slot changes nothing that a handle stands for.
LEMMA SetIDRefines ==
    ASSUME TableInv, NEW p \in PFiles, SetID(p)
    PROVE  Abs!Other
<1>1. /\ state[p] = "opening" /\ state' = [state EXCEPT ![p] = "open"]
      /\ file' = [file EXCEPT ![p] = NULL]
      /\ ID' = [ID EXCEPT ![p] = vfsGetFileID(file[p])]
      /\ Return(<<"Other">>, "OK", <<>>) /\ UNCHANGED <<dir, data>>
  BY DEF SetID
<1>2. Handle'[p] = Handle[p]
  BY Zenon, <1>1, HandleFacts, HandleFactsPrime, SetIDInv DEF TableInv, TableTypeOK
<1>3. ASSUME NEW q \in PFiles, q # p PROVE Handle'[q] = Handle[q]
  <2>1. state'[q] = state[q] /\ file'[q] = file[q] /\ ID'[q] = ID[q]
    BY <1>1, <1>3 DEF TableInv, TableTypeOK
  <2>2. state[q] \in {"open", "abandoned"} => vfsOpenFiles'[ID[q]] = vfsOpenFiles[ID[q]]
    BY SetIDInv DEF Live
  <2>3. state[q] \in {"closed", "opening", "open", "abandoned"}
    BY DEF TableInv, TableTypeOK
  <2> QED
    BY <2>1, <2>2, <2>3, HandleFacts, HandleFactsPrime
<1> QED
  BY <1>1, <1>2, <1>3, HandleSame DEF Abs!Other, Return

\* vfsClose closes one handle.
LEMMA CloseRefines ==
    ASSUME TableInv, NEW p \in PFiles, vfsClose(p)
    PROVE  Abs!Close(p)
<1>1. /\ state[p] = "open" /\ state' = [state EXCEPT ![p] = "closed"]
      /\ UNCHANGED <<ID, file, dir, data>>
      /\ \E rc \in {"OK", "IOERR_CLOSE"} : Return(<<"Close", p>>, rc, <<>>)
  BY DEF vfsClose
<1>2. Handle[p] # NULL /\ Handle'[p] = NULL
  BY <1>1, LiveFile, HandleFactsPrime DEF Live, TableInv, TableTypeOK
<1>3. ASSUME NEW q \in PFiles, q # p PROVE Handle'[q] = Handle[q]
  <2>1. state'[q] = state[q] /\ file'[q] = file[q] /\ ID'[q] = ID[q]
    BY <1>1, <1>3 DEF TableInv, TableTypeOK
  <2>2. state[q] \in {"open", "abandoned"} => vfsOpenFiles'[ID[q]] = vfsOpenFiles[ID[q]]
    BY <1>3, CloseInv DEF Live
  <2>3. state[q] \in {"closed", "opening", "open", "abandoned"}
    BY DEF TableInv, TableTypeOK
  <2> QED
    BY <2>1, <2>2, <2>3, HandleFacts, HandleFactsPrime
<1>4. Handle' = [Handle EXCEPT ![p] = 0]
  BY <1>2, <1>3, HandleSet DEF NULL
<1> QED
  BY <1>1, <1>2, <1>4 DEF Abs!Close, Abs!Call, Abs!Returned, Return, NULL

\* An abandoned handle keeps its file.
LEMMA AbandonRefines ==
    ASSUME TableInv, NEW p \in PFiles, Abandon(p)
    PROVE  UNCHANGED Abs!vars
<1>1. ASSUME NEW q \in PFiles PROVE Handle'[q] = Handle[q]
  <2>1. /\ \/ state'[q] = state[q]
           \/ state[q] = "open" /\ state'[q] = "abandoned"
        /\ UNCHANGED <<vfsOpenFiles, ID, file>>
    BY DEF Abandon, TableInv, TableTypeOK
  <2>2. state[q] \in {"closed", "opening", "open", "abandoned"}
    BY DEF TableInv, TableTypeOK
  <2> QED
    BY <2>1, <2>2, HandleFacts, HandleFactsPrime
<1> QED
  BY <1>1, HandleSame DEF Abandon, Abs!vars

\* What vfsRead leaves in the buffer when ReadAt got n bytes, and what Files
\* says of it.
Filled(bytes, off, amt, n) ==
    SubSeq(ReadAt(bytes, off, amt), 1, n) \o [i \in 1 .. amt - n |-> 0]

\* What Files promises a read to return: n bytes of the file, then zeros.
Promised(bytes, off, amt, n) ==
    [i \in 1 .. amt |-> IF i <= n THEN Abs!ByteAt(bytes, off + i - 1) ELSE 0]

\* vfsRead fills the buffer as Files promises, on short reads too.
LEMMA ReadBytes ==
    ASSUME NEW bytes \in Bytes, NEW off \in Nat, NEW amt \in Nat,
           NEW n \in 0 .. Len(ReadAt(bytes, off, amt))
    PROVE  /\ n \in 0 .. amt
           /\ n = amt /\ n > 0 => off + amt <= Len(bytes)
           /\ Filled(bytes, off, amt, n) = Promised(bytes, off, amt, n)
<1> DEFINE len == Len(bytes)
           end == IF off + amt <= len THEN off + amt ELSE len
           there == ReadAt(bytes, off, amt)
           got == SubSeq(there, 1, n)
           zeros == [i \in 1 .. amt - n |-> 0]
           out == [i \in 1 .. amt |-> IF i <= n THEN Abs!ByteAt(bytes, off + i - 1) ELSE 0]
<1>1. /\ len \in Nat /\ end \in Nat /\ end <= len /\ end <= off + amt
      /\ end = off + amt \/ end = len
      /\ \A i \in 1 .. len : bytes[i] \in {0, 1}
  BY DEF Bytes
<1>2. there = SubSeq(bytes, off + 1, end)
  BY DEF ReadAt
<1> HIDE DEF len, end, there
<1>3. \A i \in off + 1 .. end : bytes[i] \in {0, 1}
  BY <1>1
<1>4. /\ there \in Seq({0, 1})
      /\ Len(there) = IF off + 1 <= end THEN end - off ELSE 0
      /\ \A i \in 1 .. end - off : there[i] = bytes[off + i]
  <2>1. /\ SubSeq(bytes, off + 1, end) \in Seq({0, 1})
        /\ Len(SubSeq(bytes, off + 1, end)) =
              IF off + 1 <= end THEN end - (off + 1) + 1 ELSE 0
        /\ \A i \in 1 .. end - (off + 1) + 1 :
              SubSeq(bytes, off + 1, end)[i] = bytes[off + 1 + i - 1]
    <3> DEFINE first == off + 1
    <3>1. first \in Int /\ end \in Int /\ \A i \in first .. end : bytes[i] \in {0, 1}
      BY <1>1, <1>3
    <3> HIDE DEF first
    <3>2. /\ SubSeq(bytes, first, end) \in Seq({0, 1})
          /\ Len(SubSeq(bytes, first, end)) = IF first <= end THEN end - first + 1 ELSE 0
          /\ \A i \in 1 .. end - first + 1 : SubSeq(bytes, first, end)[i] = bytes[first + i - 1]
      BY <3>1, SubSeqProperties
    <3> QED
      BY Zenon, <3>2 DEF first
  <2> QED
    BY <1>1, <1>2, <2>1
<1>5. n \in Nat /\ n <= Len(there)
  BY <1>4 DEF there
<1>6. n \in 0 .. amt /\ (n = amt /\ n > 0 => off + amt <= len)
  BY <1>1, <1>4, <1>5
<1>7. /\ got \in Seq({0, 1}) /\ Len(got) = n
      /\ \A i \in 1 .. n : got[i] = there[i]
  <2>1. \A i \in 1 .. n : there[i] \in {0, 1}
    BY <1>4, <1>5
  <2>2. /\ SubSeq(there, 1, n) \in Seq({0, 1})
        /\ Len(SubSeq(there, 1, n)) = IF 1 <= n THEN n - 1 + 1 ELSE 0
        /\ \A i \in 1 .. n - 1 + 1 : SubSeq(there, 1, n)[i] = there[1 + i - 1]
    BY <1>5, <2>1, SubSeqProperties
  <2> QED
    BY <1>5, <2>2
<1>8. zeros \in [1 .. amt - n -> {0, 1}] /\ amt - n \in Nat
  BY <1>6
<1>9. zeros \in Seq({0, 1}) /\ Len(zeros) = amt - n
  BY <1>8, FunctionIsSeq
<1>10. \A i \in 1 .. amt - n : zeros[i] = 0
  OBVIOUS
<1>11. \A i \in 1 .. amt : Abs!ByteAt(bytes, off + i - 1) \in {0, 1}
  BY ByteAtType
<1>12. out \in [1 .. amt -> {0, 1}]
  BY Zenon, <1>11
<1>13. out \in Seq({0, 1}) /\ Len(out) = amt
  BY Zenon, <1>12, FunctionIsSeq
<1>14. \A i \in 1 .. n : there[i] = Abs!ByteAt(bytes, off + i - 1)
  <2> SUFFICES ASSUME NEW i \in 1 .. n PROVE there[i] = Abs!ByteAt(bytes, off + i - 1)
    OBVIOUS
  <2>1. i \in 1 .. end - off /\ off + i - 1 < len /\ off + i - 1 + 1 = off + i
    BY <1>1, <1>4, <1>5
  <2>2. there[i] = bytes[off + i]
    BY Zenon, <1>4, <2>1
  <2> QED
    BY <2>1, <2>2 DEF Abs!ByteAt, len
<1>15. /\ \A i \in 1 .. n : out[i] = there[i]
       /\ \A i \in 1 .. amt : i > n => out[i] = 0
  BY <1>6, <1>14
<1> HIDE DEF got, zeros, out
<1>16. /\ got \o zeros \in Seq({0, 1})
       /\ Len(got \o zeros) = amt
       /\ \A i \in 1 .. amt : (got \o zeros)[i] = IF i <= n THEN got[i] ELSE zeros[i - n]
  <2>1. /\ got \o zeros \in Seq({0, 1})
        /\ Len(got \o zeros) = Len(got) + Len(zeros)
        /\ \A i \in 1 .. Len(got) + Len(zeros) :
              (got \o zeros)[i] = IF i <= Len(got) THEN got[i] ELSE zeros[i - Len(got)]
    BY Zenon, <1>7, <1>9, ConcatProperties
  <2>2. n + (amt - n) = amt
    BY <1>6
  <2> QED
    BY Zenon, <1>7, <1>9, <2>1, <2>2
<1>17. \A i \in 1 .. amt : (got \o zeros)[i] = out[i]
  <2> DEFINE all == got \o zeros
  <2>0. \A i \in 1 .. amt : all[i] = IF i <= n THEN got[i] ELSE zeros[i - n]
    BY <1>16
  <2> HIDE DEF all
  <2> SUFFICES ASSUME NEW i \in 1 .. amt PROVE all[i] = out[i]
    BY Zenon DEF all
  <2>1. CASE i <= n
    BY <1>6, <1>7, <1>15, <2>0, <2>1
  <2>2. CASE i > n
    <3>1. i - n \in 1 .. amt - n
      BY <1>6, <2>2
    <3> QED
      BY <1>6, <1>10, <1>15, <2>0, <2>2, <3>1
  <2> QED
    BY <1>6, <2>1, <2>2
<1>18. got \o zeros = out
  BY Zenon, <1>13, <1>16, <1>17, SeqEqual
<1> QED
  BY Zenon, <1>6, <1>18 DEF got, zeros, out, there, len, Filled, Promised

\* vfsRead reads the file of its own handle.
LEMMA ReadRefines ==
    ASSUME TableInv, NEW p \in PFiles, NEW off \in Nat, NEW amt \in Nat \ {0},
           vfsRead(p, off, amt)
    PROVE  Abs!Read(p, off, amt)
<1> DEFINE bytes == data[OSFile(p)]
           rc(n) == IF n = amt THEN "OK" ELSE "IOERR_SHORT_READ"
<1>1. p \in Live /\ UNCHANGED <<dir, data>> /\ Handle' = Handle
  BY SameHandle DEF vfsRead, Same, Live
<1>2. Handle[p] = OSFile(p) /\ Handle[p] # 0 /\ bytes \in Bytes
  BY <1>1, LiveFile DEF TableInv, TableTypeOK, NULL
<1>3. \/ \E n \in 0 .. Len(ReadAt(bytes, off, amt)) :
            Return(<<"Read", p, off, amt>>, rc(n), Filled(bytes, off, amt, n))
      \/ Return(<<"Read", p, off, amt>>, "IOERR_READ", <<>>)
  BY Zenon DEF vfsRead, Filled
<1>4. ASSUME NEW n \in 0 .. Len(ReadAt(bytes, off, amt)),
             Return(<<"Read", p, off, amt>>, rc(n), Filled(bytes, off, amt, n))
      PROVE  Abs!Read(p, off, amt)
  <2>1. /\ n \in 0 .. amt
        /\ n = amt => off + amt <= Len(bytes)
        /\ Filled(bytes, off, amt, n) = Promised(bytes, off, amt, n)
    BY <1>2, ReadBytes
  <2>2. Abs!Call(p, <<"Read", p, off, amt>>, rc(n), Promised(bytes, off, amt, n))
    BY <1>2, <1>4, <2>1 DEF Abs!Call, Abs!Returned, Return
  <2>3. /\ bytes = data[Handle[p]]
        /\ UNCHANGED <<Handle, dir, data>>
    BY <1>1, <1>2
  <2> QED
    BY <2>1, <2>2, <2>3, Zenon DEF Abs!Read, Promised
<1>5. CASE Return(<<"Read", p, off, amt>>, "IOERR_READ", <<>>)
  BY <1>1, <1>2, <1>5 DEF Abs!Read, Abs!Call, Abs!Returned, Return
<1> QED
  BY <1>3, <1>4, <1>5

\* vfsWrite writes the file of its own handle.
LEMMA WriteRefines ==
    ASSUME TableInv, NEW p \in PFiles, NEW off, NEW amt, vfsWrite(p, off, amt)
    PROVE  Abs!Write(p, off, amt)
<1>1. p \in Live /\ UNCHANGED dir /\ Handle' = Handle
  BY SameHandle DEF vfsWrite, Same, Live
<1>2. Handle[p] = OSFile(p) /\ Handle[p] # 0
  BY <1>1, LiveFile DEF NULL
<1>3. PICK n \in 0 .. amt :
         /\ data' = [data EXCEPT ![OSFile(p)] = Abs!Overwrite(@, off, n)]
         /\ Return(<<"Write", p>>, IF n = amt THEN "OK" ELSE "IOERR_WRITE", <<>>)
  BY Zenon DEF vfsWrite
<1>4. Abs!Call(p, <<"Write", p>>, IF n = amt THEN "OK" ELSE "IOERR_WRITE", <<>>)
  BY <1>2, <1>3 DEF Abs!Call, Abs!Returned, Return
<1> QED
  BY Zenon, <1>1, <1>2, <1>3, <1>4 DEF Abs!Write

\* The other calls on an open file.
LEMMA CallRefines ==
    ASSUME TableInv, NEW p \in PFiles
    PROVE  /\ \A size : vfsTruncate(p, size) => Abs!Truncate(p, size)
           /\ vfsFileSize(p) => Abs!FileSize(p)
           /\ vfsSync(p) => Abs!Other
<1>1. Same => Handle' = Handle /\ UNCHANGED dir
  BY SameHandle DEF Same
<1>2. state[p] = "open" => Handle[p] = OSFile(p) /\ Handle[p] # 0
  BY LiveFile DEF Live, NULL
<1>3. ASSUME NEW size, vfsTruncate(p, size) PROVE Abs!Truncate(p, size)
  BY <1>1, <1>2, <1>3 DEF vfsTruncate, Abs!Truncate, Abs!Call, Abs!Returned, Return
<1>4. vfsFileSize(p) => Abs!FileSize(p)
  BY <1>1, <1>2 DEF vfsFileSize, Abs!FileSize, Abs!Call, Abs!Returned, Return
<1>5. vfsSync(p) => Abs!Other
  BY <1>1 DEF vfsSync, Abs!Other, Return
<1> QED
  BY <1>3, <1>4, <1>5

\* vfsDelete and vfsAccess act on names as Files says.
LEMMA NameRefines ==
    ASSUME TableInv, NEW n \in Names
    PROVE  /\ vfsDelete(n) => Abs!Delete(n)
           /\ vfsAccess(n) => Abs!Exists(n)
<1>1. vfsDelete(n) => Abs!Delete(n)
  BY SameHandle DEF vfsDelete, Abs!Delete, Abs!Returned, Return, NULL, TableInv, TableTypeOK
<1>2. vfsAccess(n) => Abs!Exists(n)
  BY SameHandle DEF vfsAccess, Abs!Exists, Abs!Returned, Return, NULL, Same
<1> QED
  BY <1>1, <1>2

\* Every step of the table is a step of Files, or none.
LEMMA NextRefines ==
    TableInv /\ [Next]_vars => [Abs!Next]_(Abs!vars)
<1> SUFFICES ASSUME TableInv, [Next]_vars PROVE [Abs!Next]_(Abs!vars)
  OBVIOUS
<1>1. ASSUME NEW p \in PFiles, NEW n \in Names, NEW create \in BOOLEAN, NEW exclusive \in BOOLEAN,
             vfsOpen(p, n, create, exclusive)
      PROVE  Abs!Next
  BY <1>1, OpenRefines DEF Abs!Next
<1>2. ASSUME NEW p \in PFiles, vfsOpenTemp(p) PROVE Abs!Next
  BY <1>2, OpenRefines DEF Abs!Next
<1>3. ASSUME NEW p \in PFiles, SetID(p) PROVE Abs!Next
  BY <1>3, SetIDRefines DEF Abs!Next
<1>4. ASSUME NEW p \in PFiles, vfsClose(p) PROVE Abs!Next
  BY <1>4, CloseRefines DEF Abs!Next
<1>5. ASSUME NEW p \in PFiles, Abandon(p) PROVE UNCHANGED Abs!vars
  BY <1>5, AbandonRefines
<1>6. ASSUME NEW p \in PFiles, vfsSync(p) \/ vfsFileSize(p) PROVE Abs!Next
  BY <1>6, CallRefines DEF Abs!Next
<1>7. ASSUME NEW p \in PFiles, NEW off \in 0 .. MaxSize - 1, NEW amt \in 1 .. MaxSize,
             vfsRead(p, off, amt)
      PROVE  Abs!Next
  <2>1. off \in Nat /\ amt \in Nat \ {0}
    BY BoundsAssumption
  <2> QED
    BY <1>7, <2>1, ReadRefines DEF Abs!Next
<1>8. ASSUME NEW p \in PFiles, NEW off \in 0 .. MaxSize - 1, NEW amt \in 1 .. MaxSize,
             vfsWrite(p, off, amt)
      PROVE  Abs!Next
  BY <1>8, WriteRefines DEF Abs!Next
<1>9. ASSUME NEW p \in PFiles, NEW size \in 0 .. MaxSize, vfsTruncate(p, size) PROVE Abs!Next
  BY <1>9, CallRefines DEF Abs!Next
<1>10. ASSUME NEW n \in Names, vfsDelete(n) \/ vfsAccess(n) PROVE Abs!Next
  BY <1>10, NameRefines DEF Abs!Next
<1>11. ASSUME UNCHANGED vars PROVE UNCHANGED Abs!vars
  BY <1>11, SameHandle DEF vars, Abs!vars
<1> QED
  BY <1>1, <1>2, <1>3, <1>4, <1>5, <1>6, <1>7, <1>8, <1>9, <1>10, <1>11 DEF Next
-------------------------------------------------------------------------------
(* The theorems. *)
\* The slots in use are those of the open go_files, one for each: no id is
\* handed out twice, and no slot stays in use once its file is closed.
THEOREM SlotsOwned ==
    Spec => []OwnSlot
<1>1. TableInv => OwnSlot
  BY DEF TableInv
<1> QED
  BY <1>1, TableInvariance, PTL

\* The table is as long as the largest number of slots ever in use at a time.
THEOREM TableStaysTight ==
    Spec => []TableTight
<1>1. TableInv => TableTight
  BY DEF TableInv
<1> QED
  BY <1>1, TableInvariance, PTL

\* The table implements Files: each go_file works on the file it was opened on
\* until it is closed, whatever slots are reused and names removed, and a read
\* returns bytes of that file, or the first of them and zeros.
THEOREM TableImplementsFiles ==
    Spec => Implements
<1>1. Init => Abs!Init
  BY DEF Init, Abs!Init, Handle, NULL
<1> QED
  BY <1>1, NextRefines, TableInvariance, PTL DEF Spec, Abs!Spec, Implements
================================================================================

------------------------------ MODULE FileTable -------------------------------
(***************************************************************************)
(* The files that the connections of a process have open: the slots of     *)
(* vfsOpenFiles (vfs_files.go), guarded by a mutex, the slot number that   *)
(* each go_file structure of SQLite keeps, and the VFS calls on names and  *)
(* on open files (vfs.go).  A go_file is used by one thread at a time, so  *)
(* between looking its slot up and using the file nobody closes it, and a  *)
(* call other than vfsOpen is one step.                                    *)
(***************************************************************************)
EXTENDS Naturals, Sequences, FiniteSets

CONSTANTS
    PFiles,         \* the go_file structures, of any connection
    Names,          \* the names of database and journal files
    MaxFiles,       \* bound on the files ever created
    MaxSize         \* bound on the size of a file, in bytes

ASSUME BoundsAssumption == MaxFiles \in Nat /\ MaxSize \in Nat

VARIABLES
    vfsOpenFiles,   \* the slots: a file, or NULL (slot i is index i - 1)
    ID,             \* the slot number in each go_file, stale once it is closed
    file,           \* the local variable of vfsOpen
    state,          \* of each go_file: closed, opening, open, abandoned
    dir,            \* the file each name stands for, or NULL
    data,           \* the bytes of each file ever created
    ret,            \* what the last call was, and the code and value it returned
    peak            \* history: the largest number of slots in use at any time

vars == <<vfsOpenFiles, ID, file, state, dir, data, ret, peak>>

NULL == 0

Used == {i \in DOMAIN vfsOpenFiles : vfsOpenFiles[i] # NULL}

Handle == [p \in PFiles |->
    CASE state[p] = "opening" -> file[p]
      [] state[p] \in {"open", "abandoned"} -> vfsOpenFiles[ID[p]]
      [] OTHER -> NULL]

Abs == INSTANCE Files WITH handle <- Handle

Init ==
    /\ vfsOpenFiles = <<>>
    /\ ID = [p \in PFiles |-> 0]
    /\ file = [p \in PFiles |-> NULL]
    /\ state = [p \in PFiles |-> "closed"]
    /\ dir = [n \in Names |-> NULL]
    /\ data = <<>>
    /\ ret = Abs!Returned(<<"none">>, "OK", <<>>)
    /\ peak = 0

Return(call, rc, out) == ret' = Abs!Returned(call, rc, out)

-------------------------------------------------------------------------------
\* Mutants of vfsGetFileID and vfsCloseFile.
GetLastSlot(f) ==
    IF vfsOpenFiles = <<>> THEN 1 ELSE Len(vfsOpenFiles)

GetNewSlot(f) == Len(vfsOpenFiles) + 1

\* The first empty slot, or a new one.
vfsGetFileID(f) ==
    LET empty == DOMAIN vfsOpenFiles \ Used
    IN  IF empty = {} THEN Len(vfsOpenFiles) + 1
                      ELSE CHOOSE i \in empty : \A j \in empty : i <= j

\* vfsOpen, up to the open file: os.OpenFile with the O_CREATE and O_EXCL that
\* the flags ask for.
vfsOpen(p, n, create, exclusive) ==
    /\ state[p] = "closed"
    /\ \/ /\ dir[n] # NULL
          /\ ~(create /\ exclusive)
          /\ file' = [file EXCEPT ![p] = dir[n]]
          /\ state' = [state EXCEPT ![p] = "opening"]
          /\ UNCHANGED <<dir, data, ret>>
       \/ /\ dir[n] = NULL
          /\ create
          /\ Len(data) < MaxFiles
          /\ data' = Append(data, <<>>)
          /\ dir' = [dir EXCEPT ![n] = Len(data) + 1]
          /\ file' = [file EXCEPT ![p] = Len(data) + 1]
          /\ state' = [state EXCEPT ![p] = "opening"]
          /\ UNCHANGED ret
       \/ /\ Return(<<"Other">>, "CANTOPEN", <<>>)
          /\ UNCHANGED <<dir, data, file, state>>
    /\ UNCHANGED <<vfsOpenFiles, ID, peak>>

\* The same without a name: os.CreateTemp makes a file under a name of its own,
\* and DeleteOnClose (SQLite asks for it) removes the name again.
vfsOpenTemp(p) ==
    /\ state[p] = "closed"
    /\ Len(data) < MaxFiles
    /\ data' = Append(data, <<>>)
    /\ file' = [file EXCEPT ![p] = Len(data) + 1]
    /\ state' = [state EXCEPT ![p] = "opening"]
    /\ UNCHANGED <<vfsOpenFiles, ID, dir, ret, peak>>

\* The rest of vfsOpen; vfsGetFileID holds the mutex while it fills the slot.
SetID(p) ==
    /\ state[p] = "opening"
    /\ LET id == vfsGetFileID(file[p]) IN
          /\ vfsOpenFiles' = IF id \in DOMAIN vfsOpenFiles
                             THEN [vfsOpenFiles EXCEPT ![id] = file[p]]
                             ELSE Append(vfsOpenFiles, file[p])
          /\ ID' = [ID EXCEPT ![p] = id]
          /\ peak' = IF Cardinality(Used) < peak THEN peak ELSE Cardinality(Used) + 1
    /\ state' = [state EXCEPT ![p] = "open"]
    /\ file' = [file EXCEPT ![p] = NULL]
    /\ Return(<<"Other">>, "OK", <<>>)
    /\ UNCHANGED <<dir, data>>

\* Mutant: the slot stays when Close fails.
CloseOrKeep(p) ==
    /\ state[p] = "open"
    /\ \/ /\ vfsOpenFiles' = [vfsOpenFiles EXCEPT ![ID[p]] = NULL]
          /\ Return(<<"Close", p>>, "OK", <<>>)
       \/ Return(<<"Close", p>>, "IOERR_CLOSE", <<>>) /\ UNCHANGED vfsOpenFiles
    /\ state' = [state EXCEPT ![p] = "closed"]
    /\ UNCHANGED <<ID, file, dir, data, peak>>

\* The slot is emptied even if closing the file fails.
vfsClose(p) ==
    /\ state[p] = "open"
    /\ vfsOpenFiles' = [vfsOpenFiles EXCEPT ![ID[p]] = NULL]
    /\ state' = [state EXCEPT ![p] = "closed"]
    /\ \E rc \in {"OK", "IOERR_CLOSE"} : Return(<<"Close", p>>, rc, <<>>)
    /\ UNCHANGED <<ID, file, dir, data, peak>>

\* The connection's module is closed, or forgotten, while SQLite has the file
\* open (OpenFlags and driver.Open after an error): nobody empties the slot.
Abandon(p) ==
    /\ state[p] = "open"
    /\ state' = [state EXCEPT ![p] = "abandoned"]
    /\ UNCHANGED <<vfsOpenFiles, ID, file, dir, data, ret, peak>>

-------------------------------------------------------------------------------
\* The file that a call on an open go_file works on.
OSFile(p) == vfsOpenFiles[ID[p]]

Same == UNCHANGED <<vfsOpenFiles, ID, file, state, dir, peak>>

\* The bytes of a file from an offset, at most amt of them.
ReadAt(bytes, off, amt) ==
    SubSeq(bytes, off + 1, IF off + amt <= Len(bytes) THEN off + amt ELSE Len(bytes))

\* Mutant of vfsRead: what the read left of the buffer is not zeroed.
ReadUnfilled(p, off, amt) ==
    /\ state[p] = "open"
    /\ LET bytes == data[OSFile(p)]
           got == ReadAt(bytes, off, amt)
       IN  Return(<<"Read", p, off, amt>>,
                  IF Len(got) = amt THEN "OK" ELSE "IOERR_SHORT_READ", got)
    /\ UNCHANGED data
    /\ Same

\* ReadAt gets the bytes there are, or fails after n of them.  The bytes that
\* were not read are zeroed; an error after the first byte is not told apart
\* from the end of the file, one before it is.
vfsRead(p, off, amt) ==
    /\ state[p] = "open"
    /\ LET there == ReadAt(data[OSFile(p)], off, amt) IN
       \/ \E n \in 0 .. Len(there) :
             /\ n > 0 \/ there = <<>>
             /\ Return(<<"Read", p, off, amt>>,
                       IF n = amt THEN "OK" ELSE "IOERR_SHORT_READ",
                       SubSeq(there, 1, n) \o [i \in 1 .. amt - n |-> 0])
       \/ Return(<<"Read", p, off, amt>>, "IOERR_READ", <<>>)
    /\ UNCHANGED data
    /\ Same

\* WriteAt writes all bytes, or fails after n of them.
vfsWrite(p, off, amt) ==
    /\ state[p] = "open"
    /\ off + amt <= MaxSize
    /\ \E n \in 0 .. amt :
          /\ data' = [data EXCEPT ![OSFile(p)] = Abs!Overwrite(@, off, n)]
          /\ Return(<<"Write", p>>, IF n = amt THEN "OK" ELSE "IOERR_WRITE", <<>>)
    /\ Same

vfsTruncate(p, size) ==
    /\ state[p] = "open"
    /\ \/ /\ data' = [data EXCEPT ![OSFile(p)] = Abs!Resize(@, size)]
          /\ Return(<<"Truncate", p>>, "OK", <<>>)
       \/ Return(<<"Truncate", p>>, "IOERR_TRUNCATE", <<>>) /\ UNCHANGED data
    /\ Same

vfsSync(p) ==
    /\ state[p] = "open"
    /\ \E rc \in {"OK", "IOERR_FSYNC"} : Return(<<"Other">>, rc, <<>>)
    /\ UNCHANGED data
    /\ Same

vfsFileSize(p) ==
    /\ state[p] = "open"
    /\ \/ Return(<<"FileSize", p>>, "OK", <<Len(data[OSFile(p)])>>)
       \/ Return(<<"FileSize", p>>, "IOERR_SEEK", <<>>)
    /\ UNCHANGED data
    /\ Same

\* A missing name counts as deleted.  When the directory cannot be synced the
\* name is gone and the call fails.
vfsDelete(n) ==
    /\ \/ /\ dir' = [dir EXCEPT ![n] = NULL]
          /\ \/ Return(<<"Delete">>, "OK", <<>>)
             \/ dir[n] # NULL /\ Return(<<"Delete">>, "IOERR_DELETE", <<>>)
       \/ Return(<<"Delete">>, "IOERR_DELETE", <<>>) /\ UNCHANGED dir
    /\ UNCHANGED <<vfsOpenFiles, ID, file, state, data, peak>>

\* With ACCESS_EXISTS a missing name is an answer.
vfsAccess(n) ==
    /\ \/ Return(<<"Access", n>>, "OK", <<IF dir[n] # NULL THEN 1 ELSE 0>>)
       \/ Return(<<"Access", n>>, "IOERR_ACCESS", <<>>)
    /\ UNCHANGED data
    /\ Same

Next ==
    \/ \E p \in PFiles, n \in Names, create, exclusive \in BOOLEAN :
          vfsOpen(p, n, create, exclusive)
    \/ \E p \in PFiles :
          \/ vfsOpenTemp(p)
          \/ SetID(p)
          \/ vfsClose(p)
          \/ Abandon(p)
          \/ vfsSync(p)
          \/ vfsFileSize(p)
    \/ \E p \in PFiles, off \in 0 .. MaxSize - 1, amt \in 1 .. MaxSize :
          vfsRead(p, off, amt) \/ vfsWrite(p, off, amt)
    \/ \E p \in PFiles, size \in 0 .. MaxSize : vfsTruncate(p, size)
    \/ \E n \in Names : vfsDelete(n) \/ vfsAccess(n)

Spec == Init /\ [][Next]_vars

-------------------------------------------------------------------------------
Live == {p \in PFiles : state[p] \in {"open", "abandoned"}}

\* The slots in use are those of the go_files that are open, one for each: the
\* scan for an empty slot in vfsGetFileID and the reset in vfsCloseFile never
\* let two go_files share an id, nor a slot stay in use when its file was
\* closed, with or without an error.
OwnSlot ==
    /\ \A p, q \in Live : ID[p] = ID[q] => p = q
    /\ {ID[p] : p \in Live} = Used

\* vfsOpenFiles never grows beyond the largest number of files that were open
\* at the same time: vfsGetFileID appends only when every slot is in use.
TableTight == Len(vfsOpenFiles) = peak

\* Each go_file reads and writes the file it was opened on, however the other
\* go_files open, close and reuse slots, and however names are removed and
\* created again; a read that succeeds returns that file's bytes, and a short
\* one the first of them and zeros (vfsRead).
Implements == Abs!Spec
===============================================================================

-------------------------------- MODULE Files ---------------------------------
(***************************************************************************)
(* What SQLite relies on when it uses a file through the VFS: a handle     *)
(* names one file from the time it is opened until it is closed, whatever  *)
(* other handles do, and a file outlives its name.  FileTable implements   *)
(* this specification.                                                     *)
(***************************************************************************)
EXTENDS Naturals, Sequences

CONSTANTS PFiles, Names, MaxSize

VARIABLES
    handle,         \* the file each handle is open on, or 0
    dir,            \* the file each name stands for, or 0
    data,           \* the bytes of each file
    ret             \* what the last call was, and the code and value it returned

vars == <<handle, dir, data, ret>>

Returned(call, rc, out) == [call |-> call, rc |-> rc, out |-> out]

\* The byte at an offset; a file reads as zeros past its end.
ByteAt(bytes, i) == IF i < Len(bytes) THEN bytes[i + 1] ELSE 0

Extract(bytes, off, amt) == [i \in 1 .. amt |-> ByteAt(bytes, off + i - 1)]

\* A file cut, or extended with zeros, to a size.
Resize(bytes, size) == Extract(bytes, 0, size)

\* A file with n bytes of value 1 written at an offset.
Overwrite(bytes, off, n) ==
    [i \in 1 .. (IF n > 0 /\ off + n > Len(bytes) THEN off + n ELSE Len(bytes)) |->
        IF off < i /\ i <= off + n THEN 1 ELSE ByteAt(bytes, i - 1)]

Init ==
    /\ handle = [p \in PFiles |-> 0]
    /\ dir = [n \in Names |-> 0]
    /\ data = <<>>
    /\ ret = Returned(<<"none">>, "OK", <<>>)

\* A handle is opened on a named file, on a new one or on a nameless one.
Open(p) ==
    /\ UNCHANGED ret
    /\ handle[p] = 0
    /\ \/ /\ \E n \in Names : dir[n] # 0 /\ handle' = [handle EXCEPT ![p] = dir[n]]
          /\ UNCHANGED <<dir, data>>
       \/ /\ data' = Append(data, <<>>)
          /\ handle' = [handle EXCEPT ![p] = Len(data) + 1]
          /\ \/ UNCHANGED dir
             \/ \E n \in Names : dir[n] = 0 /\ dir' = [dir EXCEPT ![n] = Len(data) + 1]

\* A call on an open handle returns.
Call(p, call, rc, out) ==
    /\ ret'.call = call /\ handle[p] # 0
    /\ ret' = Returned(call, rc, out)

Close(p) ==
    /\ \E rc \in {"OK", "IOERR_CLOSE"} : Call(p, <<"Close", p>>, rc, <<>>)
    /\ handle' = [handle EXCEPT ![p] = 0]
    /\ UNCHANGED <<dir, data>>

\* A read that does not fail returns bytes of the handle's file, all of them
\* or, if it is short, the first ones and zeros.
Read(p, off, amt) ==
    /\ \/ Call(p, <<"Read", p, off, amt>>, "IOERR_READ", <<>>)
       \/ \E n \in 0 .. amt :
             /\ Call(p, <<"Read", p, off, amt>>,
                     IF n = amt THEN "OK" ELSE "IOERR_SHORT_READ",
                     [i \in 1 .. amt |-> IF i <= n THEN ByteAt(data[handle[p]], off + i - 1)
                                                   ELSE 0])
             /\ n = amt => off + amt <= Len(data[handle[p]])
    /\ UNCHANGED <<handle, dir, data>>

\* A write that fails may have written some of its bytes.
Write(p, off, amt) ==
    /\ \E n \in 0 .. amt :
          /\ Call(p, <<"Write", p>>, IF n = amt THEN "OK" ELSE "IOERR_WRITE", <<>>)
          /\ data' = [data EXCEPT ![handle[p]] = Overwrite(@, off, n)]
    /\ UNCHANGED <<handle, dir>>

Truncate(p, size) ==
    /\ \/ /\ Call(p, <<"Truncate", p>>, "OK", <<>>)
          /\ data' = [data EXCEPT ![handle[p]] = Resize(@, size)]
       \/ Call(p, <<"Truncate", p>>, "IOERR_TRUNCATE", <<>>) /\ UNCHANGED data
    /\ UNCHANGED <<handle, dir>>

FileSize(p) ==
    /\ \/ Call(p, <<"FileSize", p>>, "OK", <<Len(data[handle[p]])>>)
       \/ Call(p, <<"FileSize", p>>, "IOERR_SEEK", <<>>)
    /\ UNCHANGED <<handle, dir, data>>

\* A name that is said to be deleted is gone.
Delete(n) ==
    /\ \E rc \in {"OK", "IOERR_DELETE"} : ret' = Returned(<<"Delete">>, rc, <<>>)
    /\ dir' \in {dir, [dir EXCEPT ![n] = 0]}
    /\ ret'.rc = "OK" => dir'[n] = 0
    /\ UNCHANGED <<handle, data>>

\* A name that is said to exist, or not to exist, does or does not.
Exists(n) ==
    /\ \/ ret' = Returned(<<"Access", n>>, "OK", <<IF dir[n] = 0 THEN 0 ELSE 1>>)
       \/ ret' = Returned(<<"Access", n>>, "IOERR_ACCESS", <<>>)
    /\ UNCHANGED <<handle, dir, data>>

\* The end of an open, and a call that changes no file.
Other ==
    /\ \E rc \in {"OK", "CANTOPEN", "IOERR_FSYNC"} : ret' = Returned(<<"Other">>, rc, <<>>)
    /\ UNCHANGED <<handle, dir, data>>

Next ==
    \/ \E p \in PFiles : Open(p) \/ Close(p) \/ FileSize(p)
    \/ \E p \in PFiles, off \in 0 .. MaxSize - 1, amt \in 1 .. MaxSize :
          Read(p, off, amt) \/ Write(p, off, amt)
    \/ \E p \in PFiles, size \in 0 .. MaxSize : Truncate(p, size)
    \/ \E n \in Names : Delete(n) \/ Exists(n)
    \/ Other

Spec == Init /\ [][Next]_vars
===============================================================================

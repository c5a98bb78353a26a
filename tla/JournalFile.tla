----------------------------- MODULE JournalFile -----------------------------
(***************************************************************************)
(* A file of the VFS in demovfs.h, with the write buffer that journal      *)
(* files have.  SQLite uses one handle at a time and one operation at a    *)
(* time.  The file of the operating system is PlainFile once more: disk is *)
(* what its cache holds, media what a power failure may leave.             *)
(*                                                                         *)
(* A system call is one step, and so is a copy into the buffer together    *)
(* with the flush before it; an operation can be cut off between two.      *)
(***************************************************************************)
EXTENDS Integers

CONSTANTS
    MaxSize, Bytes, Zero,   \* as in PlainFile
    BufferSize              \* SQLITE_DEMOVFS_BUFFERSZ

VARIABLES
    disk, length, media, lengths,   \* the operating system's file
    handle,        \* "closed", "plain" or "buffered" (aBuffer is set)
    aBuffer, nBuffer, iBufferOfst,
    z,             \* demoWrite: what is still to be copied, by offset
    reply          \* what the last operation returned

osfile  == <<disk, length, media, lengths>>
buffer  == <<aBuffer, nBuffer, iBufferOfst>>
vars    == <<osfile, handle, buffer, z, reply>>

OS == INSTANCE PlainFile WITH
          content <- disk, size <- length, survivors <- media, sizes <- lengths

Offsets == OS!Offsets
NoFile  == OS!NoFile
Nothing == [o \in {} |-> Zero]
Error(op)   == OS!Result(op, "error", 0)
Pending(op) == OS!Result(op, "pending", 0)
Ready == reply.rc # "pending"
IsOpen == handle # "closed"

Init ==
    /\ OS!FileInit
    /\ handle = "closed"
    /\ aBuffer = [k \in 0 .. BufferSize - 1 |-> Zero]
    /\ nBuffer = 0
    /\ iBufferOfst = 0
    /\ z = Nothing

(***************************************************************************)
(* Writing to the file and flushing the buffer.                            *)
(***************************************************************************)

\* What the buffer holds, by offset in the file.
Buffered == [o \in iBufferOfst .. iBufferOfst + nBuffer - 1 |-> aBuffer[o - iBufferOfst]]

\* demoDirectWrite fails: only a beginning of d was written, or nothing.
DirectWriteFails(d) ==
    \/ UNCHANGED osfile
    \/ \E hi \in DOMAIN d : hi + 1 \in DOMAIN d /\ OS!Put([o \in {p \in DOMAIN d : p <= hi} |-> d[o]])

\* demoFlushBuffer; the buffer is empty afterwards, whatever write() returned.
WriteBuffer == IF nBuffer = 0 THEN UNCHANGED osfile ELSE OS!Put(Buffered)
Emptied == nBuffer' = 0 /\ UNCHANGED <<aBuffer, iBufferOfst>>
FlushFails(op) == nBuffer > 0 /\ DirectWriteFails(Buffered) /\ reply' = Error(op)

(***************************************************************************)
(* Open, close, delete, access.                                            *)
(***************************************************************************)

\* demoOpen.  The buffer comes from malloc: nothing in it is read before it
\* is written.
Open(journal, create, exclusive) ==
    /\ ~IsOpen /\ Ready
    /\ create \/ length # NoFile
    /\ create /\ exclusive => length = NoFile
    /\ IF length = NoFile THEN OS!Create ELSE UNCHANGED osfile
    /\ handle' = IF journal THEN "buffered" ELSE "plain"
    /\ nBuffer' = 0
    /\ iBufferOfst' = 0
    /\ reply' = OS!Ok("open")
    /\ UNCHANGED <<aBuffer, z>>

\* No name, no memory for the buffer, or open() fails.
OpenFails ==
    /\ ~IsOpen /\ Ready
    /\ reply' = Error("open")
    /\ UNCHANGED <<osfile, handle, buffer, z>>

Close ==
    /\ IsOpen /\ Ready
    /\ (WriteBuffer /\ reply' = OS!Ok("close")) \/ FlushFails("close")
    /\ Emptied
    /\ handle' = "closed"
    /\ UNCHANGED z

\* demoDelete.  SQLite closes a file before it deletes it.
Delete(dirSync) ==
    /\ ~IsOpen /\ Ready
    /\ \/ length = NoFile /\ reply' = OS!Result("delete", "OK", dirSync) /\ UNCHANGED osfile
       \/ length # NoFile /\ reply' = OS!Result("delete", "OK", dirSync) /\ OS!Remove(dirSync)
       \/ length # NoFile /\ dirSync /\ reply' = Error("delete") /\ OS!Remove(FALSE)
       \/ length # NoFile /\ reply' = Error("delete") /\ UNCHANGED osfile
    /\ UNCHANGED <<handle, buffer, z>>

Access ==
    /\ Ready
    /\ reply' = OS!Result("access", "OK", length # NoFile)
    /\ UNCHANGED <<osfile, handle, buffer, z>>

(***************************************************************************)
(* Read, write, sync and size.                                             *)
(***************************************************************************)
Read(lo, n) ==
    /\ IsOpen /\ Ready
    /\ \/ WriteBuffer /\ reply' = OS!ReadResult(lo, n)'
       \/ WriteBuffer /\ reply' = Error("read")
       \/ FlushFails("read")
    /\ Emptied
    /\ UNCHANGED <<handle, z>>

FileSize_BeforeFlush ==
    /\ IsOpen /\ Ready
    /\ WriteBuffer /\ reply' = OS!Result("size", "OK", length)
    /\ Emptied
    /\ UNCHANGED <<handle, z>>
FileSize ==
    /\ IsOpen /\ Ready
    /\ \/ WriteBuffer /\ reply' = OS!Result("size", "OK", length')
       \/ WriteBuffer /\ reply' = Error("size")
       \/ FlushFails("size")
    /\ Emptied
    /\ UNCHANGED <<handle, z>>

\* demoWrite without a buffer.
WritePlain(d) ==
    /\ handle = "plain" /\ Ready
    /\ \/ OS!Put(d) /\ reply' = OS!Ok("write")
       \/ DirectWriteFails(d) /\ reply' = Error("write")
    /\ UNCHANGED <<handle, buffer, z>>

WriteBuffered(d) ==
    /\ handle = "buffered" /\ Ready
    /\ z' = d
    /\ reply' = Pending("write")
    /\ UNCHANGED <<osfile, handle, buffer>>

\* One turn of demoWrite's loop at offset i.
i == CHOOSE o \in DOMAIN z : \A p \in DOMAIN z : o <= p
MustFlush == nBuffer = BufferSize \/ iBufferOfst + nBuffer # i
Kept  == IF MustFlush THEN 0 ELSE nBuffer
Copied == {o \in DOMAIN z : o < i + BufferSize - Kept}

CopyToBuffer ==
    /\ handle = "buffered" /\ z # Nothing
    /\ IF MustFlush THEN WriteBuffer ELSE UNCHANGED osfile
    /\ iBufferOfst' = i - Kept
    /\ aBuffer' = [k \in 0 .. BufferSize - 1 |->
                      IF i + k - Kept \in Copied THEN z[i + k - Kept] ELSE aBuffer[k]]
    /\ \E n \in 0 .. BufferSize :
           /\ Copied = i .. i + n - 1
           /\ nBuffer' = Kept + n
    /\ z' = [o \in DOMAIN z \ Copied |-> z[o]]
    /\ reply' = IF DOMAIN z = Copied THEN OS!Ok("write") ELSE reply
    /\ UNCHANGED <<handle>>

FlushForWriteFails ==
    /\ handle = "buffered" /\ z # Nothing
    /\ MustFlush
    /\ FlushFails("write")
    /\ Emptied
    /\ z' = Nothing
    /\ UNCHANGED handle

\* demoSync: flush, then fsync().
Sync ==
    /\ IsOpen /\ Ready
    /\ (WriteBuffer /\ reply' = Pending("sync")) \/ FlushFails("sync")
    /\ Emptied
    /\ UNCHANGED <<handle, z>>
Fsync ==
    /\ reply = Pending("sync")
    /\ \/ OS!MakeDurable /\ reply' = OS!Ok("sync")
       \/ UNCHANGED osfile /\ reply' = Error("sync")
    /\ UNCHANGED <<handle, buffer, z>>

(***************************************************************************)
(* The process ends, or the machine loses power.                           *)
(***************************************************************************)
PowerFails ==
    \E s \in lengths, c \in [Offsets -> Bytes] :
        /\ \A o \in Offsets : IF o < s THEN c[o] \in media[o] ELSE c[o] = Zero
        /\ disk' = c /\ length' = s
        /\ media' = [o \in Offsets |-> {c[o]}] /\ lengths' = {s}

Crash ==
    /\ UNCHANGED osfile \/ PowerFails
    /\ handle' = "closed"
    /\ nBuffer' = 0
    /\ z' = Nothing
    /\ reply' = OS!Restarted
    /\ UNCHANGED <<aBuffer, iBufferOfst>>

Next ==
    \/ \E journal, create, exclusive \in BOOLEAN : Open(journal, create, exclusive)
    \/ OpenFails \/ Close \/ Access
    \/ \E dirSync \in BOOLEAN : Delete(dirSync)
    \/ \E lo \in Offsets : \E n \in 1 .. MaxSize - lo : Read(lo, n)
    \/ \E d \in OS!Data : WritePlain(d) \/ WriteBuffered(d)
    \/ CopyToBuffer \/ FlushForWriteFails
    \/ FileSize \/ Sync \/ Fsync
    \/ Crash

Spec == Init /\ [][Next]_vars

(***************************************************************************)
(* Properties.                                                             *)
(***************************************************************************)
\* Type invariant.
TypeOK ==
    /\ disk \in [Offsets -> Bytes]
    /\ length \in OS!Lengths
    /\ media \in [Offsets -> SUBSET Bytes]
    /\ lengths \subseteq OS!Lengths
    /\ handle \in {"closed", "plain", "buffered"}
    /\ aBuffer \in [0 .. BufferSize - 1 -> Bytes]
    /\ nBuffer \in 0 .. BufferSize
    /\ iBufferOfst \in 0 .. MaxSize
    /\ z = Nothing \/ z \in OS!Data

\* The file as SQLite sees it: what demoWrite has still to copy, over what
\* the buffer holds, over the operating system's file.
Seen == OS!Over(OS!Over(disk, Buffered), z)
SeenLength == OS!Extent(z, OS!Extent(Buffered, length))

File == INSTANCE PlainFile WITH
    content   <- Seen,
    size      <- SeenLength,
    survivors <- [o \in Offsets |-> media[o]
                      \cup {Buffered[p] : p \in DOMAIN Buffered \cap {o}}
                      \cup {z[p] : p \in DOMAIN z \cap {o}}],
    sizes     <- lengths \cup (length .. SeenLength)

\* The buffered file is an ordinary file: every operation of demovfs.h has the
\* effect and the result it would have without the buffer, across flushes,
\* overwrites of buffered data, short writes and crashes; data is lost only by
\* a crash before a sync or with an error.
ImplementsPlainFile == File!FileSpec

\* demoDelete with dirSync ensures that the deletion "has been synced to disk
\* before returning": a file deleted so does not come back.
\* Does not hold; the README says where and why.
DeleteIsDurable == reply = OS!Result("delete", "OK", TRUE) => lengths = {NoFile}
=============================================================================

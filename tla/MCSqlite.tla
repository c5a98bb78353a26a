------------------------------ MODULE MCSqlite -------------------------------
(***************************************************************************)
(* The two VFS that the SQLite demos can be built with: files as regions   *)
(* (DemoVfs) and files of the operating system with a write buffer         *)
(* (JournalFile).  They share nothing, and a behaviour uses one of them.   *)
(***************************************************************************)
EXTENDS DemoVfs

CONSTANTS MaxSize, BufferSize, Zero, JournalBytes   \* of JournalFile

ASSUME JournalAssumption ==
    MaxSize \in Nat \ {0} /\ BufferSize \in Nat \ {0} /\ Zero \in JournalBytes

VARIABLES
    vfs,
    disk, length, media, lengths, handle, aBuffer, nBuffer, iBufferOfst, z, j_reply

J == INSTANCE JournalFile WITH Bytes <- JournalBytes, reply <- j_reply

journal ==
    <<disk, length, media, lengths, handle, aBuffer, nBuffer, iBufferOfst, z, j_reply>>

VfsInit == vfs \in {"damemory", "demo"} /\ Init /\ J!Init

VfsNext ==
    \/ vfs = "damemory" /\ UNCHANGED <<vfs, journal>> /\ Next
    \/ vfs = "demo" /\ UNCHANGED <<vfs, vars>> /\ J!Next

VfsSpec == VfsInit /\ [][VfsNext]_<<vfs, vars, journal>>

\* A database alone, or with a journal whose name gives the same id; two
\* characters stand for the eight of a damemory_id.
OneFile      == {<<"d">>}
SharedPrefix == {<<"d", "b">>, <<"d", "b", "-">>}

\* Contents of regions that are not loaded, of files that do not exist and of
\* deleted paths are never used; nor are bytes of the buffer beyond nBuffer and
\* the offset of an empty buffer.  Results and accesses only matter to
\* properties that are checked without the view.
View ==
    <<vfs, store, opened, doing, exists,
      [id \in Ids |-> IF Store!Loaded(id) THEN mem[id] ELSE << >>],
      [id \in Ids |-> IF file_pages[id] > 0 THEN file[id] ELSE << >>],
      [p \in exists |-> written[p]], [p \in exists |-> promised[p]],
      disk, length, media, lengths, handle, J!Buffered,
      IF nBuffer = 0 THEN 0 ELSE iBufferOfst, z,
      IF J!Ready THEN "ready" ELSE j_reply.op>>

\* The write buffer of demovfs.h cannot be seen: the buffered file behaves like a
\* plain file, across flushes, overwrites, failures and crashes.
ImplementsPlainFile == J!ImplementsPlainFile
==============================================================================

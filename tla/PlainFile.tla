------------------------------ MODULE PlainFile ------------------------------
(***************************************************************************)
(* What SQLite may expect of one file behind a VFS: reads and the size     *)
(* follow the writes, a sync makes everything written so far durable, and  *)
(* something written is lost only by a crash or together with an error.    *)
(* The file is a bounded array of bytes.  survivors and sizes say what a   *)
(* failure may leave of it: for each byte the values it may have, and the  *)
(* lengths of the file.                                                    *)
(*                                                                         *)
(* JournalFile uses this module twice: for the file the operating system   *)
(* provides (external), and as the specification it implements itself.     *)
(***************************************************************************)
EXTENDS Integers

CONSTANTS
    MaxSize,   \* bound on the length of a file
    Bytes,     \* values of a byte
    Zero       \* the byte that reads beyond the written part return

VARIABLES
    content,     \* what a read returns
    size,        \* length, NoFile if there is no file
    survivors,   \* values each byte may have after a failure
    sizes,       \* lengths the file may have after a failure
    reply        \* result of the last operation: code and value

file == <<content, size, survivors, sizes>>

NoFile  == -1
Offsets == 0 .. MaxSize - 1
Lengths == NoFile .. MaxSize

\* Data of a write: a function on the offsets it covers.
Data == UNION {UNION {[lo .. hi -> Bytes] : hi \in lo .. MaxSize - 1} : lo \in Offsets}

Over(f, d) == [o \in Offsets |-> IF o \in DOMAIN d THEN d[o] ELSE f[o]]
Extent(d, n) == IF \E o \in DOMAIN d : o >= n THEN (CHOOSE e \in DOMAIN d : \A o \in DOMAIN d : o <= e) + 1 ELSE n
Result(op, rc, value) == [op |-> op, rc |-> rc, value |-> value]
Ok(op) == Result(op, "OK", 0)
Restarted == Result("none", "OK", 0)

FileInit ==
    /\ content = [o \in Offsets |-> Zero]
    /\ size = NoFile
    /\ survivors = [o \in Offsets |-> {Zero}]
    /\ sizes = {NoFile}
    /\ reply = Restarted

Put(d) ==
    /\ size # NoFile
    /\ content' = Over(content, d)
    /\ size' = Extent(d, size)
    /\ survivors' = [o \in Offsets |-> IF o \in DOMAIN d THEN survivors[o] \cup {d[o]} ELSE survivors[o]]
    /\ sizes' = sizes \cup (size .. size')

Create ==
    /\ size = NoFile
    /\ size' = 0
    /\ sizes' = sizes \cup {0}
    /\ UNCHANGED <<content, survivors>>

MakeDurable ==
    /\ survivors' = [o \in Offsets |-> {content[o]}]
    /\ sizes' = {size}
    /\ UNCHANGED <<content, size>>

\* The file goes; unless its directory was synced it may come back.
Remove(durable) ==
    /\ content' = [o \in Offsets |-> Zero]
    /\ size' = NoFile
    /\ survivors' = [o \in Offsets |-> IF durable THEN {Zero} ELSE survivors[o] \cup {Zero}]
    /\ sizes' = IF durable THEN {NoFile} ELSE sizes \cup {NoFile}

\* Anything that was not durable may be gone.
Lose ==
    /\ size' \in sizes'
    /\ sizes' \subseteq sizes
    /\ \A o \in Offsets :
           /\ content'[o] \in survivors'[o]
           /\ survivors'[o] \subseteq survivors[o]
           /\ o >= size' => content'[o] = Zero

ReadResult(lo, n) ==
    Result("read", IF lo + n <= size THEN "OK" ELSE "SHORT_READ",
           [k \in 0 .. n - 1 |-> content[lo + k]])

\* What each operation may do to the file when it succeeds.
Succeeds ==
    \/ reply' = Ok("open") /\ (Create \/ (size # NoFile /\ UNCHANGED file))
    \/ reply' = Ok("close") /\ UNCHANGED file
    \/ reply' \in {Ok("write"), Result("write", "pending", 0)} /\ \E d \in Data : Put(d)
    \/ reply = Result("write", "pending", 0) /\ reply' = Ok("write") /\ UNCHANGED file
    \/ reply'.op = "read" /\ UNCHANGED file /\ \E lo \in Offsets : \E n \in 1 .. MaxSize - lo : reply' = ReadResult(lo, n)
    \/ reply' = Result("size", "OK", size) /\ UNCHANGED file
    \/ reply' = Result("access", "OK", size # NoFile) /\ UNCHANGED file
    \/ reply' = Result("sync", "pending", 0) /\ UNCHANGED file
    \/ reply = Result("sync", "pending", 0) /\ reply' = Ok("sync") /\ MakeDurable
    \/ \E durable \in BOOLEAN :
           /\ reply' = Result("delete", "OK", durable)
           /\ Remove(durable) \/ (size = NoFile /\ UNCHANGED file)

\* An operation that reports an error may have been done in part, and may have
\* lost what was not durable.
Fails ==
    /\ reply'.rc = "error"
    /\ \/ UNCHANGED file
       \/ Lose
       \/ reply'.op = "write" /\ \E d \in Data : Put(d)
       \/ reply'.op = "delete" /\ Remove(FALSE)

\* The program or the machine stops; the next program starts.
Stops == reply' = Restarted /\ Lose

FileNext == Succeeds \/ Fails \/ Stops

FileSpec == FileInit /\ [][FileNext]_<<file, reply>>
=============================================================================

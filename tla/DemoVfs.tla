------------------------------- MODULE DemoVfs -------------------------------
(***************************************************************************)
(* The SQLite VFS of damemorydemovfs.h: a file is a persistent, anchored   *)
(* region with its size in a header.  One process uses it, one operation   *)
(* at a time.  A call to the manager is one step, as is a store to the     *)
(* region, and the process or the manager may end between any two.         *)
(* RegionStore says what the manager does to regions and their files.      *)
(*                                                                         *)
(* Sizes are in slots of the size of the header.  Slot 0 of a region is    *)
(* the header, file offset o is slot o + 1.  A manager that dies leaves    *)
(* some of the slots that changed in the file; the code writes whole       *)
(* pages, which is one way of choosing them.                               *)
(***************************************************************************)
EXTENDS Integers, Sequences

CONSTANTS
    Paths,      \* file names, as sequences of characters
    IdLength,   \* characters that fit in a damemory_id (8)
    Slots,      \* DBFILESIZE
    Bytes,      \* what SQLite writes
    None

ASSUME PathsAssumption == \A p \in Paths : p \in Seq(STRING) /\ p # << >>
ASSUME SlotsAssumption == IdLength \in Nat \ {0} /\ Slots \in Nat \ {0, 1}

VARIABLES
    nr_pages, persistent, anchored, file_pages,   \* RegionStore
    mem,       \* contents of each region as loaded by the manager
    file,      \* contents of each region's file
    opened,    \* paths with an open DemoFile
    doing,     \* what an operation has still to do
    reply,     \* last result
    touched,   \* ghost: slots of the region the last read or write accessed
    exists,    \* ghost: paths created and not deleted since
    written,   \* ghost: size and data written to each path
    promised   \* ghost: slots of each path not changed since a sync or close

store  == <<nr_pages, persistent, anchored, file_pages>>
ghosts == <<exists, written, promised>>
vars   == <<store, mem, file, opened, doing, reply, touched, ghosts>>

\* path_to_id: the first bytes of the name.
path_to_id(p) == SubSeq(p, 1, IF Len(p) < IdLength THEN Len(p) ELSE IdLength)

Ids == {path_to_id(p) : p \in Paths}
Store == INSTANCE RegionStore WITH MaxPages <- Slots, Sizes <- {Slots}

All     == 0 .. Slots - 1
Offsets == 0 .. Slots - 2           \* that lie in the region
Fill    == "A"                      \* init_file
Huge    == Slots + 1                \* a size_t of bytes 'A'
Hole    == "hole"                   \* a file that was only truncated
Blank(v, n) == [s \in All |-> IF s = 0 THEN n ELSE v]
Idle == doing = None
Mapped(id) ==
    \/ \E p \in opened : path_to_id(p) = id
    \/ ~Idle /\ doing.step \in {"anchor", "set_size"} /\ path_to_id(doing.path) = id

Init ==
    /\ Store!StoreInit
    /\ mem = [id \in Ids |-> Blank(Hole, 0)]
    /\ file = [id \in Ids |-> Blank(Hole, 0)]
    /\ opened = {}
    /\ doing = None
    /\ reply = "none"
    /\ touched = {}
    /\ exists = {}
    /\ written = [p \in Paths |-> Blank(Hole, 0)]
    /\ promised = [p \in Paths |-> {}]

(***************************************************************************)
(* demoOpen.                                                               *)
(***************************************************************************)
\* The next step of demoOpen; whether it has created the region.
Doing(p, step, created) == [path |-> p, step |-> step, created |-> created, size |-> 0]

Load_Fresh(id) ==
    \/ Store!Loaded(id) /\ UNCHANGED <<store, mem>>
    \/ Store!get_anchored_region(id) /\ mem' = [mem EXCEPT ![id] = Blank(Fill, 0)]
\* The manager has the region, or gets it from its file.
Load(id) ==
    \/ Store!Loaded(id) /\ UNCHANGED <<store, mem>>
    \/ Store!get_anchored_region(id) /\ mem' = [mem EXCEPT ![id] = file[id]]
\* No file, an empty one, or one that cannot be opened or mapped.
CannotLoad(id) == ~Store!Loaded(id)

OpenFails == reply' = "CANTOPEN" /\ doing' = None

\* damemory_map, unless the file must be new.
OpenMap(p, create, exclusive) ==
    /\ Idle /\ p \notin opened
    /\ \/ /\ exclusive
          /\ doing' = Doing(p, "alloc", TRUE)
          /\ UNCHANGED <<store, mem, reply>>
       \/ /\ ~exclusive
          /\ Load(path_to_id(p))
          /\ doing' = Doing(p, "anchor", FALSE)
          /\ UNCHANGED reply
       \/ /\ ~exclusive /\ CannotLoad(path_to_id(p))
          /\ IF create THEN doing' = Doing(p, "alloc", TRUE) /\ UNCHANGED reply ELSE OpenFails
          /\ UNCHANGED <<store, mem>>
    /\ UNCHANGED <<file, opened, touched, ghosts>>

\* damemory_alloc: an existing region is loaded but refused; a failure may
\* leave a file behind.
OpenAlloc ==
    /\ ~Idle /\ doing.step = "alloc"
    /\ LET id == path_to_id(doing.path)
       IN  \/ /\ Store!allocate(id, Slots, TRUE)
              /\ mem' = [mem EXCEPT ![id] = Blank(Fill, Huge)]
              /\ file' = [file EXCEPT ![id] = Blank(Fill, Huge)]
              /\ doing' = Doing(doing.path, "anchor", TRUE)
              /\ UNCHANGED reply
           \/ Load(id) /\ OpenFails /\ UNCHANGED file
           \/ \E n \in {0, Slots} :
                  /\ Store!AllocateFails(id, n)
                  /\ file' = [file EXCEPT ![id] = Blank(Hole, 0)]
                  /\ OpenFails
                  /\ UNCHANGED mem
           \/ OpenFails /\ UNCHANGED <<store, mem, file>>
    /\ UNCHANGED <<opened, touched, ghosts>>

OpenAnchor ==
    /\ ~Idle /\ doing.step = "anchor"
    /\ Store!anchor(path_to_id(doing.path))
    /\ doing' = [doing EXCEPT !.step = "set_size"]
    /\ UNCHANGED <<mem, file, opened, reply, touched, ghosts>>

OpenSetSize ==
    /\ ~Idle /\ doing.step = "set_size"
    /\ LET p == doing.path
       IN  /\ opened' = opened \cup {p}
           /\ mem' = IF doing.created THEN [mem EXCEPT ![path_to_id(p)][0] = 0] ELSE mem
           /\ written' = IF p \in exists THEN written ELSE [written EXCEPT ![p] = mem'[path_to_id(p)]]
           /\ exists' = exists \cup {p}
    /\ doing' = None
    /\ reply' = "OK"
    /\ UNCHANGED <<store, file, touched, promised>>

(***************************************************************************)
(* Operations on an open file.  n slots at offset lo.                      *)
(***************************************************************************)
test_access_valid(lo, n) == n <= Slots /\ lo <= Slots - n
get_filecontent_addr(lo, n) == lo + 1 .. lo + n

demoRead(p, lo, n) ==
    /\ Idle /\ p \in opened
    /\ IF test_access_valid(lo, n)
       THEN reply' = "OK" /\ touched' = get_filecontent_addr(lo, n)
       ELSE reply' = "IOERR_READ" /\ UNCHANGED touched
    /\ UNCHANGED <<store, mem, file, opened, doing, ghosts>>

\* The data is copied; the size follows.
demoWrite(p, lo, n, b) ==
    LET slots == get_filecontent_addr(lo, n)
        Copied(c) == [s \in All |-> IF s \in slots THEN b ELSE c[s]]
    IN  /\ Idle /\ p \in opened
        /\ \/ /\ test_access_valid(lo, n)
              /\ touched' = slots
              /\ mem' = [mem EXCEPT ![path_to_id(p)] = Copied(@)]
              /\ written' = [written EXCEPT ![p] = Copied(@)]
              /\ promised' = [promised EXCEPT ![p] = @ \ slots]
              /\ doing' = [path |-> p, step |-> "size", created |-> FALSE, size |-> lo + n]
              /\ UNCHANGED reply
           \/ /\ ~test_access_valid(lo, n)
              /\ reply' = "IOERR_WRITE"
              /\ UNCHANGED <<mem, doing, touched, written, promised>>
        /\ UNCHANGED <<store, file, opened, exists>>

WriteSize ==
    /\ ~Idle /\ doing.step = "size"
    /\ LET p  == doing.path
           id == path_to_id(p)
           size == IF mem[id][0] > doing.size THEN mem[id][0] ELSE doing.size
       IN  /\ mem' = [mem EXCEPT ![id][0] = size]
           /\ written' = [written EXCEPT ![p][0] = size]
           /\ promised' = [promised EXCEPT ![p] = @ \ {0}]
    /\ doing' = None
    /\ reply' = "OK"
    /\ UNCHANGED <<store, file, opened, touched, exists>>

\* Persists as much as the file holds, without the header.
PersistFile_SizeOnly(p) ==
    LET id == path_to_id(p)
        n  == mem[id][0]
    IN  /\ file' = [file EXCEPT ![id] = [s \in All |-> IF s < n THEN mem[id][s] ELSE @[s]]]
        /\ promised' = [promised EXCEPT ![p] = All]
\* damemory_persist of the whole region; it reports no error.
PersistFile(p) ==
    /\ file' = [file EXCEPT ![path_to_id(p)] = mem[path_to_id(p)]]
    /\ promised' = [promised EXCEPT ![p] = All]

demoSync(p) ==
    /\ Idle /\ p \in opened
    /\ PersistFile(p)
    /\ reply' = "OK"
    /\ UNCHANGED <<store, mem, opened, doing, touched, exists, written>>

demoFileSize(p) ==
    /\ Idle /\ p \in opened
    /\ reply' = mem[path_to_id(p)][0]
    /\ UNCHANGED <<store, mem, file, opened, doing, touched, ghosts>>

demoClose(p) ==
    /\ Idle /\ p \in opened
    /\ PersistFile(p)
    /\ doing' = Doing(p, "unmap", FALSE)
    /\ UNCHANGED <<store, mem, opened, reply, touched, exists, written>>

\* What remains mapped by the other open files is kept; a region without a
\* mapping goes unless anchored.
Unmap(paths) ==
    LET ids == {path_to_id(p) : p \in paths} \ {path_to_id(p) : p \in opened \ paths}
    IN  Store!Drop({id \in ids : Store!Loaded(id)} \ anchored)

CloseUnmap ==
    /\ ~Idle /\ doing.step = "unmap"
    /\ Unmap({doing.path})
    /\ opened' = opened \ {doing.path}
    /\ doing' = None
    /\ reply' = "OK"
    /\ UNCHANGED <<mem, file, touched, ghosts>>

(***************************************************************************)
(* Operations on a path.                                                   *)
(***************************************************************************)

\* SQLite closes a file before it deletes it.  Only a loaded region can be
\* unanchored; without a mapping it goes at once.
demoDelete(p) ==
    LET id == path_to_id(p)
    IN  /\ Idle /\ p \notin opened
        /\ IF Store!Loaded(id)
           THEN /\ IF Mapped(id) THEN Store!unanchor(id) ELSE Store!Drop({id})
                /\ reply' = "deleted"
                /\ exists' = exists \ {p}
                /\ promised' = [promised EXCEPT ![p] = {}]
           ELSE reply' = "IOERR_DELETE" /\ UNCHANGED <<store, exists, promised>>
        /\ UNCHANGED <<mem, file, opened, doing, touched, written>>

demoAccess(p) ==
    /\ Idle
    /\ \/ Load(path_to_id(p)) /\ reply' = "there"
       \/ CannotLoad(path_to_id(p)) /\ reply' = "absent" /\ UNCHANGED <<store, mem>>
    /\ UNCHANGED <<file, opened, doing, touched, ghosts>>

(***************************************************************************)
(* The process ends; the manager is shut down or dies.  A process whose    *)
(* manager is gone ends at its next call.                                  *)
(***************************************************************************)
ProcessEnds ==
    /\ Unmap(opened \cup (IF Idle THEN {} ELSE {doing.path}))
    /\ opened' = {}
    /\ doing' = None
    /\ reply' = "none"
    /\ UNCHANGED <<mem, file, touched, ghosts>>

ManagerShutdown ==
    /\ opened = {} /\ Idle
    /\ file' = [id \in Ids |-> IF Store!Loaded(id) THEN mem[id] ELSE file[id]]
    /\ Store!Restart
    /\ UNCHANGED <<mem, opened, doing, reply, touched, ghosts>>

ManagerDies ==
    /\ \E saved \in SUBSET ({id \in Ids : Store!Loaded(id)} \X All) :
           file' = [id \in Ids |-> [s \in All |-> IF <<id, s>> \in saved THEN mem[id][s] ELSE file[id][s]]]
    /\ Store!Restart
    /\ opened' = {}
    /\ doing' = None
    /\ reply' = "none"
    /\ written' = [p \in Paths |-> file'[path_to_id(p)]]
    /\ UNCHANGED <<mem, touched, exists, promised>>

FileOperation(p) ==
    \/ \E create, exclusive \in BOOLEAN : OpenMap(p, create, exclusive)
    \/ \E lo \in 0 .. Slots, n \in 1 .. Slots : demoRead(p, lo, n)
    \/ \E lo \in 0 .. Slots, n \in 1 .. Slots, b \in Bytes : demoWrite(p, lo, n, b)
    \/ demoSync(p) \/ demoFileSize(p) \/ demoClose(p) \/ demoDelete(p) \/ demoAccess(p)

Next ==
    \/ \E p \in Paths : FileOperation(p)
    \/ OpenAlloc \/ OpenAnchor \/ OpenSetSize \/ WriteSize \/ CloseUnmap
    \/ ProcessEnds \/ ManagerShutdown \/ ManagerDies

Spec == Init /\ [][Next]_vars

(***************************************************************************)
(* Properties.                                                             *)
(***************************************************************************)
IsContents(c) ==
    /\ DOMAIN c = All
    /\ c[0] \in 0 .. Huge
    /\ \A s \in All \ {0} : c[s] \in Bytes \cup {Fill, Hole}

\* Type invariant.
TypeOK ==
    /\ nr_pages \in [Ids -> {0, Slots}]
    /\ persistent \subseteq Ids /\ anchored \subseteq persistent
    /\ file_pages \in [Ids -> {Store!NoFile, 0, Slots}]
    /\ \A id \in Ids : IsContents(mem[id]) /\ IsContents(file[id])
    /\ opened \subseteq Paths
    /\ Idle \/ doing \in [path : Paths, step : {"alloc", "anchor", "set_size", "size", "unmap"},
                          created : BOOLEAN, size : 0 .. Slots]
    /\ exists \subseteq Paths
    /\ \A p \in Paths : IsContents(written[p])
    /\ promised \in [Paths -> SUBSET All]

\* What was written to a file is there, in memory or in the region's file,
\* until the file is deleted: across close and open, the end of the process
\* between any two calls, and shutdowns of the manager.  An open file has its
\* region in memory, anchored, so that it outlives the process.
ContentKept ==
    /\ \A p \in exists :
          LET id == path_to_id(p)
          IN  /\ file_pages[id] = Slots
              /\ (IF Store!Loaded(id) THEN mem[id] ELSE file[id]) = written[p]
    /\ \A p \in opened : Store!Loaded(path_to_id(p)) /\ path_to_id(p) \in anchored

\* After demoSync or demoClose the data and the size survive the manager:
\* nothing but a write or a delete changes what they saved.
SyncedSurvives ==
    [][\A p \in exists \cap exists' : \A s \in promised[p] \cap promised'[p] :
           written'[p][s] = written[p][s]]_vars

\* "Delete the file identified by argument zPath.": no other file goes.
\* Does not hold; the README says where and why.
FileStays == \A p \in exists : file_pages[path_to_id(p)] # Store!NoFile

\* demoDelete fails only when there is no file to delete.
\* Does not hold; the README says where and why.
DeleteFindsFile ==
    [][\A p \in exists : demoDelete(p) /\ reply' = "IOERR_DELETE" => file_pages[path_to_id(p)] = Store!NoFile]_vars

\* demoFileSize returns "the size of the file in bytes", so no more than a file
\* can hold.
\* Does not hold; the README says where and why.
SizeFits == \A p \in opened : mem[path_to_id(p)][0] <= Slots

\* Every access that test_access_valid lets through stays in the region, whose
\* size is what damemory_handle_size returns.
\* Does not hold; the README says where and why.
AccessInRegion == touched \subseteq All
=============================================================================

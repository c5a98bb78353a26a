---------------------------- MODULE Sqlite_proofs ----------------------------
(***************************************************************************)
(* Proofs about the two VFS of the SQLite demos: a file in a region keeps  *)
(* what was written to it, and the write buffer of a journal file cannot   *)
(* be seen.                                                                *)
(***************************************************************************)
EXTENDS MCSqlite, TLAPS

\* How long a prover may look for the proof of a leaf.
USE ZenonT(60)

(***************************************************************************)
(* Files in regions.  path_to_id keeps the first bytes of a name; two      *)
(* files that share them share a region, and nothing below holds of them.  *)
(***************************************************************************)
DistinctIds == \A p, q \in Paths : path_to_id(p) = path_to_id(q) => p = q

Values == Nat \cup Bytes \cup {Fill, Hole}
Contents == [All -> Values]
Operations == [path : Paths, step : {"alloc", "anchor", "set_size", "size", "unmap"},
               created : BOOLEAN, size : Nat]

VTypes ==
    /\ nr_pages \in [Ids -> {0, Slots}] /\ file_pages \in [Ids -> {Store!NoFile, 0, Slots}]
    /\ mem \in [Ids -> Contents] /\ file \in [Ids -> Contents] /\ written \in [Paths -> Contents]
    /\ promised \in [Paths -> SUBSET All] /\ opened \subseteq Paths /\ exists \subseteq Paths

\* A loaded region has its whole file; that of an existing path is anchored, so
\* that it stays when it is unmapped.
Regions ==
    /\ \A id \in Ids : Store!Loaded(id) => file_pages[id] = Slots /\ id \in persistent
    /\ \A p \in exists : Store!Loaded(path_to_id(p)) => path_to_id(p) \in anchored
    /\ opened \subseteq exists

\* What an operation has done before its next step.
OperationInv ==
    ~Idle =>
        /\ doing \in Operations
        /\ doing.step \in {"anchor", "set_size"} /\ doing.created => doing.path \notin exists
        /\ doing.step = "set_size" =>
               Store!Loaded(path_to_id(doing.path)) /\ path_to_id(doing.path) \in anchored
        /\ doing.step = "size" => doing.path \in opened

\* What a sync promised is in the region's file.
Promises ==
    /\ \A p \in exists : \A s \in promised[p] : file[path_to_id(p)][s] = written[p][s]
    /\ \A p \in Paths : p \notin exists => promised[p] = {}

\* The inductive invariant.
VInv == VTypes /\ Regions /\ OperationInv /\ ContentKept /\ Promises

\* The bound of a region, and what stands for no file.
LEMMA Numbers ==
    /\ Slots \in Nat /\ Slots > 0 /\ ~(0 > 0) /\ ~(Store!NoFile > 0) /\ Store!NoFile # Slots /\ 0 # Slots
    /\ 0 \in All /\ 0 \in Nat /\ Huge \in Nat
BY SMTT(30), SlotsAssumption DEF Store!NoFile, All, Huge

\* The id of a path.
LEMMA IdOf == ASSUME NEW p \in Paths PROVE path_to_id(p) \in Ids
BY DEF Ids

\* A region without data, and the hole of a file, are contents.
LEMMA BlankIs == ASSUME NEW v \in {Fill, Hole}, NEW n \in Nat PROVE Blank(v, n) \in Contents
BY DEF Blank, Contents, Values

\* Nothing is loaded and nothing exists at first.
LEMMA VfsStarts == Init => VInv
<1> SUFFICES ASSUME Init PROVE VInv
  OBVIOUS
<1>1. VTypes
  BY Numbers, BlankIs DEF Init, Store!StoreInit, VTypes
<1>2. \A id \in Ids : ~Store!Loaded(id)
  BY Numbers DEF Init, Store!StoreInit, Store!Loaded
<1> QED BY <1>1, <1>2 DEF Init, VInv, Regions, OperationInv, Idle, ContentKept, Promises

\* What is loaded stays so, and stays anchored.
Grows ==
    /\ \A id \in Ids : Store!Loaded(id) => Store!Loaded(id)'
    /\ anchored \subseteq anchored'

\* The manager loads a region that it does not have: from its file, and anchored.
LEMMA LoadKeeps ==
    ASSUME VInv, NEW id \in Ids, Load(id), UNCHANGED <<file, opened, exists, written, promised>>
    PROVE  VTypes' /\ Regions' /\ ContentKept' /\ Promises' /\ Grows /\ Store!Loaded(id)'
<1>1. CASE Store!Loaded(id) /\ UNCHANGED <<store, mem>>
  <2>1. VTypes' /\ Grows /\ Store!Loaded(id)'
    BY <1>1 DEF VInv, store, VTypes, Grows, Store!Loaded
  <2>2. Regions' /\ Promises'
    BY <1>1 DEF VInv, store, Regions, Promises, Store!Loaded, path_to_id
  <2>3. ContentKept'
    BY <1>1 DEF VInv, store, ContentKept, Store!Loaded, path_to_id
  <2> QED BY <2>1, <2>2, <2>3
<1>2. CASE Store!get_anchored_region(id) /\ mem' = [mem EXCEPT ![id] = file[id]]
  <2>1. file_pages[id] = Slots /\ ~Store!Loaded(id) /\ UNCHANGED file_pages
    BY <1>2, Numbers DEF VInv, VTypes, Store!get_anchored_region
  <2>2. /\ nr_pages' = [nr_pages EXCEPT ![id] = Slots]
        /\ persistent' = persistent \cup {id} /\ anchored' = anchored \cup {id}
    BY <1>2, <2>1 DEF Store!get_anchored_region
  <2>3. VTypes'
    BY <1>2, <2>1, <2>2 DEF VInv, VTypes
  <2>4. /\ Store!Loaded(id)'
        /\ \A x \in Ids : x # id => (Store!Loaded(x)' <=> Store!Loaded(x)) /\ mem'[x] = mem[x]
    BY <1>2, <2>2, Numbers DEF VInv, VTypes, Store!Loaded
  <2>5. mem'[id] = file[id]
    BY <1>2 DEF VInv, VTypes
  <2>6. Regions'
    <3>1. \A x \in Ids : Store!Loaded(x)' => file_pages'[x] = Slots /\ x \in persistent'
      BY <2>1, <2>2, <2>4 DEF VInv, Regions
    <3>2. ASSUME NEW p \in exists, Store!Loaded(path_to_id(p))' PROVE path_to_id(p) \in anchored'
      <4>1. path_to_id(p) \in Ids
        BY IdOf DEF VInv, VTypes
      <4> QED BY <2>2, <2>4, <3>2, <4>1 DEF VInv, Regions
    <3> QED BY <3>1, <3>2 DEF VInv, Regions, path_to_id
  <2>7. ContentKept'
    <3>1. ASSUME NEW p \in exists
          PROVE  /\ file_pages'[path_to_id(p)] = Slots
                 /\ (IF Store!Loaded(path_to_id(p))' THEN mem'[path_to_id(p)] ELSE file'[path_to_id(p)])
                        = written'[p]
      <4>1. path_to_id(p) \in Ids /\ file_pages[path_to_id(p)] = Slots
            /\ (IF Store!Loaded(path_to_id(p)) THEN mem[path_to_id(p)] ELSE file[path_to_id(p)])
                   = written[p]
        BY IdOf DEF VInv, VTypes, ContentKept
      <4> QED BY <2>1, <2>4, <2>5, <4>1
    <3>2. ASSUME NEW p \in opened PROVE Store!Loaded(path_to_id(p))' /\ path_to_id(p) \in anchored'
      <4>1. path_to_id(p) \in Ids /\ Store!Loaded(path_to_id(p)) /\ path_to_id(p) \in anchored
        BY IdOf DEF VInv, VTypes, ContentKept
      <4> QED BY <2>2, <2>4, <4>1
    <3> QED BY <3>1, <3>2 DEF ContentKept, path_to_id
  <2>8. Promises'
    BY DEF VInv, Promises, path_to_id
  <2>9. Grows
    BY <2>2, <2>4 DEF Grows
  <2> QED BY <2>3, <2>4, <2>6, <2>7, <2>8, <2>9
<1> QED BY <1>1, <1>2 DEF Load

\* Steps that leave the files as they are.
LEMMA SameFiles ==
    ASSUME VInv, UNCHANGED <<store, mem, file, opened, exists, written, promised>>
    PROVE  VTypes' /\ Regions' /\ ContentKept' /\ Promises'
<1>1. VTypes'
  BY DEF VInv, store, VTypes
<1>2. Regions' /\ Promises'
  BY DEF VInv, store, Regions, Promises, Store!Loaded, path_to_id
<1>3. ContentKept'
  BY DEF VInv, store, ContentKept, Store!Loaded, path_to_id
<1> QED BY <1>1, <1>2, <1>3

\* Between two operations nothing is half done.
LEMMA NoOperation == ASSUME doing' = None PROVE OperationInv'
BY DEF OperationInv, Idle

\* The record of an operation.
LEMMA DoingIs ==
    ASSUME NEW p \in Paths, NEW step \in {"alloc", "anchor", "set_size", "size", "unmap"},
           NEW created \in BOOLEAN, doing' = Doing(p, step, created)
    PROVE  doing' \in Operations /\ doing'.path = p /\ doing'.step = step /\ (doing'.created <=> created)
<1>1. PICK d : d = Doing(p, step, created)
  OBVIOUS
<1>2. d \in Operations /\ d.path = p /\ d.step = step /\ (d.created <=> created)
  BY <1>1, Numbers DEF Doing, Operations
<1> QED BY <1>1, <1>2

\* demoOpen maps the region, or finds that it has to be created.
LEMMA OpenMapKeeps ==
    ASSUME VInv, NEW p \in Paths, NEW create, NEW exclusive, OpenMap(p, create, exclusive)
    PROVE  VInv'
<1>1. UNCHANGED <<file, opened, exists, written, promised>>
  BY DEF OpenMap, ghosts
<1>2. CASE doing' = Doing(p, "alloc", TRUE) /\ UNCHANGED <<store, mem>>
  <2>1. OperationInv'
    <3>1. doing' \in Operations /\ doing'.step = "alloc"
      BY <1>2, DoingIs
    <3> QED BY <3>1 DEF OperationInv
  <2> QED BY <1>1, <1>2, <2>1, SameFiles DEF VInv
<1>3. CASE Load(path_to_id(p)) /\ doing' = Doing(p, "anchor", FALSE)
  <2>1. OperationInv'
    <3>1. doing' \in Operations /\ doing'.step = "anchor" /\ ~doing'.created
      BY <1>3, DoingIs
    <3> QED BY <3>1 DEF OperationInv
  <2> QED BY <1>1, <1>3, <2>1, IdOf, LoadKeeps DEF VInv
<1>4. CASE OpenFails /\ UNCHANGED <<store, mem>>
  BY <1>1, <1>4, SameFiles, NoOperation DEF VInv, OpenFails
<1> QED BY <1>2, <1>3, <1>4 DEF OpenMap

\* A step that changes one region, of no existing path.
ChangesOnly(id) ==
    /\ exists' \subseteq exists /\ opened' = opened /\ written' = written /\ opened \subseteq exists'
    /\ \A q \in exists' : path_to_id(q) # id /\ promised'[q] = promised[q]
    /\ \A q \in Paths : q \notin exists' => promised'[q] = {}
    /\ \A x \in Ids : x # id =>
           /\ nr_pages'[x] = nr_pages[x] /\ file_pages'[x] = file_pages[x]
           /\ mem'[x] = mem[x] /\ file'[x] = file[x]
           /\ x \in persistent' <=> x \in persistent
           /\ x \in anchored' <=> x \in anchored
    /\ Store!Loaded(id)' => file_pages'[id] = Slots /\ id \in persistent'

\* Such a step keeps what is promised of the other files.
LEMMA OthersKept ==
    ASSUME VInv, NEW id \in Ids, VTypes', ChangesOnly(id)
    PROVE  Regions' /\ ContentKept' /\ Promises'
<1>1. ASSUME NEW q \in exists'
      PROVE  /\ q \in exists /\ q \in Paths /\ path_to_id(q) \in Ids /\ path_to_id(q) # id
             /\ (Store!Loaded(path_to_id(q))' <=> Store!Loaded(path_to_id(q)))
  <2>1. q \in exists /\ q \in Paths /\ path_to_id(q) \in Ids /\ path_to_id(q) # id
    BY IdOf DEF ChangesOnly, VInv, VTypes
  <2> QED BY <2>1 DEF ChangesOnly, Store!Loaded
<1>2. Regions'
  <2>1. \A x \in Ids : Store!Loaded(x)' => file_pages'[x] = Slots /\ x \in persistent'
    BY DEF VInv, Regions, ChangesOnly, Store!Loaded
  <2>2. \A q \in exists' : Store!Loaded(path_to_id(q))' => path_to_id(q) \in anchored'
    BY <1>1 DEF VInv, Regions, ChangesOnly
  <2>3. opened' \subseteq exists'
    BY DEF ChangesOnly
  <2> QED BY <2>1, <2>2, <2>3 DEF Regions, path_to_id
<1>3. ContentKept'
  <2>1. ASSUME NEW q \in exists'
        PROVE  /\ file_pages'[path_to_id(q)] = Slots
               /\ (IF Store!Loaded(path_to_id(q))' THEN mem'[path_to_id(q)] ELSE file'[path_to_id(q)])
                      = written'[q]
    <3>1. /\ file_pages[path_to_id(q)] = Slots
          /\ (IF Store!Loaded(path_to_id(q)) THEN mem[path_to_id(q)] ELSE file[path_to_id(q)])
                 = written[q]
      BY <1>1 DEF VInv, ContentKept
    <3> QED BY <1>1, <3>1 DEF ChangesOnly
  <2>2. ASSUME NEW q \in opened' PROVE Store!Loaded(path_to_id(q))' /\ path_to_id(q) \in anchored'
    <3>1. q \in exists' /\ q \in opened
      BY <2>2 DEF ChangesOnly
    <3>2. Store!Loaded(path_to_id(q)) /\ path_to_id(q) \in anchored
      BY <3>1 DEF VInv, ContentKept
    <3> QED BY <1>1, <3>1, <3>2 DEF ChangesOnly
  <2> QED BY <2>1, <2>2 DEF ContentKept, path_to_id
<1>4. Promises'
  <2>1. ASSUME NEW q \in exists', NEW s \in promised'[q] PROVE file'[path_to_id(q)][s] = written'[q][s]
    <3>1. promised'[q] = promised[q] /\ written' = written /\ file'[path_to_id(q)] = file[path_to_id(q)]
      BY <1>1 DEF ChangesOnly
    <3> QED BY <1>1, <2>1, <3>1 DEF VInv, Promises
  <2>2. \A q \in Paths : q \notin exists' => promised'[q] = {}
    BY DEF ChangesOnly
  <2> QED BY <2>1, <2>2 DEF Promises, path_to_id
<1> QED BY <1>2, <1>3, <1>4

\* damemory_alloc changes only an id that has no file.
LEMMA OpenAllocKeeps == ASSUME DistinctIds, VInv, OpenAlloc PROVE VInv'
<1>1. UNCHANGED <<opened, exists, written, promised>> /\ ~Idle
  BY DEF OpenAlloc, ghosts
<1>p. PICK p : p = doing.path
  OBVIOUS
<1>i. PICK id : id = path_to_id(p)
  OBVIOUS
<1>2. p \in Paths /\ id \in Ids
  BY <1>1, <1>p, <1>i, IdOf DEF VInv, OperationInv, Operations
<1>3. ASSUME file_pages[id] = Store!NoFile
      PROVE  p \notin exists /\ \A q \in exists : path_to_id(q) # id
  <2>1. \A q \in exists : file_pages[path_to_id(q)] = Slots
    BY DEF VInv, ContentKept
  <2> QED BY <1>i, <1>3, <2>1, Numbers
<1>4. CASE /\ Store!allocate(id, Slots, TRUE)
           /\ mem' = [mem EXCEPT ![id] = Blank(Fill, Huge)]
           /\ file' = [file EXCEPT ![id] = Blank(Fill, Huge)]
           /\ doing' = Doing(p, "anchor", TRUE)
  <2>1. /\ file_pages[id] = Store!NoFile /\ anchored' = anchored /\ persistent' = persistent \cup {id}
        /\ nr_pages' = [nr_pages EXCEPT ![id] = Slots] /\ file_pages' = [file_pages EXCEPT ![id] = Slots]
    BY <1>4 DEF Store!allocate
  <2>2. VTypes'
    BY <1>1, <1>4, <2>1, BlankIs, Numbers DEF VInv, VTypes
  <2>3. /\ \A x \in Ids : x # id =>
                /\ nr_pages'[x] = nr_pages[x] /\ file_pages'[x] = file_pages[x]
                /\ mem'[x] = mem[x] /\ file'[x] = file[x]
        /\ file_pages'[id] = Slots
    BY <1>2, <1>4, <2>1 DEF VInv, VTypes
  <2>4. ChangesOnly(id)
    BY <1>1, <1>2, <1>3, <2>1, <2>3 DEF ChangesOnly, VInv, Regions, Promises
  <2>5. OperationInv'
    <3>1. doing' \in Operations /\ doing'.step = "anchor" /\ doing'.path = p
      BY <1>2, <1>4, DoingIs
    <3>2. p \notin exists'
      BY <1>1, <1>3, <2>1
    <3> QED BY <3>1, <3>2 DEF OperationInv
  <2> QED BY <1>2, <2>2, <2>4, <2>5, OthersKept DEF VInv
<1>5. CASE Load(id) /\ OpenFails /\ UNCHANGED file
  BY <1>1, <1>2, <1>5, LoadKeeps, NoOperation DEF VInv, OpenFails
<1>6. ASSUME NEW n \in {0, Slots}, Store!AllocateFails(id, n), OpenFails, UNCHANGED mem,
             file' = [file EXCEPT ![id] = Blank(Hole, 0)]
      PROVE  VInv'
  <2>1. /\ file_pages[id] = Store!NoFile /\ ~Store!Loaded(id)
        /\ UNCHANGED <<nr_pages, persistent, anchored>> /\ file_pages' = [file_pages EXCEPT ![id] = n]
    BY <1>6 DEF Store!AllocateFails
  <2>2. VTypes'
    BY <1>1, <1>6, <2>1, BlankIs, Numbers DEF VInv, VTypes
  <2>3. /\ \A x \in Ids : x # id => file_pages'[x] = file_pages[x] /\ file'[x] = file[x]
        /\ ~Store!Loaded(id)'
    BY <1>2, <1>6, <2>1 DEF VInv, VTypes, Store!Loaded
  <2>4. ChangesOnly(id)
    BY <1>1, <1>2, <1>3, <1>6, <2>1, <2>3 DEF ChangesOnly, VInv, Regions, Promises
  <2> QED BY <1>2, <1>6, <2>2, <2>4, OthersKept, NoOperation DEF VInv, OpenFails
<1>7. CASE OpenFails /\ UNCHANGED <<store, mem, file>>
  BY <1>1, <1>7, SameFiles, NoOperation DEF VInv, OpenFails
<1> QED BY <1>p, <1>i, <1>4, <1>5, <1>6, <1>7 DEF OpenAlloc

\* demoOpen anchors the region.
LEMMA OpenAnchorKeeps == ASSUME VInv, OpenAnchor PROVE VInv'
<1>1. ~Idle /\ doing.step = "anchor" /\ UNCHANGED <<mem, file, opened, exists, written, promised>>
  BY DEF OpenAnchor, ghosts
<1>p. PICK p : p = doing.path
  OBVIOUS
<1>2. p \in Paths /\ doing \in Operations /\ (doing.created => p \notin exists)
  BY <1>1, <1>p DEF VInv, OperationInv, Operations
<1>3. /\ Store!Loaded(path_to_id(p)) /\ anchored' = anchored \cup {path_to_id(p)}
      /\ UNCHANGED <<nr_pages, persistent, file_pages>>
  BY <1>p DEF OpenAnchor, Store!anchor
<1>4. VTypes' /\ Promises'
  BY <1>1, <1>3 DEF VInv, VTypes, Promises, path_to_id
<1>5. Regions' /\ ContentKept'
  <2>1. Regions'
    BY <1>1, <1>3 DEF VInv, Regions, Store!Loaded, path_to_id
  <2>2. ContentKept'
    BY <1>1, <1>3 DEF VInv, ContentKept, Store!Loaded, path_to_id
  <2> QED BY <2>1, <2>2
<1>6. OperationInv'
  <2>1. doing' = [doing EXCEPT !.step = "set_size"]
    BY DEF OpenAnchor
  <2>2. doing' \in Operations /\ doing'.step = "set_size" /\ doing'.path = p /\ doing'.created = doing.created
    BY <1>2, <1>p, <2>1 DEF Operations
  <2>3. Store!Loaded(path_to_id(p))' /\ path_to_id(p) \in anchored'
    BY <1>3 DEF Store!Loaded
  <2> QED BY <1>1, <1>2, <2>2, <2>3 DEF OperationInv, path_to_id
<1> QED BY <1>4, <1>5, <1>6 DEF VInv

\* demoOpen sets the size of a new file: from now on it exists.
LEMMA OpenSetSizeKeeps == ASSUME DistinctIds, VInv, OpenSetSize PROVE VInv'
<1>1. ~Idle /\ doing.step = "set_size" /\ UNCHANGED <<store, file, promised>> /\ doing' = None
  BY DEF OpenSetSize
<1>p. PICK p : p = doing.path
  OBVIOUS
<1>i. PICK id : id = path_to_id(p)
  OBVIOUS
<1>2. /\ p \in Paths /\ id \in Ids /\ (doing.created => p \notin exists)
      /\ Store!Loaded(id) /\ id \in anchored
  <2>1. doing.path \in Paths
    BY <1>1 DEF VInv, OperationInv, Operations
  <2> QED BY <1>1, <1>p, <1>i, <2>1, IdOf DEF VInv, OperationInv
<1>3. /\ opened' = opened \cup {p} /\ exists' = exists \cup {p}
      /\ mem' = (IF doing.created THEN [mem EXCEPT ![id][0] = 0] ELSE mem)
      /\ written' = IF p \in exists THEN written ELSE [written EXCEPT ![p] = mem'[id]]
  <2>1. opened' = opened \cup {p} /\ exists' = exists \cup {p}
    BY <1>p DEF OpenSetSize
  <2>2. mem' = IF doing.created THEN [mem EXCEPT ![path_to_id(doing.path)][0] = 0] ELSE mem
    BY DEF OpenSetSize
  <2>3. written' = IF doing.path \in exists THEN written
                   ELSE [written EXCEPT ![doing.path] = mem'[path_to_id(doing.path)]]
    BY DEF OpenSetSize
  <2>4. mem' = IF doing.created THEN [mem EXCEPT ![id][0] = 0] ELSE mem
    BY <1>p, <1>i, <2>2
  <2>5. written' = IF p \in exists THEN written ELSE [written EXCEPT ![p] = mem'[id]]
    BY <1>p, <1>i, <2>3
  <2> QED BY <2>1, <2>4, <2>5
<1>4. /\ mem' \in [Ids -> Contents] /\ (p \in exists => mem' = mem)
      /\ \A x \in Ids : x # id => mem'[x] = mem[x]
  <2>1. mem[id] \in Contents /\ 0 \in Values
    BY <1>2, Numbers DEF VInv, VTypes, Values
  <2>2. CASE doing.created
    <3>1. PICK c : c = [mem[id] EXCEPT ![0] = 0]
      OBVIOUS
    <3>2. c \in Contents
      BY <2>1, <3>1 DEF Contents
    <3>3. mem' = [mem EXCEPT ![id] = c]
      BY <1>3, <2>2, <3>1 DEF VInv, VTypes
    <3> QED BY <1>2, <2>2, <3>2, <3>3 DEF VInv, VTypes
  <2>3. CASE ~doing.created
    BY <1>3, <2>3 DEF VInv, VTypes
  <2> QED BY <2>2, <2>3
<1>5. /\ written' \in [Paths -> Contents] /\ (p \in exists => written' = written)
      /\ \A q \in Paths : q # p => written'[q] = written[q]
      /\ (p \notin exists => written'[p] = mem'[id])
  BY <1>2, <1>3, <1>4 DEF VInv, VTypes
<1>6. VTypes'
  BY <1>1, <1>2, <1>3, <1>4, <1>5 DEF VInv, VTypes, store
<1>7. \A x : Store!Loaded(x)' <=> Store!Loaded(x)
  BY <1>1 DEF store, Store!Loaded
<1>8. Regions'
  <2>1. /\ \A x \in Ids : Store!Loaded(x)' => file_pages'[x] = Slots /\ x \in persistent'
        /\ \A q \in exists' : Store!Loaded(path_to_id(q))' => path_to_id(q) \in anchored'
        /\ opened' \subseteq exists'
    BY <1>1, <1>2, <1>3, <1>i, <1>7 DEF VInv, Regions, store
  <2> QED BY <2>1 DEF Regions, path_to_id
<1>9. ContentKept'
  <2>1. ASSUME NEW q \in exists'
        PROVE  /\ file_pages'[path_to_id(q)] = Slots
               /\ (IF Store!Loaded(path_to_id(q))' THEN mem'[path_to_id(q)] ELSE file'[path_to_id(q)])
                      = written'[q]
    <3>1. CASE q \in exists
      <4>1. /\ file_pages[path_to_id(q)] = Slots /\ q \in Paths /\ path_to_id(q) \in Ids
            /\ (IF Store!Loaded(path_to_id(q)) THEN mem[path_to_id(q)] ELSE file[path_to_id(q)])
                   = written[q]
        BY <3>1, IdOf DEF VInv, VTypes, ContentKept
      <4>2. q # p => path_to_id(q) # id
        BY <1>2, <1>i, <4>1 DEF DistinctIds
      <4>3. mem'[path_to_id(q)] = mem[path_to_id(q)] /\ written'[q] = written[q]
        BY <1>4, <1>5, <3>1, <4>1, <4>2
      <4> QED BY <1>1, <1>7, <4>1, <4>3 DEF store
    <3>2. CASE q \notin exists
      <4>1. q = p /\ file_pages[id] = Slots
        BY <1>2, <1>3, <3>2 DEF VInv, Regions
      <4> QED BY <1>1, <1>2, <1>5, <1>7, <1>i, <3>2, <4>1 DEF store
    <3> QED BY <3>1, <3>2
  <2>2. \A q \in opened' : Store!Loaded(path_to_id(q))' /\ path_to_id(q) \in anchored'
    BY <1>1, <1>2, <1>3, <1>7, <1>i DEF VInv, ContentKept, store
  <2> QED BY <2>1, <2>2 DEF ContentKept, path_to_id
<1>10. Promises'
  <2>1. ASSUME NEW q \in exists', NEW s \in promised'[q] PROVE file'[path_to_id(q)][s] = written'[q][s]
    <3>1. promised'[q] = promised[q] /\ q \in Paths
      BY <1>1, <1>2, <1>3 DEF VInv, VTypes
    <3>2. q \in exists
      BY <2>1, <3>1 DEF VInv, Promises
    <3>3. written'[q] = written[q]
      BY <1>5, <3>1, <3>2
    <3> QED BY <1>1, <2>1, <3>1, <3>2, <3>3 DEF VInv, Promises
  <2>2. \A q \in Paths : q \notin exists' => promised'[q] = {}
    BY <1>1, <1>3 DEF VInv, Promises
  <2> QED BY <2>1, <2>2 DEF Promises, path_to_id
<1> QED BY <1>1, <1>6, <1>8, <1>9, <1>10, NoOperation DEF VInv

\* A store to the region of an open file, with the slots it may change.
LEMMA StoreKeeps ==
    ASSUME DistinctIds, VInv, NEW p \in opened, NEW c \in Contents, NEW R,
           mem' = [mem EXCEPT ![path_to_id(p)] = c], written' = [written EXCEPT ![p] = c],
           promised' = [promised EXCEPT ![p] = R], R \subseteq promised[p],
           \A s \in R : c[s] = mem[path_to_id(p)][s], UNCHANGED <<store, file, opened, exists>>
    PROVE  VTypes' /\ Regions' /\ ContentKept' /\ Promises'
<1>i. PICK id : id = path_to_id(p)
  OBVIOUS
<1>1. p \in Paths /\ id \in Ids /\ p \in exists /\ Store!Loaded(id) /\ mem[id] = written[p]
  <2>1. p \in Paths /\ p \in exists
    BY DEF VInv, VTypes, Regions
  <2> QED BY <1>i, <2>1, IdOf DEF VInv, ContentKept
<1>2. /\ mem'[id] = c /\ \A x \in Ids : x # id => mem'[x] = mem[x]
      /\ written'[p] = c /\ \A q \in Paths : q # p => written'[q] = written[q]
      /\ promised'[p] = R /\ \A q \in Paths : q # p => promised'[q] = promised[q]
  BY <1>1, <1>i DEF VInv, VTypes
<1>3. VTypes'
  <2>1. R \in SUBSET All
    BY <1>1 DEF VInv, VTypes
  <2> QED BY <1>1, <1>i, <2>1 DEF VInv, VTypes, store
<1>4. Regions'
  BY DEF VInv, Regions, store, Store!Loaded, path_to_id
<1>5. \A x : Store!Loaded(x)' <=> Store!Loaded(x)
  BY DEF store, Store!Loaded
<1>6. ASSUME NEW q \in exists, q # p PROVE q \in Paths /\ path_to_id(q) \in Ids /\ path_to_id(q) # id
  <2>1. q \in Paths
    BY DEF VInv, VTypes
  <2> QED BY <1>1, <1>i, <1>6, <2>1, IdOf DEF DistinctIds
<1>7. ContentKept'
  <2>1. ASSUME NEW q \in exists
        PROVE  /\ file_pages'[path_to_id(q)] = Slots
               /\ (IF Store!Loaded(path_to_id(q))' THEN mem'[path_to_id(q)] ELSE file'[path_to_id(q)])
                      = written'[q]
    <3>1. /\ file_pages'[path_to_id(q)] = Slots
          /\ (IF Store!Loaded(path_to_id(q)) THEN mem[path_to_id(q)] ELSE file[path_to_id(q)])
                 = written[q]
      BY DEF VInv, ContentKept, store
    <3>2. CASE q = p
      BY <1>1, <1>2, <1>5, <1>i, <3>1, <3>2
    <3>3. CASE q # p
      BY <1>2, <1>5, <1>6, <3>1, <3>3
    <3> QED BY <3>2, <3>3
  <2>2. \A q \in opened : Store!Loaded(path_to_id(q))' /\ path_to_id(q) \in anchored'
    BY <1>5 DEF VInv, ContentKept, store
  <2> QED BY <2>1, <2>2 DEF ContentKept, path_to_id
<1>8. Promises'
  <2>1. ASSUME NEW q \in exists, NEW s \in promised'[q] PROVE file'[path_to_id(q)][s] = written'[q][s]
    <3>2. CASE q = p
      <4>1. s \in promised[p] /\ c[s] = mem[id][s]
        BY <1>2, <1>i, <2>1, <3>2
      <4>2. file[id][s] = written[p][s]
        BY <1>1, <1>i, <4>1 DEF VInv, Promises
      <4> QED BY <1>1, <1>2, <1>i, <3>2, <4>1, <4>2
    <3>3. CASE q # p
      <4>1. q \in Paths /\ promised'[q] = promised[q] /\ written'[q] = written[q]
        BY <1>2, <1>6, <3>3
      <4> QED BY <2>1, <4>1 DEF VInv, Promises
    <3> QED BY <3>2, <3>3
  <2>2. \A q \in Paths : q \notin exists => promised'[q] = {}
    BY <1>1, <1>2 DEF VInv, Promises
  <2> QED BY <2>1, <2>2 DEF Promises, path_to_id
<1> QED BY <1>3, <1>4, <1>7, <1>8

\* demoWrite stores the data; the size may follow in a step of its own.
LEMMA WriteKeeps ==
    ASSUME DistinctIds, VInv, NEW p \in Paths, NEW lo \in 0 .. Slots, NEW n \in 1 .. Slots,
           NEW b \in Bytes, demoWrite(p, lo, n, b)
    PROVE  VInv'
<1>1. Idle /\ p \in opened /\ UNCHANGED <<store, file, opened, exists>>
  BY DEF demoWrite
<1>s. PICK slots : slots = get_filecontent_addr(lo, n)
  OBVIOUS
<1>i. PICK id : id = path_to_id(p)
  OBVIOUS
<1>2. CASE UNCHANGED <<mem, doing, written, promised>>
  <2>1. doing' = None
    BY <1>1, <1>2 DEF Idle
  <2> QED BY <1>1, <1>2, <2>1, SameFiles, NoOperation DEF VInv
<1>3. CASE /\ mem' = [mem EXCEPT ![id] = [s \in All |-> IF s \in slots THEN b ELSE mem[id][s]]]
           /\ written' = [written EXCEPT ![p] = [s \in All |-> IF s \in slots THEN b ELSE written[p][s]]]
           /\ promised' = [promised EXCEPT ![p] = promised[p] \ slots]
           /\ doing' = [path |-> p, step |-> "size", created |-> FALSE, size |-> lo + n]
  <2>1. p \in exists /\ id \in Ids /\ Store!Loaded(id) /\ mem[id] = written[p] /\ mem[id] \in Contents
        /\ promised[p] \subseteq All
    <3>1. p \in exists /\ id \in Ids
      BY <1>1, <1>i, IdOf DEF VInv, Regions
    <3> QED BY <1>1, <1>i, <3>1 DEF VInv, VTypes, ContentKept
  <2>2. PICK c : c = [s \in All |-> IF s \in slots THEN b ELSE mem[id][s]]
    OBVIOUS
  <2>3. c \in Contents
    BY <2>1, <2>2 DEF Contents, Values
  <2>4. \A s \in promised[p] \ slots : c[s] = mem[id][s]
    BY <2>1, <2>2
  <2>5. mem' = [mem EXCEPT ![path_to_id(p)] = c] /\ written' = [written EXCEPT ![p] = c]
    BY <1>3, <1>i, <2>1, <2>2
  <2>6. VTypes' /\ Regions' /\ ContentKept' /\ Promises'
    <3>1. PICK R : R = promised[p] \ slots
      OBVIOUS
    <3>2. R \subseteq promised[p] /\ promised' = [promised EXCEPT ![p] = R]
      BY <1>3, <3>1
    <3>3. \A s \in R : c[s] = mem[path_to_id(p)][s]
      BY <1>i, <2>4, <3>1
    <3> QED BY <1>1, <2>3, <2>5, <3>2, <3>3, StoreKeeps
  <2>7. OperationInv'
    <3>1. lo + n \in Nat
      BY SMTT(30), Numbers
    <3>2. PICK d : d = [path |-> p, step |-> "size", created |-> FALSE, size |-> lo + n]
      OBVIOUS
    <3>3. d \in Operations /\ d.step = "size" /\ d.path = p
      BY <3>1, <3>2 DEF Operations
    <3>4. doing' = d
      BY <1>3, <3>2
    <3> QED BY <1>1, <3>3, <3>4 DEF OperationInv
  <2> QED BY <2>6, <2>7 DEF VInv
<1> QED BY <1>s, <1>i, <1>2, <1>3 DEF demoWrite

\* demoWrite stores the size.
LEMMA WriteSizeKeeps == ASSUME DistinctIds, VInv, WriteSize PROVE VInv'
<1>1. ~Idle /\ doing.step = "size" /\ UNCHANGED <<store, file, opened, exists>> /\ doing' = None
  BY DEF WriteSize
<1>p. PICK p : p = doing.path
  OBVIOUS
<1>i. PICK id : id = path_to_id(p)
  OBVIOUS
<1>z. PICK size : size = IF mem[id][0] > doing.size THEN mem[id][0] ELSE doing.size
  OBVIOUS
<1>2. p \in opened /\ doing.size \in Nat
  BY <1>1, <1>p DEF VInv, OperationInv, Operations
<1>3. /\ p \in exists /\ p \in Paths /\ id \in Ids /\ mem[id] = written[p] /\ mem[id] \in Contents
      /\ promised[p] \subseteq All
  <2>1. p \in exists /\ p \in Paths /\ id \in Ids
    BY <1>2, <1>i, IdOf DEF VInv, VTypes, Regions
  <2> QED BY <1>2, <1>i, <2>1 DEF VInv, VTypes, ContentKept
<1>4. PICK c : c = [mem[id] EXCEPT ![0] = size]
  OBVIOUS
<1>5. c \in Contents
  <2>1. size \in Values
    BY <1>2, <1>3, <1>z, Numbers DEF Contents, Values
  <2> QED BY <1>3, <1>4, <2>1 DEF Contents
<1>6. mem' = [mem EXCEPT ![path_to_id(p)] = c] /\ written' = [written EXCEPT ![p] = c]
  <2>1. /\ mem' = [mem EXCEPT ![id][0] = size] /\ written' = [written EXCEPT ![p][0] = size]
    BY <1>p, <1>i, <1>z DEF WriteSize
  <2>2. /\ mem' = [mem EXCEPT ![id] = [mem[id] EXCEPT ![0] = size]]
        /\ written' = [written EXCEPT ![p] = [written[p] EXCEPT ![0] = size]]
    BY <2>1 DEF VInv, VTypes
  <2> QED BY <1>3, <1>4, <1>i, <2>2
<1>7. PICK R : R = promised[p] \ {0}
  OBVIOUS
<1>8. R \subseteq promised[p] /\ promised' = [promised EXCEPT ![p] = R]
  BY <1>7, <1>p DEF WriteSize
<1>9. \A s \in R : c[s] = mem[path_to_id(p)][s]
  BY <1>3, <1>4, <1>7, <1>i DEF Contents
<1>10. VTypes' /\ Regions' /\ ContentKept' /\ Promises'
  BY <1>1, <1>2, <1>5, <1>6, <1>8, <1>9, StoreKeeps
<1> QED BY <1>1, <1>10, NoOperation DEF VInv

\* demoSync and demoClose save the region: what is in memory is promised.
LEMMA PersistKeeps ==
    ASSUME DistinctIds, VInv, NEW p \in opened, PersistFile(p), UNCHANGED <<store, mem, opened, exists, written>>
    PROVE  VTypes' /\ Regions' /\ ContentKept' /\ Promises'
<1>i. PICK id : id = path_to_id(p)
  OBVIOUS
<1>1. p \in Paths /\ id \in Ids /\ p \in exists /\ Store!Loaded(id) /\ mem[id] = written[p]
  <2>1. p \in Paths /\ p \in exists
    BY DEF VInv, VTypes, Regions
  <2> QED BY <1>i, <2>1, IdOf DEF VInv, ContentKept
<1>2. /\ file' = [file EXCEPT ![id] = mem[id]] /\ promised' = [promised EXCEPT ![p] = All]
  BY <1>i DEF PersistFile
<1>3. VTypes'
  BY <1>1, <1>2 DEF VInv, VTypes, store
<1>4. Regions'
  BY DEF VInv, Regions, store, Store!Loaded, path_to_id
<1>5. /\ file'[id] = mem[id] /\ \A x \in Ids : x # id => file'[x] = file[x]
      /\ \A q \in Paths : q # p => promised'[q] = promised[q]
  BY <1>1, <1>2 DEF VInv, VTypes
<1>6. \A x : Store!Loaded(x)' <=> Store!Loaded(x)
  BY DEF store, Store!Loaded
<1>7. ASSUME NEW q \in exists PROVE q \in Paths /\ path_to_id(q) \in Ids /\ (q # p => path_to_id(q) # id)
  <2>1. q \in Paths
    BY DEF VInv, VTypes
  <2> QED BY <1>1, <1>i, <2>1, IdOf DEF DistinctIds
<1>8. ContentKept'
  <2>1. ASSUME NEW q \in exists
        PROVE  /\ file_pages'[path_to_id(q)] = Slots
               /\ (IF Store!Loaded(path_to_id(q))' THEN mem'[path_to_id(q)] ELSE file'[path_to_id(q)])
                      = written'[q]
    <3>1. /\ file_pages'[path_to_id(q)] = Slots
          /\ (IF Store!Loaded(path_to_id(q)) THEN mem[path_to_id(q)] ELSE file[path_to_id(q)])
                 = written[q]
      BY DEF VInv, ContentKept, store
    <3>2. CASE q = p
      BY <1>1, <1>6, <1>i, <3>1, <3>2
    <3>3. CASE q # p
      BY <1>5, <1>6, <1>7, <3>1, <3>3
    <3> QED BY <3>2, <3>3
  <2>2. \A q \in opened : Store!Loaded(path_to_id(q))' /\ path_to_id(q) \in anchored'
    BY <1>6 DEF VInv, ContentKept, store
  <2> QED BY <2>1, <2>2 DEF ContentKept, path_to_id
<1>9. Promises'
  <2>1. ASSUME NEW q \in exists, NEW s \in promised'[q] PROVE file'[path_to_id(q)][s] = written'[q][s]
    <3>2. CASE q = p
      BY <1>1, <1>5, <1>i, <3>2
    <3>3. CASE q # p
      <4>1. q \in Paths /\ promised'[q] = promised[q] /\ file'[path_to_id(q)] = file[path_to_id(q)]
        BY <1>5, <1>7, <3>3
      <4> QED BY <2>1, <4>1 DEF VInv, Promises
    <3> QED BY <3>2, <3>3
  <2>2. \A q \in Paths : q \notin exists => promised'[q] = {}
    BY <1>1, <1>5 DEF VInv, Promises
  <2> QED BY <2>1, <2>2 DEF Promises, path_to_id
<1> QED BY <1>3, <1>4, <1>8, <1>9

\* Regions without a mapping go, but none of an existing path.
LEMMA UnmapKeeps ==
    ASSUME VInv, NEW paths, Unmap(paths), opened' \subseteq opened,
           UNCHANGED <<mem, file, exists, written, promised>>
    PROVE  VTypes' /\ Regions' /\ ContentKept' /\ Promises'
<1>1. PICK S : /\ \A id \in S : Store!Loaded(id) /\ id \notin anchored
               /\ Store!Drop(S)
  BY DEF Unmap
<1>2. /\ nr_pages' = [id \in Ids |-> IF id \in S THEN 0 ELSE nr_pages[id]]
      /\ persistent' = persistent \ S /\ anchored' = anchored \ S
      /\ file_pages' = [id \in Ids |-> IF id \in S \cap persistent THEN Store!NoFile ELSE file_pages[id]]
  BY <1>1 DEF Store!Drop
<1>3. VTypes'
  BY <1>2 DEF VInv, VTypes
<1>4. \A id \in Ids : IF id \in S THEN ~Store!Loaded(id)'
                      ELSE /\ Store!Loaded(id)' <=> Store!Loaded(id)
                           /\ file_pages'[id] = file_pages[id]
  BY <1>2, Numbers DEF Store!Loaded
<1>5. ASSUME NEW q \in exists PROVE q \in Paths /\ path_to_id(q) \in Ids /\ path_to_id(q) \notin S
  <2>1. q \in Paths
    BY DEF VInv, VTypes
  <2> QED BY <1>1, <2>1, IdOf DEF VInv, Regions
<1>6. Regions'
  <2>1. \A x \in Ids : Store!Loaded(x)' => file_pages'[x] = Slots /\ x \in persistent'
    BY <1>2, <1>4 DEF VInv, Regions
  <2>2. \A q \in exists : Store!Loaded(path_to_id(q))' => path_to_id(q) \in anchored'
    BY <1>2, <1>4, <1>5 DEF VInv, Regions
  <2>3. opened' \subseteq exists
    BY DEF VInv, Regions
  <2> QED BY <2>1, <2>2, <2>3 DEF Regions, path_to_id
<1>7. ContentKept'
  <2>1. ASSUME NEW q \in exists
        PROVE  /\ file_pages'[path_to_id(q)] = Slots
               /\ (IF Store!Loaded(path_to_id(q))' THEN mem'[path_to_id(q)] ELSE file'[path_to_id(q)])
                      = written'[q]
    BY <1>4, <1>5 DEF VInv, ContentKept
  <2>2. ASSUME NEW q \in opened' PROVE Store!Loaded(path_to_id(q))' /\ path_to_id(q) \in anchored'
    <3>1. q \in opened /\ q \in exists
      BY <2>2 DEF VInv, Regions
    <3>2. Store!Loaded(path_to_id(q)) /\ path_to_id(q) \in anchored
      BY <3>1 DEF VInv, ContentKept
    <3> QED BY <1>2, <1>4, <1>5, <3>1, <3>2
  <2> QED BY <2>1, <2>2 DEF ContentKept, path_to_id
<1>8. Promises'
  BY DEF VInv, Promises, path_to_id
<1> QED BY <1>3, <1>6, <1>7, <1>8

\* A file is closed, or the process ends: its regions are unmapped.
LEMMA EndsKeep ==
    ASSUME VInv, CloseUnmap \/ ProcessEnds
    PROVE  VInv'
<1>1. /\ UNCHANGED <<mem, file, exists, written, promised>> /\ doing' = None
      /\ opened' \subseteq opened /\ \E paths : Unmap(paths)
  BY DEF CloseUnmap, ProcessEnds, ghosts
<1> QED BY <1>1, UnmapKeeps, NoOperation DEF VInv

\* demoDelete takes the region of its own path.
LEMMA DeleteKeeps == ASSUME DistinctIds, VInv, NEW p \in Paths, demoDelete(p) PROVE VInv'
<1>1. Idle /\ p \notin opened /\ UNCHANGED <<mem, file, opened, doing, written>>
  BY DEF demoDelete
<1>d. doing' = None
  BY <1>1 DEF Idle
<1>i. PICK id : id = path_to_id(p)
  OBVIOUS
<1>2. id \in Ids
  BY <1>i, IdOf
<1>3. CASE UNCHANGED <<store, exists, promised>>
  BY <1>1, <1>3, <1>d, SameFiles, NoOperation DEF VInv
<1>4. CASE /\ Store!Loaded(id) /\ (Store!unanchor(id) \/ Store!Drop({id}))
           /\ exists' = exists \ {p} /\ promised' = [promised EXCEPT ![p] = {}]
  <2>1. /\ VTypes'
        /\ \A x \in Ids : x # id =>
               /\ nr_pages'[x] = nr_pages[x] /\ file_pages'[x] = file_pages[x]
               /\ x \in persistent' <=> x \in persistent
               /\ x \in anchored' <=> x \in anchored
        /\ Store!Loaded(id)' => file_pages'[id] = Slots /\ id \in persistent'
    <3>0. promised' \in [Paths -> SUBSET All] /\ exists' \subseteq Paths
      BY <1>4 DEF VInv, VTypes
    <3>1. CASE Store!unanchor(id)
      <4>1. anchored' = anchored \ {id} /\ UNCHANGED <<nr_pages, persistent, file_pages>>
        BY <3>1 DEF Store!unanchor
      <4>2. Store!Loaded(id)' => file_pages'[id] = Slots /\ id \in persistent'
        BY <1>2, <4>1 DEF VInv, Regions, Store!Loaded
      <4> QED BY <1>1, <3>0, <4>1, <4>2 DEF VInv, VTypes
    <3>2. CASE Store!Drop({id})
      <4>1. /\ nr_pages' = [x \in Ids |-> IF x \in {id} THEN 0 ELSE nr_pages[x]]
            /\ persistent' = persistent \ {id} /\ anchored' = anchored \ {id}
            /\ file_pages' = [x \in Ids |-> IF x \in {id} \cap persistent THEN Store!NoFile
                                             ELSE file_pages[x]]
        BY <3>2 DEF Store!Drop
      <4>2. ~Store!Loaded(id)'
        BY <1>2, <4>1, Numbers DEF Store!Loaded
      <4> QED BY <1>1, <3>0, <4>1, <4>2 DEF VInv, VTypes
    <3> QED BY <1>4, <3>1, <3>2
  <2>2. ASSUME NEW q \in exists' PROVE path_to_id(q) # id /\ promised'[q] = promised[q]
    <3>1. q \in Paths /\ q # p
      BY <1>4 DEF VInv, VTypes
    <3> QED BY <1>4, <1>i, <3>1 DEF DistinctIds, VInv, VTypes
  <2>3. \A q \in Paths : q \notin exists' => promised'[q] = {}
    BY <1>4 DEF VInv, VTypes, Promises
  <2>4. exists' \subseteq exists /\ opened \subseteq exists'
    BY <1>1, <1>4 DEF VInv, Regions
  <2>5. ChangesOnly(id)
    BY <1>1, <2>1, <2>2, <2>3, <2>4 DEF ChangesOnly
  <2> QED BY <1>2, <1>d, <2>1, <2>5, OthersKept, NoOperation DEF VInv
<1> QED BY <1>i, <1>3, <1>4 DEF demoDelete

\* Shut down, the manager saves every region; one that dies saves some of the slots.
LEMMA RestartKeeps ==
    ASSUME VInv, ManagerShutdown \/ ManagerDies
    PROVE  VInv'
<1>1. /\ nr_pages' = [id \in Ids |-> 0] /\ UNCHANGED <<file_pages, mem, exists, promised>>
      /\ opened' = {} /\ doing' = None
  BY DEF ManagerShutdown, ManagerDies, Store!Restart, ghosts, Idle
<1>2. \A id \in Ids : ~Store!Loaded(id)'
  BY <1>1, Numbers DEF Store!Loaded
<1>3. /\ file' \in [Ids -> Contents] /\ written' \in [Paths -> Contents]
      /\ \A p \in exists : file'[path_to_id(p)] = written'[p]
  <2>1. CASE ManagerShutdown
    <3>1. /\ file' = [id \in Ids |-> IF Store!Loaded(id) THEN mem[id] ELSE file[id]]
          /\ written' = written
      BY <2>1 DEF ManagerShutdown, ghosts
    <3>2. \A p \in exists : path_to_id(p) \in Ids
      BY IdOf DEF VInv, VTypes
    <3> QED BY <3>1, <3>2 DEF VInv, VTypes, ContentKept
  <2>2. CASE ManagerDies
    <3>1. PICK saved : file' = [id \in Ids |-> [s \in All |-> IF <<id, s>> \in saved THEN mem[id][s]
                                                              ELSE file[id][s]]]
      BY <2>2 DEF ManagerDies
    <3>2. written' = [p \in Paths |-> file'[path_to_id(p)]]
      BY <2>2 DEF ManagerDies
    <3>3. file' \in [Ids -> Contents]
      BY <3>1 DEF VInv, VTypes, Contents
    <3>4. \A p \in Paths : path_to_id(p) \in Ids
      BY IdOf
    <3> QED BY <3>2, <3>3, <3>4 DEF VInv, VTypes
  <2> QED BY <2>1, <2>2
<1>4. VTypes'
  BY <1>1, <1>3 DEF VInv, VTypes
<1>5. \A p \in exists : path_to_id(p) \in Ids
  BY IdOf DEF VInv, VTypes
<1>6. Regions'
  BY <1>1, <1>2, <1>5 DEF Regions, path_to_id
<1>7. ContentKept'
  <2>1. \A p \in exists : file_pages'[path_to_id(p)] = Slots
    BY <1>1 DEF VInv, ContentKept
  <2> QED BY <1>1, <1>2, <1>3, <1>5, <2>1 DEF ContentKept, path_to_id
<1>8. Promises'
  BY <1>1, <1>3 DEF VInv, Promises, path_to_id
<1> QED BY <1>1, <1>4, <1>6, <1>7, <1>8, NoOperation DEF VInv

\* The operations that leave the contents alone.
LEMMA QuietKeeps ==
    ASSUME DistinctIds, VInv, NEW p \in Paths,
           \/ \E lo \in 0 .. Slots, n \in 1 .. Slots : demoRead(p, lo, n)
           \/ demoSync(p) \/ demoFileSize(p) \/ demoClose(p) \/ demoAccess(p)
    PROVE  VInv'
<1>1. CASE (\E lo \in 0 .. Slots, n \in 1 .. Slots : demoRead(p, lo, n)) \/ demoFileSize(p)
  <2>1. UNCHANGED <<store, mem, file, opened, exists, written, promised>> /\ doing' = None
    BY <1>1 DEF demoRead, demoFileSize, ghosts, Idle
  <2> QED BY <2>1, SameFiles, NoOperation DEF VInv
<1>2. CASE demoSync(p)
  <2>1. p \in opened /\ PersistFile(p) /\ UNCHANGED <<store, mem, opened, exists, written>> /\ doing' = None
    BY <1>2 DEF demoSync, Idle
  <2> QED BY <2>1, PersistKeeps, NoOperation DEF VInv
<1>3. CASE demoClose(p)
  <2>1. p \in opened /\ PersistFile(p) /\ UNCHANGED <<store, mem, opened, exists, written>>
    BY <1>3 DEF demoClose
  <2>2. doing' = Doing(p, "unmap", FALSE)
    BY <1>3 DEF demoClose
  <2>3. doing' \in Operations /\ doing'.step = "unmap"
    BY <2>2, DoingIs
  <2>4. OperationInv'
    BY <2>3 DEF OperationInv
  <2> QED BY <2>1, <2>4, PersistKeeps DEF VInv
<1>4. CASE demoAccess(p)
  <2>1. UNCHANGED <<file, opened, exists, written, promised>> /\ doing' = None
    BY <1>4 DEF demoAccess, ghosts, Idle
  <2>2. Load(path_to_id(p)) \/ UNCHANGED <<store, mem>>
    BY <1>4 DEF demoAccess
  <2> QED BY <2>1, <2>2, IdOf, LoadKeeps, SameFiles, NoOperation DEF VInv
<1> QED BY <1>1, <1>2, <1>3, <1>4

\* Every step of the VFS and of the manager keeps the invariant.
LEMMA VfsKeeps == ASSUME DistinctIds PROVE VInv /\ [Next]_vars => VInv'
<1> SUFFICES ASSUME VInv, [Next]_vars PROVE VInv'
  OBVIOUS
<1>1. CASE UNCHANGED vars
  <2>1. UNCHANGED <<store, mem, file, opened, exists, written, promised>> /\ doing' = doing
    BY <1>1 DEF vars, ghosts
  <2>2. OperationInv'
    BY <2>1 DEF VInv, OperationInv, Idle, store, Store!Loaded, path_to_id
  <2> QED BY <2>1, <2>2, SameFiles DEF VInv
<1>2. ASSUME NEW p \in Paths, FileOperation(p) PROVE VInv'
  BY <1>2, OpenMapKeeps, WriteKeeps, DeleteKeeps, QuietKeeps DEF FileOperation
<1> QED BY <1>1, <1>2, OpenAllocKeeps, OpenAnchorKeeps, OpenSetSizeKeeps, WriteSizeKeeps, EndsKeep,
           RestartKeeps DEF Next

\* What was written to a file through damemorydemovfs.h is in memory or in the
\* region's file until the file is deleted, for any number of files whose names
\* differ in the bytes that path_to_id keeps.
THEOREM ContentIsKept == DistinctIds => (Spec => []ContentKept)
<1> SUFFICES ASSUME DistinctIds PROVE Spec => []ContentKept
  OBVIOUS
<1>1. VInv => ContentKept
  BY DEF VInv
<1>2. VInv /\ [Next]_vars => VInv'
  BY VfsKeeps
<1> QED BY VfsStarts, <1>1, <1>2, PTL DEF Spec

\* A step changes no slot that a sync or close promised.
SyncedStep ==
    \A p \in exists \cap exists' : \A s \in promised[p] \cap promised'[p] :
        written'[p][s] = written[p][s]

\* No step changes what was synced and still is.
LEMMA SyncedKept == ASSUME VInv, [Next]_vars PROVE SyncedStep
<1>1. CASE written' = written
  BY <1>1 DEF SyncedStep
<1>2. CASE OpenSetSize
  <2>1. written' = IF doing.path \in exists THEN written
                   ELSE [written EXCEPT ![doing.path] = mem'[path_to_id(doing.path)]]
    BY <1>2 DEF OpenSetSize
  <2>2. \A p \in exists : written'[p] = written[p]
    BY <2>1 DEF VInv, VTypes
  <2> QED BY <2>2 DEF SyncedStep
<1>3. ASSUME NEW p \in Paths, NEW lo \in 0 .. Slots, NEW n \in 1 .. Slots, NEW b \in Bytes,
             demoWrite(p, lo, n, b)
      PROVE  SyncedStep
  <2>1. CASE UNCHANGED written
    BY <2>1 DEF SyncedStep
  <2>2. PICK slots : slots = get_filecontent_addr(lo, n)
    OBVIOUS
  <2>3. CASE /\ written' = [written EXCEPT ![p] = [s \in All |-> IF s \in slots THEN b ELSE written[p][s]]]
             /\ promised' = [promised EXCEPT ![p] = promised[p] \ slots]
    <3>1. ASSUME NEW q \in exists, NEW s \in promised[q], s \in promised'[q]
          PROVE  written'[q][s] = written[q][s]
      <4>1. q \in Paths /\ promised[q] \subseteq All
        BY DEF VInv, VTypes
      <4>2. CASE q = p
        BY <2>3, <3>1, <4>1, <4>2 DEF VInv, VTypes
      <4>3. CASE q # p
        BY <2>3, <4>1, <4>3 DEF VInv, VTypes
      <4> QED BY <4>2, <4>3
    <3> QED BY <3>1 DEF SyncedStep
  <2> QED BY <1>3, <2>1, <2>2, <2>3 DEF demoWrite
<1>4. CASE WriteSize
  <2>1. PICK size, p : written' = [written EXCEPT ![p][0] = size] /\ promised' = [promised EXCEPT ![p] = @ \ {0}]
    BY <1>4 DEF WriteSize
  <2>2. ASSUME NEW q \in exists, NEW s \in promised[q], s \in promised'[q]
        PROVE  written'[q][s] = written[q][s]
    <3>1. q \in Paths /\ promised[q] \subseteq All /\ written[q] \in Contents
      BY DEF VInv, VTypes
    <3>2. CASE q = p
      <4>1. s # 0
        BY <2>1, <2>2, <3>1, <3>2 DEF VInv, VTypes
      <4>2. written'[q] = [written[q] EXCEPT ![0] = size]
        BY <2>1, <3>1, <3>2 DEF VInv, VTypes
      <4> QED BY <3>1, <4>1, <4>2 DEF Contents
    <3>3. CASE q # p
      BY <2>1, <3>1, <3>3 DEF VInv, VTypes
    <3> QED BY <3>2, <3>3
  <2> QED BY <2>2 DEF SyncedStep
<1>5. CASE ManagerDies
  <2>1. PICK saved \in SUBSET ({id \in Ids : Store!Loaded(id)} \X All) :
            file' = [id \in Ids |-> [s \in All |-> IF <<id, s>> \in saved THEN mem[id][s] ELSE file[id][s]]]
    BY <1>5 DEF ManagerDies
  <2>2. written' = [p \in Paths |-> file'[path_to_id(p)]]
    BY <1>5 DEF ManagerDies
  <2>3. ASSUME NEW q \in exists, NEW s \in promised[q] PROVE written'[q][s] = written[q][s]
    <3>1. PICK id : id = path_to_id(q)
      OBVIOUS
    <3>2. q \in Paths /\ id \in Ids /\ s \in All
      BY <3>1, IdOf DEF VInv, VTypes
    <3>3. file[id][s] = written[q][s] /\ (Store!Loaded(id) => mem[id] = written[q])
      BY <3>1 DEF VInv, Promises, ContentKept
    <3>4. written'[q][s] = IF <<id, s>> \in saved THEN mem[id][s] ELSE file[id][s]
      BY <2>1, <2>2, <3>1, <3>2
    <3>5. <<id, s>> \in saved => Store!Loaded(id)
      BY <2>1
    <3> QED BY <3>3, <3>4, <3>5
  <2> QED BY <2>3 DEF SyncedStep
<1>6. CASE UNCHANGED vars
  BY <1>1, <1>6 DEF vars, ghosts
<1>7. ASSUME NEW p \in Paths, FileOperation(p) PROVE SyncedStep
  <2>1. (\E lo \in 0 .. Slots, n \in 1 .. Slots, b \in Bytes : demoWrite(p, lo, n, b)) \/ written' = written
    BY <1>7 DEF FileOperation, OpenMap, demoRead, demoSync, demoFileSize, demoClose, demoDelete, demoAccess,
                ghosts
  <2> QED BY <1>1, <1>3, <2>1
<1>8. CASE OpenAlloc \/ OpenAnchor \/ CloseUnmap \/ ProcessEnds \/ ManagerShutdown
  <2>1. written' = written
    BY <1>8 DEF OpenAlloc, OpenAnchor, CloseUnmap, ProcessEnds, ManagerShutdown, ghosts
  <2> QED BY <1>1, <2>1
<1> QED BY <1>2, <1>4, <1>5, <1>6, <1>7, <1>8 DEF Next

\* After demoSync or demoClose nothing but a write or a delete changes the data and
\* the size, also when the manager dies and leaves only some of its pages.
THEOREM SyncedDataSurvives == DistinctIds => (Spec => SyncedSurvives)
<1> SUFFICES ASSUME DistinctIds PROVE Spec => SyncedSurvives
  OBVIOUS
<1>1. VInv /\ [Next]_vars => VInv'
  BY VfsKeeps
<1>2. VInv /\ [Next]_vars => [SyncedStep]_vars
  BY SyncedKept
<1>3. Spec => [][SyncedStep]_vars
  BY VfsStarts, <1>1, <1>2, PTL DEF Spec
<1> QED BY <1>3 DEF SyncedSurvives, SyncedStep

(***************************************************************************)
(* The journal file: layers of bytes.                                      *)
(***************************************************************************)
Positions == 0 .. MaxSize - 1

\* Data on an interval of offsets, possibly an empty one.
Ranges(B) == UNION {UNION {[lo .. hi - 1 -> B] : hi \in lo .. MaxSize} : lo \in 0 .. MaxSize}

\* What is seen of a file f of length n that may come back as m and ls, with b
\* in the buffer and d still to be copied.
SeenOf(f, b, d)  == J!OS!Over(J!OS!Over(f, b), d)
LengthOf(n, b, d) == J!OS!Extent(d, J!OS!Extent(b, n))
MayBe(m, b, d) == [o \in Positions |-> m[o] \cup {b[p] : p \in DOMAIN b \cap {o}}
                                            \cup {d[p] : p \in DOMAIN d \cap {o}}]
Survivors == MayBe(media, J!Buffered, z)
Sizes == lengths \cup (length .. J!SeenLength)

\* The names that the two instances of PlainFile give to the same thing.
LEMMA SameNames ==
    /\ J!Offsets = Positions /\ J!OS!Offsets = Positions /\ J!File!Offsets = Positions
    /\ J!NoFile = -1 /\ J!OS!NoFile = -1 /\ J!File!NoFile = -1
    /\ J!File!Data = J!OS!Data
    /\ \A f, d : J!File!Over(f, d) = J!OS!Over(f, d)
    /\ \A d, n : J!File!Extent(d, n) = J!OS!Extent(d, n)
    /\ \A op, rc, v : J!File!Result(op, rc, v) = J!OS!Result(op, rc, v)
    /\ \A op : J!File!Ok(op) = J!OS!Ok(op)
    /\ J!File!Restarted = J!OS!Restarted
<1>1. J!Offsets = Positions /\ J!OS!Offsets = Positions /\ J!File!Offsets = Positions
  BY DEF J!Offsets, J!OS!Offsets, J!File!Offsets, Positions
<1>2. J!NoFile = -1 /\ J!OS!NoFile = -1 /\ J!File!NoFile = -1
  BY DEF J!NoFile, J!OS!NoFile, J!File!NoFile
<1>3. J!File!Data = J!OS!Data
  BY DEF J!File!Data, J!OS!Data, J!OS!Offsets, J!File!Offsets
<1>4. \A f, d : J!File!Over(f, d) = J!OS!Over(f, d)
  BY DEF J!File!Over, J!OS!Over, J!OS!Offsets, J!File!Offsets
<1>5. \A d, n : J!File!Extent(d, n) = J!OS!Extent(d, n)
  BY DEF J!File!Extent, J!OS!Extent
<1>6. \A op, rc, v : J!File!Result(op, rc, v) = J!OS!Result(op, rc, v)
  BY DEF J!File!Result, J!OS!Result
<1>7. (\A op : J!File!Ok(op) = J!OS!Ok(op)) /\ J!File!Restarted = J!OS!Restarted
  BY <1>6 DEF J!File!Ok, J!OS!Ok, J!File!Restarted, J!OS!Restarted
<1> QED BY <1>1, <1>2, <1>3, <1>4, <1>5, <1>6, <1>7

\* The file as SQLite sees it, in terms of the layers.
LEMMA LayersSeen ==
    /\ J!Seen = SeenOf(disk, J!Buffered, z)
    /\ J!SeenLength = LengthOf(length, J!Buffered, z)
BY DEF J!Seen, J!SeenLength, SeenOf, LengthOf

\* The same after a step.
LEMMA LayersSeenNext ==
    /\ J!Seen' = SeenOf(disk', J!Buffered', z')
    /\ J!SeenLength' = LengthOf(length', J!Buffered', z')
BY DEF J!Seen, J!SeenLength, SeenOf, LengthOf

\* An interval of offsets has bounds.
LEMMA RangeIs ==
    ASSUME NEW B, NEW d
    PROVE  d \in Ranges(B) <=> \E lo, hi \in 0 .. MaxSize : lo <= hi /\ d \in [lo .. hi - 1 -> B]
<1>1. ASSUME NEW lo \in 0 .. MaxSize, NEW hi
      PROVE  hi \in lo .. MaxSize <=> hi \in 0 .. MaxSize /\ lo <= hi
  BY SMTT(30), JournalAssumption
<1> QED BY SMTT(30), <1>1 DEF Ranges

\* So has the data of a write, which is not empty.
LEMMA DataIs ==
    ASSUME NEW d
    PROVE  d \in J!OS!Data <=>
               \E lo, hi \in 0 .. MaxSize : lo < hi /\ d \in [lo .. hi - 1 -> JournalBytes]
<1>1. ASSUME NEW lo \in Positions, NEW hi \in lo .. MaxSize - 1
      PROVE  lo \in 0 .. MaxSize /\ hi + 1 \in 0 .. MaxSize /\ lo < hi + 1 /\ hi = (hi + 1) - 1
  BY SMTT(30), JournalAssumption DEF Positions
<1>2. ASSUME NEW lo \in 0 .. MaxSize, NEW hi \in 0 .. MaxSize, lo < hi
      PROVE  lo \in Positions /\ hi - 1 \in lo .. MaxSize - 1
  BY SMTT(30), JournalAssumption, <1>2 DEF Positions
<1>3. J!OS!Data = UNION {UNION {[lo .. hi -> JournalBytes] : hi \in lo .. MaxSize - 1} : lo \in Positions}
  BY SameNames DEF J!OS!Data
<1>4. ASSUME d \in J!OS!Data
      PROVE  \E lo, hi \in 0 .. MaxSize : lo < hi /\ d \in [lo .. hi - 1 -> JournalBytes]
  <2>1. PICK lo \in Positions : \E hi \in lo .. MaxSize - 1 : d \in [lo .. hi -> JournalBytes]
    BY SMTT(30), <1>3, <1>4
  <2>2. PICK hi \in lo .. MaxSize - 1 : d \in [lo .. hi -> JournalBytes]
    BY <2>1
  <2>3. lo \in 0 .. MaxSize /\ hi + 1 \in 0 .. MaxSize /\ lo < hi + 1 /\ hi = (hi + 1) - 1
    BY <1>1
  <2> QED BY <2>2, <2>3
<1>5. ASSUME NEW lo \in 0 .. MaxSize, NEW hi \in 0 .. MaxSize, lo < hi, d \in [lo .. hi - 1 -> JournalBytes]
      PROVE  d \in J!OS!Data
  <2>1. lo \in Positions /\ hi - 1 \in lo .. MaxSize - 1
    BY <1>2, <1>5
  <2>2. PICK h : h = hi - 1
    OBVIOUS
  <2> QED BY SMTT(30), <1>3, <1>5, <2>1, <2>2
<1> QED BY <1>4, <1>5

\* A write is data on an interval.
LEMMA DataInRange == \A d \in J!OS!Data : d \in Ranges(JournalBytes)
<1>1. ASSUME NEW d \in J!OS!Data
      PROVE  d \in Ranges(JournalBytes)
  <2>1. PICK lo, hi \in 0 .. MaxSize : lo < hi /\ d \in [lo .. hi - 1 -> JournalBytes]
    BY DataIs
  <2>2. lo <= hi
    BY SMTT(30), <2>1, JournalAssumption
  <2> QED BY <2>1, <2>2, RangeIs
<1> QED BY <1>1

\* The length of a file after a write of a .. b - 1.
LEMMA Extents ==
    ASSUME NEW d, NEW a \in Int, NEW b \in Int, NEW n \in Int, DOMAIN d = a .. b - 1
    PROVE  J!OS!Extent(d, n) = IF a < b /\ n < b THEN b ELSE n
<1>1. CASE a < b /\ n < b
  <2>1. \E o \in DOMAIN d : o >= n
    <3>1. b - 1 \in a .. b - 1 /\ b - 1 >= n
      BY SMTT(30), <1>1
    <3> QED BY <3>1
  <2>2. PICK e : e = CHOOSE x \in DOMAIN d : \A o \in DOMAIN d : o <= x
    OBVIOUS
  <2>3. e \in DOMAIN d /\ \A o \in DOMAIN d : o <= e
    <3>1. b - 1 \in a .. b - 1 /\ \A o \in a .. b - 1 : o <= b - 1
      BY SMTT(30), <1>1
    <3> QED BY <2>2, <3>1
  <2>4. e + 1 = b
    BY SMTT(30), <2>3, <1>1
  <2>5. J!OS!Extent(d, n) = (CHOOSE x \in DOMAIN d : \A o \in DOMAIN d : o <= x) + 1
    BY <2>1 DEF J!OS!Extent
  <2>6. J!OS!Extent(d, n) = b
    BY <2>5, <2>2, <2>4
  <2> QED BY <1>1, <2>6
<1>2. CASE ~(a < b /\ n < b)
  <2>1. ~\E o \in DOMAIN d : o >= n
    BY SMTT(30), <1>2
  <2> QED BY <1>2, <2>1 DEF J!OS!Extent
<1> QED BY <1>1, <1>2

\* An empty layer changes nothing.
LEMMA NothingOver ==
    /\ DOMAIN J!Nothing = {}
    /\ \A d : d \in [{} -> JournalBytes] => d = J!Nothing
    /\ \A f : f = [o \in Positions |-> f[o]] => J!OS!Over(f, J!Nothing) = f
    /\ \A f, d : J!OS!Over(J!OS!Over(f, d), J!Nothing) = J!OS!Over(f, d)
    /\ \A n : J!OS!Extent(J!Nothing, n) = n
<1>1. DOMAIN J!Nothing = {}
  BY DEF J!Nothing
<1>2. \A d : d \in [{} -> JournalBytes] => d = J!Nothing
  BY DEF J!Nothing
<1>3. ASSUME NEW f, f = [o \in Positions |-> f[o]]
      PROVE  J!OS!Over(f, J!Nothing) = f
  <2>1. J!OS!Over(f, J!Nothing) = [o \in Positions |-> f[o]]
    BY <1>1, SameNames DEF J!OS!Over
  <2> QED BY <1>3, <2>1
<1>4. ASSUME NEW f, NEW d
      PROVE  J!OS!Over(J!OS!Over(f, d), J!Nothing) = J!OS!Over(f, d)
  <2>1. PICK g : g = J!OS!Over(f, d)
    OBVIOUS
  <2>2. g = [o \in Positions |-> g[o]]
    BY <2>1, SameNames DEF J!OS!Over
  <2> QED BY <1>3, <2>1, <2>2
<1>5. \A n : J!OS!Extent(J!Nothing, n) = n
  BY <1>1 DEF J!OS!Extent
<1> QED BY <1>1, <1>2, <1>3, <1>4, <1>5

\* A flush moves the bytes of the buffer into the file below.
Added(m, b) == [o \in Positions |-> IF o \in DOMAIN b THEN m[o] \cup {b[o]} ELSE m[o]]

\* Nothing changes for who looks through the layers.
LEMMA FlushLayers ==
    ASSUME NEW f, NEW m, NEW b, NEW d, NEW n
    PROVE  /\ SeenOf(J!OS!Over(f, b), J!Nothing, d) = SeenOf(f, b, d)
           /\ LengthOf(J!OS!Extent(b, n), J!Nothing, d) = LengthOf(n, b, d)
           /\ MayBe(Added(m, b), J!Nothing, d) = MayBe(m, b, d)
<1>1. SeenOf(J!OS!Over(f, b), J!Nothing, d) = SeenOf(f, b, d)
  BY NothingOver DEF SeenOf
<1>2. LengthOf(J!OS!Extent(b, n), J!Nothing, d) = LengthOf(n, b, d)
  BY NothingOver DEF LengthOf
<1>3. ASSUME NEW o \in Positions
      PROVE  Added(m, b)[o] \cup {J!Nothing[p] : p \in DOMAIN J!Nothing \cap {o}}
             = m[o] \cup {b[p] : p \in DOMAIN b \cap {o}}
  <2>1. {J!Nothing[p] : p \in DOMAIN J!Nothing \cap {o}} = {}
    BY NothingOver
  <2>2. CASE o \in DOMAIN b
    <3>1. Added(m, b)[o] = m[o] \cup {b[o]}
      BY <2>2 DEF Added
    <3>2. {b[p] : p \in DOMAIN b \cap {o}} = {b[o]}
      BY <2>2
    <3> QED BY <2>1, <3>1, <3>2
  <2>3. CASE o \notin DOMAIN b
    <3>1. Added(m, b)[o] = m[o]
      BY <2>3 DEF Added
    <3>2. {b[p] : p \in DOMAIN b \cap {o}} = {}
      BY <2>3
    <3> QED BY <2>1, <3>1, <3>2
  <2> QED BY <2>2, <2>3
<1>4. MayBe(Added(m, b), J!Nothing, d) = MayBe(m, b, d)
  BY <1>3 DEF MayBe
<1> QED BY <1>1, <1>2, <1>4

\* A copy into the buffer moves the bytes between lo and mid.
Moved(a, lo, mid, hi, b, d, b2, d2) ==
    /\ a \in Int /\ lo \in Int /\ mid \in Int /\ hi \in Int
    /\ a <= lo /\ lo < mid /\ mid <= hi
    /\ DOMAIN b = a .. lo - 1 /\ DOMAIN d = lo .. hi - 1
    /\ DOMAIN b2 = a .. mid - 1 /\ DOMAIN d2 = mid .. hi - 1
    /\ \A o \in a .. lo - 1 : b2[o] = b[o]
    /\ \A o \in lo .. mid - 1 : b2[o] = d[o]
    /\ \A o \in mid .. hi - 1 : d2[o] = d[o]

\* Nothing changes here either.
LEMMA CopyLayers ==
    ASSUME NEW b, NEW d, NEW b2, NEW d2, NEW a, NEW lo, NEW mid, NEW hi,
           Moved(a, lo, mid, hi, b, d, b2, d2)
    PROVE  /\ \A f : SeenOf(f, b2, d2) = SeenOf(f, b, d)
           /\ \A n \in Int : LengthOf(n, b2, d2) = LengthOf(n, b, d)
           /\ \A m : MayBe(m, b2, d2) = MayBe(m, b, d)
<1>1. ASSUME NEW o
      PROVE  \/ o \in DOMAIN b /\ o \notin DOMAIN d /\ o \in DOMAIN b2 /\ o \notin DOMAIN d2 /\ b2[o] = b[o]
             \/ o \notin DOMAIN b /\ o \in DOMAIN d /\ o \in DOMAIN b2 /\ o \notin DOMAIN d2 /\ b2[o] = d[o]
             \/ o \notin DOMAIN b /\ o \in DOMAIN d /\ o \notin DOMAIN b2 /\ o \in DOMAIN d2 /\ d2[o] = d[o]
             \/ o \notin DOMAIN b /\ o \notin DOMAIN d /\ o \notin DOMAIN b2 /\ o \notin DOMAIN d2
  BY SMTT(30) DEF Moved
<1>2. ASSUME NEW f
      PROVE  SeenOf(f, b2, d2) = SeenOf(f, b, d)
  <2>1. ASSUME NEW o \in Positions
        PROVE  (IF o \in DOMAIN d2 THEN d2[o] ELSE J!OS!Over(f, b2)[o])
               = (IF o \in DOMAIN d THEN d[o] ELSE J!OS!Over(f, b)[o])
    <3>1. /\ J!OS!Over(f, b2)[o] = IF o \in DOMAIN b2 THEN b2[o] ELSE f[o]
          /\ J!OS!Over(f, b)[o] = IF o \in DOMAIN b THEN b[o] ELSE f[o]
      BY SameNames DEF J!OS!Over
    <3> QED BY <1>1, <3>1
  <2>2. PICK g : g = J!OS!Over(f, b)
    OBVIOUS
  <2>3. PICK h : h = J!OS!Over(f, b2)
    OBVIOUS
  <2>4. /\ J!OS!Over(g, d) = [o \in Positions |-> IF o \in DOMAIN d THEN d[o] ELSE g[o]]
        /\ J!OS!Over(h, d2) = [o \in Positions |-> IF o \in DOMAIN d2 THEN d2[o] ELSE h[o]]
    BY SameNames DEF J!OS!Over
  <2> QED BY <2>1, <2>2, <2>3, <2>4 DEF SeenOf
<1>3. ASSUME NEW n \in Int
      PROVE  LengthOf(n, b2, d2) = LengthOf(n, b, d)
  <2>1. PICK e : e = J!OS!Extent(b, n)
    OBVIOUS
  <2>2. PICK e2 : e2 = J!OS!Extent(b2, n)
    OBVIOUS
  <2>3. e = IF a < lo /\ n < lo THEN lo ELSE n
    BY SMTT(30), <2>1, Extents DEF Moved
  <2>4. e2 = IF a < mid /\ n < mid THEN mid ELSE n
    BY SMTT(30), <2>2, Extents DEF Moved
  <2>5. e \in Int /\ e2 \in Int
    BY SMTT(30), <2>3, <2>4 DEF Moved
  <2>6. J!OS!Extent(d, e) = IF lo < hi /\ e < hi THEN hi ELSE e
    BY SMTT(30), <2>5, Extents DEF Moved
  <2>7. J!OS!Extent(d2, e2) = IF mid < hi /\ e2 < hi THEN hi ELSE e2
    BY SMTT(30), <2>5, Extents DEF Moved
  <2>8. J!OS!Extent(d, e) = J!OS!Extent(d2, e2)
    BY SMTT(30), <2>3, <2>4, <2>5, <2>6, <2>7 DEF Moved
  <2> QED BY <2>1, <2>2, <2>8 DEF LengthOf
<1>4. ASSUME NEW o \in Positions
      PROVE  {b2[p] : p \in DOMAIN b2 \cap {o}} \cup {d2[p] : p \in DOMAIN d2 \cap {o}}
             = {b[p] : p \in DOMAIN b \cap {o}} \cup {d[p] : p \in DOMAIN d \cap {o}}
  <2>1. ASSUME NEW g
        PROVE  {g[p] : p \in DOMAIN g \cap {o}} = IF o \in DOMAIN g THEN {g[o]} ELSE {}
    OBVIOUS
  <2> QED BY <1>1, <2>1
<1>5. ASSUME NEW m
      PROVE  MayBe(m, b2, d2) = MayBe(m, b, d)
  <2>1. ASSUME NEW o \in Positions
        PROVE  m[o] \cup {b2[p] : p \in DOMAIN b2 \cap {o}} \cup {d2[p] : p \in DOMAIN d2 \cap {o}}
               = m[o] \cup {b[p] : p \in DOMAIN b \cap {o}} \cup {d[p] : p \in DOMAIN d \cap {o}}
    BY <1>4
  <2> QED BY <2>1 DEF MayBe
<1> QED BY <1>2, <1>3, <1>5

\* The lengths that a failure may leave, when a part of the way to s is done.
LEMMA SizesJoin ==
    ASSUME NEW n \in Int, NEW n1 \in Int, NEW s \in Int, n <= n1, n1 <= s
    PROVE  (n .. n1) \cup (n1 .. s) = n .. s
BY SMTT(30)

(***************************************************************************)
(* The invariant of the journal file.                                      *)
(***************************************************************************)

\* The operating system's file: what it holds may survive a failure, and it is
\* zero behind its end and behind every end that it may have after a failure.
OsInv ==
    /\ disk \in [Positions -> JournalBytes]
    /\ length \in -1 .. MaxSize
    /\ media \in [Positions -> SUBSET JournalBytes]
    /\ lengths \subseteq -1 .. MaxSize
    /\ length \in lengths
    /\ \A o \in Positions : disk[o] \in media[o]
    /\ \A o \in Positions : o >= length => disk[o] = Zero
    /\ \A s \in lengths : \A o \in Positions : o >= s => Zero \in media[o]

\* The buffer lies within a file, and what is still to be copied is an interval.
BufferInv ==
    /\ aBuffer \in [0 .. BufferSize - 1 -> JournalBytes]
    /\ nBuffer \in 0 .. BufferSize
    /\ iBufferOfst \in 0 .. MaxSize
    /\ iBufferOfst + nBuffer <= MaxSize
    /\ z \in Ranges(JournalBytes)

\* Only an open journal file has something in its buffer; between two operations
\* nothing is left to be copied, and before fsync() the buffer is empty.
HandleInv ==
    /\ handle # "buffered" => nBuffer = 0 /\ z = J!Nothing
    /\ handle # "closed" => length # -1
    /\ z # J!Nothing => j_reply = J!Pending("write")
    /\ j_reply = J!Pending("sync") => nBuffer = 0 /\ z = J!Nothing

JInv == OsInv /\ BufferInv /\ HandleInv

\* The bounds of the model are numbers.
LEMMA Bounds ==
    /\ MaxSize \in Nat /\ MaxSize > 0 /\ BufferSize \in Nat /\ BufferSize > 0 /\ Zero \in JournalBytes
    /\ \A o \in Positions : o \in Int
    /\ \A n \in -1 .. MaxSize : n \in Int
BY SMTT(30), JournalAssumption DEF Positions

\* How far a file reaches after a write.
LEMMA ExtentBounds ==
    ASSUME NEW d \in Ranges(JournalBytes), NEW n \in -1 .. MaxSize
    PROVE  /\ J!OS!Extent(d, n) \in -1 .. MaxSize
           /\ n <= J!OS!Extent(d, n)
           /\ \A o \in DOMAIN d : o < J!OS!Extent(d, n) /\ o \in Positions
<1>1. PICK lo, hi \in 0 .. MaxSize : lo <= hi /\ d \in [lo .. hi - 1 -> JournalBytes]
  BY RangeIs
<1>2. DOMAIN d = lo .. hi - 1
  BY <1>1
<1>3. lo \in Int /\ hi \in Int /\ n \in Int
  BY SMTT(30), Bounds
<1>4. J!OS!Extent(d, n) = IF lo < hi /\ n < hi THEN hi ELSE n
  BY SMTT(30), <1>2, <1>3, Extents
<1> QED BY SMTT(30), <1>1, <1>2, <1>3, <1>4, Bounds DEF Positions

\* The bytes of a write.
LEMMA RangeBytes ==
    ASSUME NEW d \in Ranges(JournalBytes)
    PROVE  \A o \in DOMAIN d : d[o] \in JournalBytes /\ o \in Positions
<1>1. PICK lo, hi \in 0 .. MaxSize : lo <= hi /\ d \in [lo .. hi - 1 -> JournalBytes]
  BY RangeIs
<1>2. \A o \in DOMAIN d : d[o] \in JournalBytes
  BY <1>1
<1>3. \A o \in lo .. hi - 1 : o \in Positions
  BY SMTT(30), Bounds DEF Positions
<1> QED BY <1>1, <1>2, <1>3

\* A write keeps the operating system's file in order.
LEMMA PutKeeps ==
    ASSUME OsInv, NEW d \in Ranges(JournalBytes), J!OS!Put(d)
    PROVE  OsInv' /\ length' # -1 /\ length <= length'
<1>1. /\ disk' = [o \in Positions |-> IF o \in DOMAIN d THEN d[o] ELSE disk[o]]
      /\ length' = J!OS!Extent(d, length)
      /\ media' = [o \in Positions |-> IF o \in DOMAIN d THEN media[o] \cup {d[o]} ELSE media[o]]
      /\ lengths' = lengths \cup (length .. length')
      /\ length # -1
  BY SameNames DEF J!OS!Put, J!OS!Over
<1>2. /\ length' \in -1 .. MaxSize /\ length <= length'
      /\ \A o \in DOMAIN d : o < length' /\ o \in Positions
  BY <1>1, ExtentBounds DEF OsInv
<1>3. length' # -1 /\ length .. length' \subseteq -1 .. MaxSize /\ length' \in length .. length'
  BY SMTT(30), <1>1, <1>2, Bounds DEF OsInv
<1>4. ASSUME NEW o \in Positions
      PROVE  /\ disk'[o] \in JournalBytes /\ media'[o] \in SUBSET JournalBytes
             /\ disk'[o] \in media'[o]
  BY <1>1, RangeBytes DEF OsInv
<1>5. ASSUME NEW o \in Positions, o >= length'
      PROVE  disk'[o] = Zero
  <2>1. o \notin DOMAIN d /\ o >= length
    BY SMTT(30), <1>2, <1>5, Bounds DEF OsInv
  <2> QED BY <1>1, <2>1 DEF OsInv
<1>6. disk' \in [Positions -> JournalBytes] /\ media' \in [Positions -> SUBSET JournalBytes]
  BY <1>1, <1>4
<1>7. lengths' \subseteq -1 .. MaxSize /\ length' \in lengths'
  BY <1>1, <1>3 DEF OsInv
<1>8. ASSUME NEW s \in lengths', NEW o \in Positions, o >= s
      PROVE  Zero \in media'[o]
  <2>1. media[o] \subseteq media'[o]
    BY <1>1
  <2>2. CASE s \in lengths
    BY <1>8, <2>1, <2>2 DEF OsInv
  <2>3. CASE s \in length .. length'
    <3>1. o >= length
      BY SMTT(30), <1>2, <1>8, <2>3, Bounds DEF OsInv
    <3> QED BY <2>1, <3>1 DEF OsInv
  <2> QED BY <1>1, <2>2, <2>3
<1> QED BY <1>2, <1>3, <1>4, <1>5, <1>6, <1>7, <1>8 DEF OsInv

\* What the buffer holds is an interval of offsets.
LEMMA BufferedIs ==
    ASSUME BufferInv
    PROVE  /\ J!Buffered \in [iBufferOfst .. iBufferOfst + nBuffer - 1 -> JournalBytes]
           /\ J!Buffered \in Ranges(JournalBytes)
           /\ nBuffer = 0 => J!Buffered = J!Nothing
<1>1. \A o \in iBufferOfst .. iBufferOfst + nBuffer - 1 : o - iBufferOfst \in 0 .. BufferSize - 1
  BY SMTT(30), Bounds DEF BufferInv
<1>2. J!Buffered \in [iBufferOfst .. iBufferOfst + nBuffer - 1 -> JournalBytes]
  BY <1>1 DEF J!Buffered, BufferInv
<1>3. /\ iBufferOfst \in 0 .. MaxSize /\ iBufferOfst + nBuffer \in 0 .. MaxSize
      /\ iBufferOfst <= iBufferOfst + nBuffer
  BY SMTT(30), Bounds DEF BufferInv
<1>4. J!Buffered \in Ranges(JournalBytes)
  <2>1. PICK a, h : a = iBufferOfst /\ h = iBufferOfst + nBuffer
    OBVIOUS
  <2>2. a \in 0 .. MaxSize /\ h \in 0 .. MaxSize /\ a <= h
    BY <1>3, <2>1
  <2>3. h - 1 = iBufferOfst + nBuffer - 1
    BY SMTT(30), <2>1, Bounds DEF BufferInv
  <2>4. J!Buffered \in [a .. h - 1 -> JournalBytes]
    BY <1>2, <2>1, <2>3
  <2> QED BY <2>2, <2>4, RangeIs
<1>5. ASSUME nBuffer = 0
      PROVE  J!Buffered = J!Nothing
  <2>1. iBufferOfst .. iBufferOfst + nBuffer - 1 = {}
    BY SMTT(30), <1>5, Bounds DEF BufferInv
  <2> QED BY <1>2, <2>1, NothingOver
<1> QED BY <1>2, <1>4, <1>5

\* An emptied buffer holds nothing.
LEMMA EmptyBuffer ==
    ASSUME nBuffer' = 0, iBufferOfst' \in Int
    PROVE  J!Buffered' = J!Nothing
<1>1. PICK a \in Int : a = iBufferOfst'
  OBVIOUS
<1>2. a .. a + 0 - 1 = {}
  BY SMTT(30)
<1> QED BY <1>1, <1>2 DEF J!Buffered, J!Nothing

(***************************************************************************)
(* What a flush, a failed flush and a crash do to the file as it is seen.  *)
(***************************************************************************)

\* Without a buffer and a write, the file is the operating system's.
LEMMA QuietLayers ==
    /\ \A f : f = [o \in Positions |-> f[o]] => SeenOf(f, J!Nothing, J!Nothing) = f
    /\ \A n : LengthOf(n, J!Nothing, J!Nothing) = n
    /\ \A m : m = [o \in Positions |-> m[o]] => MayBe(m, J!Nothing, J!Nothing) = m
    /\ \A ls : \A n \in Int : n \in ls => ls \cup (n .. n) = ls
<1>1. ASSUME NEW f, f = [o \in Positions |-> f[o]]
      PROVE  SeenOf(f, J!Nothing, J!Nothing) = f
  BY <1>1, NothingOver DEF SeenOf
<1>2. \A n : LengthOf(n, J!Nothing, J!Nothing) = n
  BY NothingOver DEF LengthOf
<1>3. ASSUME NEW m, m = [o \in Positions |-> m[o]]
      PROVE  MayBe(m, J!Nothing, J!Nothing) = m
  <2>1. ASSUME NEW o \in Positions
        PROVE  m[o] \cup {J!Nothing[p] : p \in DOMAIN J!Nothing \cap {o}}
                    \cup {J!Nothing[p] : p \in DOMAIN J!Nothing \cap {o}} = m[o]
    BY NothingOver
  <2>2. MayBe(m, J!Nothing, J!Nothing) = [o \in Positions |-> m[o]]
    BY <2>1 DEF MayBe
  <2> QED BY <1>3, <2>2
<1>4. ASSUME NEW ls, NEW n \in Int, n \in ls
      PROVE  ls \cup (n .. n) = ls
  <2>1. n .. n = {n}
    BY SMTT(30)
  <2> QED BY <1>4, <2>1
<1> QED BY <1>1, <1>2, <1>3, <1>4

\* The same of the variables.
LEMMA QuietNow ==
    ASSUME OsInv, J!Buffered = J!Nothing, z = J!Nothing
    PROVE  J!Seen = disk /\ J!SeenLength = length /\ Survivors = media /\ Sizes = lengths
<1>1. /\ disk = [o \in Positions |-> disk[o]] /\ media = [o \in Positions |-> media[o]]
      /\ length \in Int /\ length \in lengths
  BY Bounds DEF OsInv
<1>3. J!SeenLength = length
  BY <1>1, QuietLayers, LayersSeen
<1>4. J!Seen = disk
  BY <1>1, QuietLayers, LayersSeen
<1>5. Survivors = media
  BY <1>1, QuietLayers DEF Survivors
<1>6. Sizes = lengths
  BY <1>1, <1>3, QuietLayers DEF Sizes
<1> QED BY <1>3, <1>4, <1>5, <1>6

\* The same of the variables after a step.
LEMMA QuietNext ==
    ASSUME OsInv', J!Buffered' = J!Nothing, z' = J!Nothing
    PROVE  J!Seen' = disk' /\ J!SeenLength' = length' /\ Survivors' = media' /\ Sizes' = lengths'
<1>1. /\ disk' = [o \in Positions |-> disk'[o]] /\ media' = [o \in Positions |-> media'[o]]
      /\ length' \in Int /\ length' \in lengths'
  BY Bounds DEF OsInv
<1>2. J!SeenLength' = length'
  BY <1>1, QuietLayers, LayersSeenNext
<1>4. J!Seen' = disk'
  BY <1>1, QuietLayers, LayersSeenNext
<1>5. Survivors' = media'
  BY <1>1, QuietLayers DEF Survivors
<1>6. Sizes' = lengths'
  BY <1>1, <1>2, QuietLayers DEF Sizes
<1> QED BY <1>2, <1>4, <1>5, <1>6

\* The file that the abstract specification speaks of.
SameFile == UNCHANGED <<J!Seen, J!SeenLength, Survivors, Sizes>>

\* The tuple that PlainFile keeps unchanged.
LEMMA FileIs ==
    /\ J!File!file = <<J!Seen, J!SeenLength, Survivors, Sizes>>
    /\ SameFile <=> UNCHANGED J!File!file
<1>1. J!File!file = <<J!Seen, J!SeenLength, Survivors, Sizes>>
  BY SameNames DEF J!File!file, Survivors, Sizes, MayBe
<1>2. J!File!file' = <<J!Seen', J!SeenLength', Survivors', Sizes'>>
  BY SameNames DEF J!File!file, Survivors, Sizes, MayBe
<1> QED BY <1>1, <1>2 DEF SameFile

\* How far the file reaches as it is seen.
LEMMA SeenLengthIs ==
    ASSUME OsInv, BufferInv
    PROVE  /\ J!SeenLength \in -1 .. MaxSize
           /\ J!OS!Extent(J!Buffered, length) \in -1 .. MaxSize
           /\ length <= J!OS!Extent(J!Buffered, length)
           /\ J!OS!Extent(J!Buffered, length) <= J!SeenLength
           /\ length <= J!SeenLength
<1>1. PICK e : e = J!OS!Extent(J!Buffered, length)
  OBVIOUS
<1>2. e \in -1 .. MaxSize /\ length <= e
  BY <1>1, BufferedIs, ExtentBounds DEF OsInv
<1>3. J!SeenLength = J!OS!Extent(z, e)
  BY <1>1 DEF J!SeenLength
<1>4. J!SeenLength \in -1 .. MaxSize /\ e <= J!SeenLength
  BY <1>2, <1>3, ExtentBounds DEF BufferInv
<1>5. length <= J!SeenLength
  BY SMTT(30), <1>2, <1>4, Bounds DEF OsInv
<1> QED BY <1>1, <1>2, <1>4, <1>5

\* A flush, before a read, a sync, a close or a copy, cannot be seen: the file
\* below then holds what the buffer held.
LEMMA FlushedIs ==
    ASSUME OsInv, BufferInv, J!WriteBuffer
    PROVE  /\ OsInv' /\ (length # -1 => length' # -1)
           /\ SeenOf(disk', J!Nothing, z) = J!Seen
           /\ LengthOf(length', J!Nothing, z) = J!SeenLength
           /\ MayBe(media', J!Nothing, z) = Survivors
           /\ lengths' \cup (length' .. J!SeenLength) = Sizes
<1>1. CASE nBuffer = 0
  <2>1. UNCHANGED <<disk, length, media, lengths>>
    BY <1>1 DEF J!WriteBuffer, J!osfile
  <2>2. J!Buffered = J!Nothing
    BY <1>1, BufferedIs
  <2>3. OsInv'
    BY <2>1 DEF OsInv
  <2> QED BY <2>1, <2>2, <2>3, LayersSeen DEF Survivors, Sizes
<1>2. CASE nBuffer # 0
  <2>1. J!OS!Put(J!Buffered)
    BY <1>2 DEF J!WriteBuffer
  <2>2. OsInv' /\ length' # -1 /\ length <= length'
    BY <2>1, BufferedIs, PutKeeps
  <2>3. /\ disk' = J!OS!Over(disk, J!Buffered) /\ length' = J!OS!Extent(J!Buffered, length)
        /\ media' = Added(media, J!Buffered) /\ lengths' = lengths \cup (length .. length')
    BY <2>1, SameNames DEF J!OS!Put, Added
  <2>4. SeenOf(disk', J!Nothing, z) = J!Seen
    BY <2>3, FlushLayers, LayersSeen
  <2>5. LengthOf(length', J!Nothing, z) = J!SeenLength
    BY <2>3, FlushLayers, LayersSeen
  <2>6. MayBe(media', J!Nothing, z) = Survivors
    BY <2>3, FlushLayers DEF Survivors
  <2>7. (length .. length') \cup (length' .. J!SeenLength) = length .. J!SeenLength
    <3>1. length \in Int /\ length' \in Int /\ J!SeenLength \in Int /\ length' <= J!SeenLength
      BY <2>2, <2>3, SeenLengthIs, Bounds DEF OsInv
    <3> QED BY <2>2, <3>1, SizesJoin
  <2>8. lengths' \cup (length' .. J!SeenLength) = Sizes
    BY <2>3, <2>7 DEF Sizes
  <2> QED BY <2>2, <2>4, <2>5, <2>6, <2>8
<1> QED BY <1>1, <1>2

\* The file is the same when its layers show the same.
LEMMA SameLayers ==
    ASSUME NEW b, J!Buffered' = b, SeenOf(disk', b, z') = J!Seen,
           LengthOf(length', b, z') = J!SeenLength, MayBe(media', b, z') = Survivors,
           lengths' \cup (length' .. J!SeenLength) = Sizes
    PROVE  SameFile
<1>1. J!Seen' = J!Seen /\ J!SeenLength' = J!SeenLength
  BY LayersSeenNext
<1>2. Survivors' = Survivors
  BY DEF Survivors
<1>3. Sizes' = Sizes
  BY <1>1 DEF Sizes
<1> QED BY <1>1, <1>2, <1>3 DEF SameFile

\* A flush that is a step of its own.
LEMMA FlushKeeps ==
    ASSUME OsInv, BufferInv, J!WriteBuffer, J!Buffered' = J!Nothing, z' = z
    PROVE  OsInv' /\ SameFile /\ (length # -1 => length' # -1)
BY FlushedIs, SameLayers

\* The beginning of a write is a write.
LEMMA PrefixIs ==
    ASSUME NEW d \in Ranges(JournalBytes), NEW h \in DOMAIN d, NEW e,
           e = [o \in {p \in DOMAIN d : p <= h} |-> d[o]]
    PROVE  /\ e \in J!OS!Data /\ e \in Ranges(JournalBytes)
           /\ \A o \in DOMAIN e : o \in DOMAIN d /\ e[o] = d[o]
           /\ \A n \in -1 .. MaxSize : J!OS!Extent(e, n) <= J!OS!Extent(d, n)
<1>1. PICK lo, hi \in 0 .. MaxSize : lo <= hi /\ d \in [lo .. hi - 1 -> JournalBytes]
  BY RangeIs
<1>2. DOMAIN d = lo .. hi - 1
  BY <1>1
<1>3. lo \in Int /\ hi \in Int /\ h \in Int
  BY SMTT(30), <1>2, Bounds
<1>4. PICK k : k = h + 1
  OBVIOUS
<1>5. k \in 0 .. MaxSize /\ lo < k /\ k <= hi /\ k \in Int /\ lo <= k
  BY SMTT(30), <1>1, <1>2, <1>3, <1>4, Bounds
<1>6. {p \in DOMAIN d : p <= h} = lo .. k - 1
  BY SMTT(30), <1>2, <1>3, <1>4, <1>5
<1>7. \A o \in lo .. k - 1 : o \in DOMAIN d /\ d[o] \in JournalBytes
  BY <1>1, <1>6
<1>8. e \in [lo .. k - 1 -> JournalBytes] /\ \A o \in DOMAIN e : o \in DOMAIN d /\ e[o] = d[o]
  BY <1>6, <1>7
<1>9. e \in J!OS!Data /\ e \in Ranges(JournalBytes)
  BY <1>5, <1>8, DataIs, RangeIs
<1>10. ASSUME NEW n \in -1 .. MaxSize
       PROVE  J!OS!Extent(e, n) <= J!OS!Extent(d, n)
  <2>1. DOMAIN e = lo .. k - 1 /\ n \in Int
    BY <1>8, Bounds
  <2>2. J!OS!Extent(e, n) = IF lo < k /\ n < k THEN k ELSE n
    BY <1>3, <1>5, <2>1, Extents
  <2>3. J!OS!Extent(d, n) = IF lo < hi /\ n < hi THEN hi ELSE n
    BY SMTT(30), <1>2, <1>3, <2>1, Extents
  <2> QED BY SMTT(30), <1>3, <1>5, <2>1, <2>2, <2>3
<1> QED BY <1>8, <1>9, <1>10

\* What a failed write leaves was there or was to be written.
LEMMA WriteFailsKeeps ==
    ASSUME OsInv, NEW d \in Ranges(JournalBytes), J!DirectWriteFails(d)
    PROVE  /\ OsInv' /\ (length # -1 => length' # -1)
           /\ lengths' \subseteq lengths \cup (length .. J!OS!Extent(d, length))
           /\ \A o \in Positions : media'[o] \subseteq media[o] \cup {d[p] : p \in DOMAIN d \cap {o}}
           /\ UNCHANGED J!osfile \/ \E e \in J!OS!Data : J!OS!Put(e)
<1>1. CASE UNCHANGED J!osfile
  <2>1. UNCHANGED <<disk, length, media, lengths>>
    BY <1>1 DEF J!osfile
  <2>2. OsInv'
    BY <2>1 DEF OsInv
  <2> QED BY <1>1, <2>1, <2>2
<1>2. CASE \E h \in DOMAIN d : J!OS!Put([o \in {p \in DOMAIN d : p <= h} |-> d[o]])
  <2>1. PICK h \in DOMAIN d : J!OS!Put([o \in {p \in DOMAIN d : p <= h} |-> d[o]])
    BY <1>2
  <2>2. PICK e : e = [o \in {p \in DOMAIN d : p <= h} |-> d[o]]
    OBVIOUS
  <2>3. /\ e \in J!OS!Data /\ e \in Ranges(JournalBytes)
        /\ \A o \in DOMAIN e : o \in DOMAIN d /\ e[o] = d[o]
        /\ J!OS!Extent(e, length) <= J!OS!Extent(d, length)
    BY <2>2, PrefixIs DEF OsInv
  <2>4. J!OS!Put(e)
    BY <2>1, <2>2
  <2>5. OsInv' /\ length' # -1
    BY <2>3, <2>4, PutKeeps
  <2>6. /\ length' = J!OS!Extent(e, length) /\ lengths' = lengths \cup (length .. length')
        /\ media' = Added(media, e)
    BY <2>4, SameNames DEF J!OS!Put, Added
  <2>7. length .. length' \subseteq length .. J!OS!Extent(d, length)
    <3>1. J!OS!Extent(d, length) \in Int /\ length \in Int /\ length' \in Int
      BY <2>5, ExtentBounds, Bounds DEF OsInv
    <3>2. length' <= J!OS!Extent(d, length)
      BY <2>3, <2>6
    <3> QED BY SMTT(30), <3>1, <3>2
  <2>8. ASSUME NEW o \in Positions
        PROVE  media'[o] \subseteq media[o] \cup {d[p] : p \in DOMAIN d \cap {o}}
    BY <2>3, <2>6 DEF Added
  <2> QED BY <2>3, <2>4, <2>5, <2>6, <2>7, <2>8
<1> QED BY <1>1, <1>2 DEF J!DirectWriteFails

\* With the buffer and the rest of a write gone, the file is one that a failure
\* may leave.
LEMMA LoseIs ==
    ASSUME OsInv', J!Buffered' = J!Nothing, z' = J!Nothing, lengths' \subseteq Sizes,
           \A o \in Positions : media'[o] \subseteq Survivors[o]
    PROVE  J!File!Lose
<1>1. J!Seen' = disk' /\ J!SeenLength' = length' /\ Survivors' = media' /\ Sizes' = lengths'
  BY QuietNext
<1>2. /\ J!SeenLength' \in Sizes' /\ Sizes' \subseteq Sizes
      /\ \A o \in Positions :
            /\ J!Seen'[o] \in Survivors'[o] /\ Survivors'[o] \subseteq Survivors[o]
            /\ o >= J!SeenLength' => J!Seen'[o] = Zero
  BY <1>1 DEF OsInv
<1> QED BY <1>2, SameNames DEF J!File!Lose, Survivors, Sizes, MayBe

\* A failed flush loses what the buffer and the write held, or a part of it.
LEMMA FlushLoses ==
    ASSUME OsInv, BufferInv, J!DirectWriteFails(J!Buffered), J!Buffered' = J!Nothing, z' = J!Nothing
    PROVE  OsInv' /\ J!File!Lose /\ (length # -1 => length' # -1)
<1>1. PICK b : b = J!Buffered
  OBVIOUS
<1>2. b \in Ranges(JournalBytes) /\ J!DirectWriteFails(b)
  BY <1>1, BufferedIs
<1>3. /\ OsInv' /\ (length # -1 => length' # -1)
      /\ lengths' \subseteq lengths \cup (length .. J!OS!Extent(b, length))
      /\ \A o \in Positions : media'[o] \subseteq media[o] \cup {b[p] : p \in DOMAIN b \cap {o}}
  BY <1>2, WriteFailsKeeps
<1>4. length .. J!OS!Extent(b, length) \subseteq length .. J!SeenLength
  BY SMTT(30), <1>1, SeenLengthIs, Bounds DEF OsInv
<1>5. lengths' \subseteq Sizes
  BY <1>3, <1>4 DEF Sizes
<1>6. \A o \in Positions : media'[o] \subseteq Survivors[o]
  <2>1. ASSUME NEW o \in Positions
        PROVE  media[o] \cup {b[p] : p \in DOMAIN b \cap {o}} \subseteq Survivors[o]
    <3>1. Survivors[o] = media[o] \cup {b[p] : p \in DOMAIN b \cap {o}} \cup {z[p] : p \in DOMAIN z \cap {o}}
      BY <1>1 DEF Survivors, MayBe
    <3> QED BY <3>1
  <2> QED BY <1>3, <2>1
<1> QED BY <1>3, <1>5, <1>6, LoseIs

(***************************************************************************)
(* Every step of the journal file is a step of a plain file, or cannot be  *)
(* seen.                                                                   *)
(***************************************************************************)
Simulates == J!File!FileNext \/ UNCHANGED <<J!File!file, j_reply>>

\* The results of operations.
LEMMA Replies ==
    /\ \A op : J!Error(op).rc = "error" /\ J!Error(op).op = op
    /\ \A op : J!Error(op) # J!Pending("sync") /\ J!OS!Ok(op) # J!Pending("sync")
    /\ \A op, v : J!OS!Result(op, "OK", v) # J!Pending("sync")
    /\ J!Pending("write") # J!Pending("sync") /\ J!Pending("write").rc = "pending"
    /\ J!OS!Restarted # J!Pending("sync")
    /\ \A op : J!Pending(op) = J!OS!Result(op, "pending", 0)
BY DEF J!Error, J!Pending, J!OS!Result, J!OS!Ok, J!OS!Restarted

\* Between two operations nothing is left to be copied.
LEMMA ReadyIs ==
    ASSUME HandleInv, J!Ready
    PROVE  z = J!Nothing
BY Replies DEF HandleInv, J!Ready

\* An empty interval.
LEMMA NothingInRange == J!Nothing \in Ranges(JournalBytes)
<1>1. 0 \in 0 .. MaxSize /\ 0 <= 0 /\ 0 .. 0 - 1 = {}
  BY SMTT(30), Bounds
<1>2. J!Nothing \in [0 .. 0 - 1 -> JournalBytes]
  BY <1>1 DEF J!Nothing
<1> QED BY <1>1, <1>2, RangeIs

\* The buffer after a flush, successful or not.
LEMMA EmptiedIs ==
    ASSUME BufferInv, J!Emptied, z' = J!Nothing
    PROVE  BufferInv' /\ J!Buffered' = J!Nothing /\ nBuffer' = 0
<1>1. nBuffer' = 0 /\ aBuffer' = aBuffer /\ iBufferOfst' = iBufferOfst
  BY DEF J!Emptied
<1>2. nBuffer' \in 0 .. BufferSize /\ iBufferOfst' + nBuffer' <= MaxSize /\ iBufferOfst' \in Int
  BY SMTT(30), <1>1, Bounds DEF BufferInv
<1> QED BY <1>1, <1>2, NothingInRange, EmptyBuffer DEF BufferInv

\* An operation that flushes the buffer first, and what it then sees.
LEMMA FlushStep ==
    ASSUME JInv, J!IsOpen, J!Ready, J!WriteBuffer, J!Emptied, z' = z, handle' \in {handle, "closed"}
    PROVE  JInv' /\ SameFile /\ UNCHANGED J!File!file /\ J!Seen = disk' /\ J!SeenLength = length'
<1>1. z = J!Nothing /\ z' = J!Nothing
  BY ReadyIs DEF JInv
<1>2. BufferInv' /\ J!Buffered' = J!Nothing /\ nBuffer' = 0
  BY <1>1, EmptiedIs DEF JInv
<1>3. OsInv' /\ SameFile /\ (length # -1 => length' # -1)
  BY <1>2, FlushKeeps DEF JInv
<1>4. HandleInv'
  BY <1>1, <1>2, <1>3 DEF HandleInv, JInv, J!IsOpen
<1>5. J!Seen' = disk' /\ J!SeenLength' = length'
  BY <1>1, <1>2, <1>3, QuietNext
<1> QED BY <1>2, <1>3, <1>4, <1>5, FileIs DEF JInv, SameFile

\* An operation whose flush fails.
LEMMA FlushFailStep ==
    ASSUME JInv, J!IsOpen, NEW op, J!FlushFails(op), J!Emptied, z' = J!Nothing, handle' \in {handle, "closed"}
    PROVE  JInv' /\ Simulates
<1>1. BufferInv' /\ J!Buffered' = J!Nothing /\ nBuffer' = 0
  BY EmptiedIs DEF JInv
<1>2. OsInv' /\ J!File!Lose /\ (length # -1 => length' # -1)
  BY <1>1, FlushLoses DEF JInv, J!FlushFails
<1>3. HandleInv'
  BY <1>1, <1>2 DEF HandleInv, JInv, J!IsOpen
<1>4. j_reply'.rc = "error"
  BY Replies DEF J!FlushFails
<1> QED BY <1>1, <1>2, <1>3, <1>4 DEF JInv, Simulates, J!File!FileNext, J!File!Fails

\* An operation that reports an error without a change that can be seen.
LEMMA ErrorStep ==
    ASSUME NEW op, j_reply' = J!Error(op), UNCHANGED J!File!file
    PROVE  Simulates
BY Replies DEF Simulates, J!File!FileNext, J!File!Fails

\* demoClose.
LEMMA CloseStep ==
    ASSUME JInv, J!Close
    PROVE  JInv' /\ Simulates
<1>1. J!IsOpen /\ J!Ready /\ J!Emptied /\ handle' = "closed" /\ z' = z
  BY DEF J!Close
<1>2. CASE J!WriteBuffer /\ j_reply' = J!OS!Ok("close")
  <2>1. JInv' /\ UNCHANGED J!File!file
    BY <1>1, <1>2, FlushStep
  <2>2. j_reply' = J!File!Ok("close")
    BY <1>2, SameNames
  <2> QED BY <2>1, <2>2 DEF Simulates, J!File!FileNext, J!File!Succeeds
<1>3. CASE J!FlushFails("close")
  BY <1>1, <1>3, FlushFailStep, ReadyIs DEF JInv
<1> QED BY <1>2, <1>3 DEF J!Close

\* demoRead flushes, then reads what is seen.
LEMMA ReadStep ==
    ASSUME JInv, NEW lo \in Positions, NEW n \in 1 .. MaxSize - lo, J!Read(lo, n)
    PROVE  JInv' /\ Simulates
<1>1. J!IsOpen /\ J!Ready /\ J!Emptied /\ handle' = handle /\ z' = z
  BY DEF J!Read
<1>2. CASE J!WriteBuffer /\ j_reply' = J!OS!ReadResult(lo, n)'
  <2>1. JInv' /\ UNCHANGED J!File!file /\ J!Seen = disk' /\ J!SeenLength = length'
    BY <1>1, <1>2, FlushStep
  <2>2. j_reply' = J!File!ReadResult(lo, n)
    BY <1>2, <2>1, SameNames DEF J!OS!ReadResult, J!File!ReadResult
  <2>3. j_reply'.op = "read"
    BY <2>2 DEF J!File!ReadResult, J!File!Result
  <2> QED BY <2>1, <2>2, <2>3, SameNames DEF Simulates, J!File!FileNext, J!File!Succeeds
<1>3. CASE J!WriteBuffer /\ j_reply' = J!Error("read")
  BY <1>1, <1>3, FlushStep, ErrorStep
<1>4. CASE J!FlushFails("read")
  BY <1>1, <1>4, FlushFailStep, ReadyIs DEF JInv
<1> QED BY <1>2, <1>3, <1>4 DEF J!Read

\* demoFileSize flushes, then returns the length that is seen.
LEMMA FileSizeStep ==
    ASSUME JInv, J!FileSize
    PROVE  JInv' /\ Simulates
<1>1. J!IsOpen /\ J!Ready /\ J!Emptied /\ handle' = handle /\ z' = z
  BY DEF J!FileSize
<1>2. CASE J!WriteBuffer /\ j_reply' = J!OS!Result("size", "OK", length')
  <2>1. JInv' /\ UNCHANGED J!File!file /\ J!SeenLength = length'
    BY <1>1, <1>2, FlushStep
  <2>2. j_reply' = J!File!Result("size", "OK", J!SeenLength)
    BY <1>2, <2>1, SameNames
  <2> QED BY <2>1, <2>2 DEF Simulates, J!File!FileNext, J!File!Succeeds
<1>3. CASE J!WriteBuffer /\ j_reply' = J!Error("size")
  BY <1>1, <1>3, FlushStep, ErrorStep
<1>4. CASE J!FlushFails("size")
  BY <1>1, <1>4, FlushFailStep, ReadyIs DEF JInv
<1> QED BY <1>2, <1>3, <1>4 DEF J!FileSize

\* demoSync flushes; fsync() comes next.
LEMMA SyncStep ==
    ASSUME JInv, J!Sync
    PROVE  JInv' /\ Simulates
<1>1. J!IsOpen /\ J!Ready /\ J!Emptied /\ handle' = handle /\ z' = z
  BY DEF J!Sync
<1>2. CASE J!WriteBuffer /\ j_reply' = J!Pending("sync")
  <2>1. JInv' /\ UNCHANGED J!File!file
    BY <1>1, <1>2, FlushStep
  <2>2. j_reply' = J!File!Result("sync", "pending", 0)
    BY <1>2, SameNames, Replies
  <2> QED BY <2>1, <2>2 DEF Simulates, J!File!FileNext, J!File!Succeeds
<1>3. CASE J!FlushFails("sync")
  BY <1>1, <1>3, FlushFailStep, ReadyIs DEF JInv
<1> QED BY <1>2, <1>3 DEF J!Sync

\* What the steps of a plain file say of the file as it is seen.
LEMMA FileCreate ==
    ASSUME J!SeenLength = -1, J!SeenLength' = 0, Sizes' = Sizes \cup {0},
           J!Seen' = J!Seen, Survivors' = Survivors
    PROVE  J!File!Create
BY SameNames DEF J!File!Create, Survivors, Sizes, MayBe

\* A write.
LEMMA FilePut ==
    ASSUME NEW d, J!SeenLength # -1, J!Seen' = J!OS!Over(J!Seen, d),
           J!SeenLength' = J!OS!Extent(d, J!SeenLength),
           Survivors' = Added(Survivors, d), Sizes' = Sizes \cup (J!SeenLength .. J!SeenLength')
    PROVE  J!File!Put(d)
BY SameNames DEF J!File!Put, Survivors, Sizes, MayBe, Added

\* A sync.
LEMMA FileDurable ==
    ASSUME Survivors' = [o \in Positions |-> {J!Seen[o]}], Sizes' = {J!SeenLength},
           J!Seen' = J!Seen, J!SeenLength' = J!SeenLength
    PROVE  J!File!MakeDurable
BY SameNames DEF J!File!MakeDurable, Survivors, Sizes, MayBe

\* A deletion.
LEMMA FileRemove ==
    ASSUME NEW durable \in BOOLEAN,
           J!Seen' = [o \in Positions |-> Zero], J!SeenLength' = -1,
           Survivors' = [o \in Positions |-> IF durable THEN {Zero} ELSE Survivors[o] \cup {Zero}],
           Sizes' = IF durable THEN {-1} ELSE Sizes \cup {-1}
    PROVE  J!File!Remove(durable)
BY SameNames DEF J!File!Remove, Survivors, Sizes, MayBe

\* A step that leaves the file and the buffer alone.
LEMMA StillKeeps ==
    ASSUME JInv, UNCHANGED J!osfile, UNCHANGED J!buffer, z' = z
    PROVE  OsInv' /\ BufferInv' /\ SameFile /\ UNCHANGED J!File!file /\ length' = length /\ nBuffer' = nBuffer
<1>1. /\ UNCHANGED <<disk, length, media, lengths>>
      /\ UNCHANGED <<aBuffer, nBuffer, iBufferOfst>>
  BY DEF J!osfile, J!buffer
<1>2. J!Buffered' = J!Buffered
  BY <1>1 DEF J!Buffered
<1>3. OsInv' /\ BufferInv'
  BY <1>1 DEF OsInv, BufferInv, JInv
<1>4. J!Seen' = J!Seen /\ J!SeenLength' = J!SeenLength
  BY <1>1, <1>2, LayersSeen, LayersSeenNext
<1>5. SameFile
  BY <1>1, <1>2, <1>4 DEF SameFile, Survivors, Sizes
<1> QED BY <1>1, <1>3, <1>5, FileIs

\* A closed file has no buffer.
LEMMA ClosedIs ==
    ASSUME JInv, handle # "buffered"
    PROVE  /\ J!Buffered = J!Nothing /\ z = J!Nothing /\ nBuffer = 0
           /\ J!Seen = disk /\ J!SeenLength = length /\ Survivors = media /\ Sizes = lengths
<1>1. nBuffer = 0 /\ z = J!Nothing
  BY DEF JInv, HandleInv
<1>2. J!Buffered = J!Nothing
  BY <1>1, BufferedIs DEF JInv
<1> QED BY <1>1, <1>2, QuietNow DEF JInv

\* demoAccess asks the operating system: whatever the buffer holds, the answer is right.
LEMMA AccessStep ==
    ASSUME JInv, J!Access
    PROVE  JInv' /\ Simulates
<1>1. /\ J!Ready /\ j_reply' = J!OS!Result("access", "OK", length # J!NoFile)
      /\ UNCHANGED J!osfile /\ UNCHANGED J!buffer /\ z' = z /\ handle' = handle
  BY DEF J!Access
<1>2. OsInv' /\ BufferInv' /\ UNCHANGED J!File!file /\ length' = length /\ nBuffer' = nBuffer
  BY <1>1, StillKeeps
<1>3. z = J!Nothing /\ j_reply' # J!Pending("sync")
  BY <1>1, ReadyIs, Replies DEF JInv
<1>4. HandleInv'
  BY <1>1, <1>2, <1>3 DEF HandleInv, JInv
<1>5. (length # -1) = (J!SeenLength # -1)
  <2>1. CASE handle = "closed"
    BY <2>1, ClosedIs
  <2>2. CASE handle # "closed"
    <3>1. length # -1 /\ length \in -1 .. MaxSize
      BY <2>2 DEF HandleInv, JInv, OsInv
    <3>2. length <= J!SeenLength /\ J!SeenLength \in -1 .. MaxSize
      BY SeenLengthIs DEF JInv
    <3>3. J!SeenLength # -1
      BY SMTT(30), <3>1, <3>2, Bounds
    <3> QED BY <3>1, <3>3
  <2> QED BY <2>1, <2>2
<1>6. j_reply' = J!File!Result("access", "OK", J!SeenLength # J!File!NoFile)
  BY <1>1, <1>5, SameNames
<1> QED BY <1>2, <1>4, <1>6 DEF JInv, Simulates, J!File!FileNext, J!File!Succeeds

\* demoOpen fails.
LEMMA OpenFailsStep ==
    ASSUME JInv, J!OpenFails
    PROVE  JInv' /\ Simulates
<1>1. /\ handle = "closed" /\ handle' = handle /\ z' = z /\ j_reply' = J!Error("open")
      /\ UNCHANGED J!osfile /\ UNCHANGED J!buffer
  BY DEF J!OpenFails, J!IsOpen
<1>2. OsInv' /\ BufferInv' /\ UNCHANGED J!File!file /\ length' = length /\ nBuffer' = nBuffer
  BY <1>1, StillKeeps
<1>3. HandleInv'
  BY <1>1, <1>2, ClosedIs DEF HandleInv
<1> QED BY <1>1, <1>2, <1>3, ErrorStep DEF JInv

\* demoOpen, of a file that exists or has to be created.
LEMMA OpenStep ==
    ASSUME JInv, NEW journal_ \in BOOLEAN, NEW create \in BOOLEAN, NEW exclusive \in BOOLEAN,
           J!Open(journal_, create, exclusive)
    PROVE  JInv' /\ Simulates
<1>1. /\ handle = "closed" /\ z' = z /\ j_reply' = J!OS!Ok("open")
      /\ nBuffer' = 0 /\ iBufferOfst' = 0 /\ aBuffer' = aBuffer
      /\ IF length = -1 THEN J!OS!Create ELSE UNCHANGED J!osfile
  BY SameNames DEF J!Open, J!IsOpen
<1>2. /\ J!Buffered = J!Nothing /\ z = J!Nothing /\ nBuffer = 0
      /\ J!Seen = disk /\ J!SeenLength = length /\ Survivors = media /\ Sizes = lengths
  BY <1>1, ClosedIs
<1>3. J!Buffered' = J!Nothing /\ z' = J!Nothing
  <2>1. 0 \in Int
    BY SMTT(30)
  <2> QED BY <1>1, <1>2, <2>1, EmptyBuffer
<1>4. BufferInv'
  <2>1. 0 \in 0 .. BufferSize /\ 0 \in 0 .. MaxSize /\ 0 + 0 <= MaxSize
    BY SMTT(30), Bounds
  <2> QED BY <1>1, <2>1 DEF BufferInv, JInv
<1>5. OsInv' /\ length' # -1 /\ (J!File!Create \/ (J!SeenLength # -1 /\ UNCHANGED J!File!file))
  <2>1. CASE length = -1
    <3>1. /\ length' = 0 /\ lengths' = lengths \cup {0} /\ disk' = disk /\ media' = media
      BY <1>1, <2>1 DEF J!OS!Create
    <3>2. 0 \in -1 .. MaxSize /\ 0 # -1 /\ \A o \in Positions : o >= -1
      BY SMTT(30), Bounds DEF Positions
    <3>3. OsInv'
      BY <2>1, <3>1, <3>2 DEF OsInv, JInv
    <3>4. J!Seen' = disk' /\ J!SeenLength' = length' /\ Survivors' = media' /\ Sizes' = lengths'
      BY <1>3, <3>3, QuietNext
    <3>5. J!File!Create
      BY <1>2, <2>1, <3>1, <3>4, FileCreate
    <3> QED BY <3>1, <3>2, <3>3, <3>5
  <2>2. CASE length # -1
    <3>1. UNCHANGED <<disk, length, media, lengths>>
      BY <1>1, <2>2 DEF J!osfile
    <3>2. OsInv'
      BY <3>1 DEF OsInv, JInv
    <3>3. J!Seen' = disk' /\ J!SeenLength' = length' /\ Survivors' = media' /\ Sizes' = lengths'
      BY <1>3, <3>2, QuietNext
    <3>4. SameFile
      BY <1>2, <3>1, <3>3 DEF SameFile
    <3> QED BY <1>2, <2>2, <3>1, <3>2, <3>4, FileIs
  <2> QED BY <2>1, <2>2
<1>6. HandleInv'
  BY <1>1, <1>3, <1>5 DEF HandleInv
<1>7. j_reply' = J!File!Ok("open") /\ J!File!NoFile = -1
  BY <1>1, SameNames
<1>8. Simulates
  BY <1>5, <1>7 DEF Simulates, J!File!FileNext, J!File!Succeeds
<1> QED BY <1>4, <1>5, <1>6, <1>8 DEF JInv

\* The operating system removes a file.
LEMMA RemoveKeeps ==
    ASSUME JInv, handle = "closed", NEW durable \in BOOLEAN, J!OS!Remove(durable),
           UNCHANGED J!buffer, z' = z
    PROVE  OsInv' /\ BufferInv' /\ J!Buffered' = J!Nothing /\ J!File!Remove(durable)
<1>1. /\ J!Buffered = J!Nothing /\ z = J!Nothing
      /\ J!Seen = disk /\ J!SeenLength = length /\ Survivors = media /\ Sizes = lengths
  BY ClosedIs
<1>2. UNCHANGED <<aBuffer, nBuffer, iBufferOfst>>
  BY DEF J!buffer
<1>3. BufferInv' /\ J!Buffered' = J!Nothing
  BY <1>1, <1>2 DEF JInv, BufferInv, J!Buffered
<1>4. /\ disk' = [o \in Positions |-> Zero] /\ length' = -1
      /\ media' = [o \in Positions |-> IF durable THEN {Zero} ELSE media[o] \cup {Zero}]
      /\ lengths' = IF durable THEN {-1} ELSE lengths \cup {-1}
  BY SameNames DEF J!OS!Remove
<1>5. -1 \in -1 .. MaxSize
  BY SMTT(30), Bounds
<1>6. OsInv'
  <2>1. disk' \in [Positions -> JournalBytes]
    BY <1>4, Bounds
  <2>2. media' \in [Positions -> SUBSET JournalBytes]
    BY <1>4, Bounds DEF JInv, OsInv
  <2>3. length' \in -1 .. MaxSize /\ lengths' \subseteq -1 .. MaxSize /\ length' \in lengths'
    BY <1>4, <1>5 DEF JInv, OsInv
  <2>4. \A o \in Positions : disk'[o] \in media'[o] /\ disk'[o] = Zero /\ Zero \in media'[o]
    BY <1>4
  <2> QED BY <2>1, <2>2, <2>3, <2>4 DEF OsInv
<1>7. J!Seen' = disk' /\ J!SeenLength' = length' /\ Survivors' = media' /\ Sizes' = lengths'
  BY <1>1, <1>3, <1>6, QuietNext
<1>8. J!File!Remove(durable)
  BY <1>1, <1>4, <1>7, FileRemove
<1> QED BY <1>3, <1>6, <1>8

\* demoDelete, with and without a sync of the directory.
LEMMA DeleteStep ==
    ASSUME JInv, NEW dirSync \in BOOLEAN, J!Delete(dirSync)
    PROVE  JInv' /\ Simulates
<1>1. handle = "closed" /\ handle' = handle /\ UNCHANGED J!buffer /\ z' = z
  BY DEF J!Delete, J!IsOpen
<1>2. z' = J!Nothing /\ nBuffer' = 0 /\ J!SeenLength = length
  BY <1>1, ClosedIs DEF J!buffer
<1>3. HandleInv'
  BY <1>1, <1>2 DEF HandleInv
<1>4. CASE length = -1 /\ j_reply' = J!OS!Result("delete", "OK", dirSync) /\ UNCHANGED J!osfile
  <2>1. OsInv' /\ BufferInv' /\ UNCHANGED J!File!file
    BY <1>1, <1>4, StillKeeps
  <2>2. j_reply' = J!File!Result("delete", "OK", dirSync) /\ J!SeenLength = J!File!NoFile
    BY <1>2, <1>4, SameNames
  <2> QED BY <1>3, <2>1, <2>2 DEF JInv, Simulates, J!File!FileNext, J!File!Succeeds
<1>5. CASE j_reply' = J!OS!Result("delete", "OK", dirSync) /\ J!OS!Remove(dirSync)
  <2>1. OsInv' /\ BufferInv' /\ J!File!Remove(dirSync)
    BY <1>1, <1>5, RemoveKeeps
  <2>2. j_reply' = J!File!Result("delete", "OK", dirSync)
    BY <1>5, SameNames
  <2> QED BY <1>3, <2>1, <2>2 DEF JInv, Simulates, J!File!FileNext, J!File!Succeeds
<1>6. CASE j_reply' = J!Error("delete") /\ J!OS!Remove(FALSE)
  <2>1. OsInv' /\ BufferInv' /\ J!File!Remove(FALSE)
    BY <1>1, <1>6, RemoveKeeps
  <2>2. j_reply'.rc = "error" /\ j_reply'.op = "delete"
    BY <1>6, Replies
  <2> QED BY <1>3, <2>1, <2>2 DEF JInv, Simulates, J!File!FileNext, J!File!Fails
<1>7. CASE j_reply' = J!Error("delete") /\ UNCHANGED J!osfile
  BY <1>1, <1>3, <1>7, StillKeeps, ErrorStep DEF JInv
<1> QED BY <1>4, <1>5, <1>6, <1>7, SameNames DEF J!Delete

\* A write to a file without a buffer, whole or in part.
LEMMA PutStep ==
    ASSUME JInv, handle = "plain", NEW d \in J!OS!Data, J!OS!Put(d), UNCHANGED J!buffer, z' = z
    PROVE  OsInv' /\ BufferInv' /\ length' # -1 /\ J!File!Put(d)
<1>1. /\ J!Buffered = J!Nothing /\ z = J!Nothing
      /\ J!Seen = disk /\ J!SeenLength = length /\ Survivors = media /\ Sizes = lengths
  BY ClosedIs
<1>2. UNCHANGED <<aBuffer, nBuffer, iBufferOfst>>
  BY DEF J!buffer
<1>3. BufferInv' /\ J!Buffered' = J!Nothing
  BY <1>1, <1>2 DEF JInv, BufferInv, J!Buffered
<1>4. d \in Ranges(JournalBytes)
  BY DataInRange
<1>5. OsInv' /\ length' # -1
  BY <1>4, PutKeeps DEF JInv
<1>6. /\ disk' = J!OS!Over(disk, d) /\ length' = J!OS!Extent(d, length) /\ length # -1
      /\ media' = Added(media, d) /\ lengths' = lengths \cup (length .. length')
  BY SameNames DEF J!OS!Put, Added
<1>7. J!Seen' = disk' /\ J!SeenLength' = length' /\ Survivors' = media' /\ Sizes' = lengths'
  BY <1>1, <1>3, <1>5, QuietNext
<1>8. J!File!Put(d)
  BY <1>1, <1>6, <1>7, FilePut
<1> QED BY <1>3, <1>5, <1>8

\* demoWrite without a buffer.
LEMMA WritePlainStep ==
    ASSUME JInv, NEW d \in J!OS!Data, J!WritePlain(d)
    PROVE  JInv' /\ Simulates
<1>1. handle = "plain" /\ handle' = handle /\ UNCHANGED J!buffer /\ z' = z
  BY DEF J!WritePlain
<1>2. z' = J!Nothing /\ nBuffer' = 0
  BY <1>1, ClosedIs DEF J!buffer
<1>3. ASSUME length' # -1 PROVE HandleInv'
  BY <1>1, <1>2, <1>3 DEF HandleInv
<1>4. CASE J!OS!Put(d) /\ j_reply' = J!OS!Ok("write")
  <2>1. OsInv' /\ BufferInv' /\ length' # -1 /\ J!File!Put(d)
    BY <1>1, <1>4, PutStep
  <2>2. j_reply' = J!File!Ok("write") /\ d \in J!File!Data
    BY <1>4, SameNames
  <2> QED BY <1>3, <2>1, <2>2 DEF JInv, Simulates, J!File!FileNext, J!File!Succeeds
<1>5. CASE J!DirectWriteFails(d) /\ j_reply' = J!Error("write")
  <2>1. UNCHANGED J!osfile \/ \E e \in J!OS!Data : J!OS!Put(e)
    BY <1>5, DataInRange, WriteFailsKeeps DEF JInv
  <2>2. CASE UNCHANGED J!osfile
    <3>1. OsInv' /\ BufferInv' /\ UNCHANGED J!File!file /\ length' = length
      BY <1>1, <2>2, StillKeeps
    <3>2. length # -1
      BY <1>1 DEF JInv, HandleInv
    <3> QED BY <1>3, <1>5, <3>1, <3>2, ErrorStep DEF JInv
  <2>3. CASE \E e \in J!OS!Data : J!OS!Put(e)
    <3>1. PICK e \in J!OS!Data : J!OS!Put(e)
      BY <2>3
    <3>2. OsInv' /\ BufferInv' /\ length' # -1 /\ J!File!Put(e)
      BY <1>1, <3>1, PutStep
    <3>3. j_reply'.rc = "error" /\ j_reply'.op = "write" /\ e \in J!File!Data
      BY <1>5, Replies, SameNames
    <3> QED BY <1>3, <3>2, <3>3 DEF JInv, Simulates, J!File!FileNext, J!File!Fails
  <2> QED BY <2>1, <2>2, <2>3
<1> QED BY <1>4, <1>5 DEF J!WritePlain

\* A write to a journal file begins: from now on the file is seen as written.
LEMMA WriteBufferedStep ==
    ASSUME JInv, NEW d \in J!OS!Data, J!WriteBuffered(d)
    PROVE  JInv' /\ Simulates
<1>1. /\ handle = "buffered" /\ handle' = handle /\ z' = d /\ j_reply' = J!Pending("write") /\ J!Ready
      /\ UNCHANGED <<disk, length, media, lengths>> /\ UNCHANGED <<aBuffer, nBuffer, iBufferOfst>>
  BY DEF J!WriteBuffered, J!osfile, J!buffer
<1>2. z = J!Nothing
  BY <1>1, ReadyIs DEF JInv
<1>3. d \in Ranges(JournalBytes)
  BY DataInRange
<1>4. JInv'
  <2>1. OsInv' /\ BufferInv'
    BY <1>1, <1>3 DEF JInv, OsInv, BufferInv
  <2>2. HandleInv'
    BY <1>1, Replies DEF JInv, HandleInv
  <2> QED BY <2>1, <2>2 DEF JInv
<1>5. PICK b : b = J!Buffered
  OBVIOUS
<1>6. J!Buffered' = b
  BY <1>1, <1>5 DEF J!Buffered
<1>7. J!Seen' = J!OS!Over(J!Seen, d)
  <2>1. J!Seen = J!OS!Over(disk, b)
    BY <1>2, <1>5, NothingOver, LayersSeen DEF SeenOf
  <2> QED BY <1>1, <1>6, <2>1, LayersSeenNext DEF SeenOf
<1>8. J!SeenLength' = J!OS!Extent(d, J!SeenLength)
  <2>1. J!SeenLength = J!OS!Extent(b, length)
    BY <1>2, <1>5, NothingOver, LayersSeen DEF LengthOf
  <2> QED BY <1>1, <1>6, <2>1, LayersSeenNext DEF LengthOf
<1>9. Survivors' = Added(Survivors, d)
  <2>1. ASSUME NEW o \in Positions
        PROVE  media[o] \cup {b[p] : p \in DOMAIN b \cap {o}} \cup {d[p] : p \in DOMAIN d \cap {o}}
               = IF o \in DOMAIN d THEN Survivors[o] \cup {d[o]} ELSE Survivors[o]
    <3>1. Survivors[o] = media[o] \cup {b[p] : p \in DOMAIN b \cap {o}}
      BY <1>2, <1>5, NothingOver DEF Survivors, MayBe
    <3> QED BY <3>1
  <2>2. Survivors' = [o \in Positions |-> media[o] \cup {b[p] : p \in DOMAIN b \cap {o}}
                                                   \cup {d[p] : p \in DOMAIN d \cap {o}}]
    BY <1>1, <1>6 DEF Survivors, MayBe
  <2> QED BY <2>1, <2>2 DEF Added
<1>10. length # -1 /\ length <= J!SeenLength /\ J!SeenLength \in -1 .. MaxSize /\ length \in -1 .. MaxSize
  BY <1>1, SeenLengthIs DEF JInv, HandleInv, OsInv
<1>11. J!SeenLength' \in -1 .. MaxSize /\ J!SeenLength <= J!SeenLength'
  BY <1>3, <1>8, <1>10, ExtentBounds
<1>12. Sizes' = Sizes \cup (J!SeenLength .. J!SeenLength')
  <2>1. (length .. J!SeenLength) \cup (J!SeenLength .. J!SeenLength') = length .. J!SeenLength'
    BY <1>10, <1>11, Bounds, SizesJoin
  <2> QED BY <1>1, <2>1 DEF Sizes
<1>13. J!SeenLength # -1
  BY SMTT(30), <1>10, Bounds
<1>14. J!File!Put(d)
  BY <1>7, <1>8, <1>9, <1>12, <1>13, FilePut
<1>15. j_reply' = J!File!Result("write", "pending", 0) /\ d \in J!File!Data
  BY <1>1, SameNames, Replies
<1> QED BY <1>4, <1>14, <1>15 DEF Simulates, J!File!FileNext, J!File!Succeeds

\* What one turn of demoWrite's loop copies, and where.
LEMMA CopyBounds ==
    ASSUME JInv, J!CopyToBuffer
    PROVE  \E a, lo, mid, hi \in 0 .. MaxSize :
               /\ a <= lo /\ lo < mid /\ mid <= hi
               /\ z \in [lo .. hi - 1 -> JournalBytes]
               /\ J!Copied = lo .. mid - 1
               /\ iBufferOfst' = a /\ nBuffer' = mid - a /\ nBuffer' \in 0 .. BufferSize
               /\ J!i = lo /\ J!Kept = lo - a
               /\ IF J!MustFlush THEN a = lo ELSE a = iBufferOfst /\ iBufferOfst + nBuffer = lo
<1>1. PICK lo, hi \in 0 .. MaxSize : lo <= hi /\ z \in [lo .. hi - 1 -> JournalBytes]
  BY RangeIs DEF JInv, BufferInv
<1>2. lo \in Int /\ hi \in Int
  BY SMTT(30), Bounds
<1>3. lo < hi
  <2>1. SUFFICES ASSUME ~(lo < hi) PROVE FALSE
    OBVIOUS
  <2>2. lo .. hi - 1 = {}
    BY SMTT(30), <1>2, <2>1
  <2>3. z = J!Nothing
    BY <1>1, <2>2, NothingOver
  <2> QED BY <2>3 DEF J!CopyToBuffer
<1>4. J!i = lo
  <2>1. DOMAIN z = lo .. hi - 1
    BY <1>1
  <2>2. PICK e : e = J!i
    OBVIOUS
  <2>3. e = CHOOSE o \in lo .. hi - 1 : \A p \in lo .. hi - 1 : o <= p
    BY <2>1, <2>2 DEF J!i
  <2>4. lo \in lo .. hi - 1 /\ \A p \in lo .. hi - 1 : lo <= p
    BY SMTT(30), <1>2, <1>3
  <2>5. e \in lo .. hi - 1 /\ \A p \in lo .. hi - 1 : e <= p
    BY <2>3, <2>4
  <2>6. e = lo
    BY SMTT(30), <1>2, <2>4, <2>5
  <2> QED BY <2>2, <2>6
<1>5. PICK k : k = J!Kept
  OBVIOUS
<1>6. /\ k \in 0 .. BufferSize - 1
      /\ IF J!MustFlush THEN k = 0 ELSE k = nBuffer /\ iBufferOfst + nBuffer = lo
  <2>1. CASE J!MustFlush
    <3>1. k = 0
      BY <1>5, <2>1 DEF J!Kept
    <3>2. 0 \in 0 .. BufferSize - 1
      BY SMTT(30), Bounds
    <3> QED BY <2>1, <3>1, <3>2
  <2>2. CASE ~J!MustFlush
    <3>1. k = nBuffer /\ nBuffer # BufferSize /\ iBufferOfst + nBuffer = lo
      BY <1>4, <1>5, <2>2 DEF J!Kept, J!MustFlush
    <3>2. nBuffer \in 0 .. BufferSize - 1
      BY SMTT(30), <3>1, Bounds DEF JInv, BufferInv
    <3> QED BY <2>2, <3>1, <3>2
  <2> QED BY <2>1, <2>2
<1>7. PICK n \in 0 .. BufferSize : J!Copied = lo .. lo + n - 1 /\ nBuffer' = k + n /\ iBufferOfst' = lo - k
  BY <1>4, <1>5 DEF J!CopyToBuffer
<1>8. J!Copied = {o \in lo .. hi - 1 : o < lo + BufferSize - k}
  BY <1>1, <1>4, <1>5 DEF J!Copied
<1>9. k \in Int /\ n \in Int
  BY SMTT(30), <1>6, <1>7, Bounds
<1>10. n > 0 /\ lo + n <= hi /\ k + n <= BufferSize
  <2>1. lo \in J!Copied
    BY SMTT(30), <1>2, <1>3, <1>6, <1>8, <1>9, Bounds
  <2>2. n > 0
    BY SMTT(30), <2>1, <1>2, <1>7, <1>9
  <2>3. lo + n - 1 \in J!Copied
    BY SMTT(30), <1>2, <1>7, <1>9, <2>2
  <2>4. lo + n <= hi /\ k + n <= BufferSize
    BY SMTT(30), <1>2, <1>8, <1>9, <2>3, Bounds
  <2> QED BY <2>2, <2>4
<1>11. PICK a, mid : a = lo - k /\ mid = lo + n
  OBVIOUS
<1>12. /\ a \in 0 .. MaxSize /\ mid \in 0 .. MaxSize /\ a <= lo /\ lo < mid /\ mid <= hi
       /\ k = lo - a /\ k + n = mid - a /\ mid - 1 = lo + n - 1 /\ mid - a \in 0 .. BufferSize
       /\ IF J!MustFlush THEN a = lo ELSE a = iBufferOfst /\ iBufferOfst + nBuffer = lo
  <2>1. 0 <= lo - k
    <3>1. CASE J!MustFlush
      BY SMTT(30), <1>2, <1>6, <3>1
    <3>2. CASE ~J!MustFlush
      BY SMTT(30), <1>2, <1>6, <3>2, Bounds DEF JInv, BufferInv
    <3> QED BY <3>1, <3>2
  <2>2. /\ a \in 0 .. MaxSize /\ mid \in 0 .. MaxSize /\ a <= lo /\ lo < mid /\ mid <= hi
        /\ k = lo - a /\ k + n = mid - a /\ mid - 1 = lo + n - 1 /\ mid - a \in 0 .. BufferSize
    BY SMTT(30), <1>1, <1>2, <1>6, <1>9, <1>10, <1>11, <2>1, Bounds
  <2>3. CASE J!MustFlush
    <3>1. a = lo
      BY SMTT(30), <1>2, <1>6, <1>11, <2>3
    <3> QED BY <2>2, <2>3, <3>1
  <2>4. CASE ~J!MustFlush
    <3>1. a = iBufferOfst /\ iBufferOfst + nBuffer = lo
      BY SMTT(30), <1>2, <1>6, <1>11, <2>4, Bounds DEF JInv, BufferInv
    <3> QED BY <2>2, <2>4, <3>1
  <2> QED BY <2>3, <2>4
<1>13. /\ J!Copied = lo .. mid - 1 /\ iBufferOfst' = a /\ nBuffer' = mid - a /\ J!Kept = lo - a
       /\ nBuffer' \in 0 .. BufferSize
  BY <1>5, <1>7, <1>11, <1>12
<1> QED BY <1>1, <1>4, <1>12, <1>13

\* A copy into the buffer, with the flush before it, cannot be seen.
LEMMA CopyStep ==
    ASSUME JInv, J!CopyToBuffer
    PROVE  JInv' /\ Simulates
<1>1. PICK a, lo, mid, hi \in 0 .. MaxSize :
               /\ a <= lo /\ lo < mid /\ mid <= hi
               /\ z \in [lo .. hi - 1 -> JournalBytes]
               /\ J!Copied = lo .. mid - 1
               /\ iBufferOfst' = a /\ nBuffer' = mid - a /\ nBuffer' \in 0 .. BufferSize
               /\ J!i = lo /\ J!Kept = lo - a
               /\ IF J!MustFlush THEN a = lo ELSE a = iBufferOfst /\ iBufferOfst + nBuffer = lo
  BY CopyBounds
<1>2. a \in Int /\ lo \in Int /\ mid \in Int /\ hi \in Int
  BY SMTT(30), Bounds
<1>3. /\ IF J!MustFlush THEN J!WriteBuffer ELSE UNCHANGED J!osfile
      /\ handle = "buffered" /\ handle' = handle /\ z # J!Nothing
      /\ z' = [o \in DOMAIN z \ J!Copied |-> z[o]]
      /\ j_reply' = IF DOMAIN z = J!Copied THEN J!OS!Ok("write") ELSE j_reply
  BY DEF J!CopyToBuffer
<1>4. DOMAIN z = lo .. hi - 1 /\ DOMAIN z \ J!Copied = mid .. hi - 1
  <2>1. DOMAIN z = lo .. hi - 1
    BY <1>1
  <2>2. (lo .. hi - 1) \ (lo .. mid - 1) = mid .. hi - 1
    BY SMTT(30), <1>1, <1>2
  <2> QED BY <1>1, <2>1, <2>2
<1>5. /\ z' \in [mid .. hi - 1 -> JournalBytes]
      /\ \A o \in mid .. hi - 1 : z'[o] = z[o]
  <2>1. z' = [o \in mid .. hi - 1 |-> z[o]]
    BY <1>3, <1>4
  <2>2. \A o \in mid .. hi - 1 : o \in lo .. hi - 1
    BY SMTT(30), <1>1, <1>2
  <2> QED BY <1>1, <2>1, <2>2
<1>6. z' \in Ranges(JournalBytes)
  BY <1>1, <1>5, RangeIs
<1>7. aBuffer' = [k \in 0 .. BufferSize - 1 |->
                     IF lo + k - (lo - a) \in lo .. mid - 1 THEN z[lo + k - (lo - a)] ELSE aBuffer[k]]
  BY <1>1 DEF J!CopyToBuffer
<1>8. ASSUME NEW k \in 0 .. BufferSize - 1
      PROVE  /\ lo + k - (lo - a) = a + k
             /\ aBuffer'[k] = IF a + k \in lo .. mid - 1 THEN z[a + k] ELSE aBuffer[k]
  <2>1. lo + k - (lo - a) = a + k
    BY SMTT(30), <1>2, Bounds
  <2> QED BY <1>7, <2>1
<1>9. aBuffer' \in [0 .. BufferSize - 1 -> JournalBytes]
  <2>1. ASSUME NEW k \in 0 .. BufferSize - 1
        PROVE  aBuffer'[k] \in JournalBytes
    <3>1. \A o \in lo .. mid - 1 : z[o] \in JournalBytes
      <4>1. \A o \in lo .. mid - 1 : o \in lo .. hi - 1
        BY SMTT(30), <1>1, <1>2
      <4> QED BY <1>1, <4>1
    <3>2. aBuffer[k] \in JournalBytes
      BY DEF JInv, BufferInv
    <3> QED BY <1>8, <3>1, <3>2
  <2>2. aBuffer' = [k \in 0 .. BufferSize - 1 |-> aBuffer'[k]]
    BY <1>7
  <2> QED BY <2>1, <2>2
<1>10. BufferInv'
  <2>1. a + (mid - a) <= MaxSize
    BY SMTT(30), <1>2, Bounds
  <2>2. iBufferOfst' + nBuffer' <= MaxSize
    BY <1>1, <2>1
  <2> QED BY <1>1, <1>6, <1>9, <2>2 DEF BufferInv
<1>11. /\ DOMAIN J!Buffered' = a .. mid - 1
       /\ \A o \in a .. mid - 1 : J!Buffered'[o] = IF o \in lo .. mid - 1 THEN z[o] ELSE aBuffer[o - a]
  <2>1. a + (mid - a) - 1 = mid - 1
    BY SMTT(30), <1>2
  <2>2. PICK c : c = aBuffer'
    OBVIOUS
  <2>3. iBufferOfst' + nBuffer' - 1 = mid - 1
    BY SMTT(30), <1>1, <1>2
  <2>4. J!Buffered' = [o \in a .. mid - 1 |-> c[o - a]]
    BY <1>1, <2>2, <2>3 DEF J!Buffered
  <2>5. ASSUME NEW o \in a .. mid - 1
        PROVE  o - a \in 0 .. BufferSize - 1 /\ a + (o - a) = o
    BY SMTT(30), <1>1, <1>2, Bounds
  <2>6. ASSUME NEW o \in a .. mid - 1
        PROVE  c[o - a] = IF o \in lo .. mid - 1 THEN z[o] ELSE aBuffer[o - a]
    <3>1. PICK k : k = o - a
      OBVIOUS
    <3>2. k \in 0 .. BufferSize - 1 /\ a + k = o
      BY <2>5, <3>1
    <3> QED BY <1>8, <2>2, <3>1, <3>2
  <2> QED BY <2>4, <2>6
<1>12. \A o \in lo .. mid - 1 : J!Buffered'[o] = z[o]
  <2>1. \A o \in lo .. mid - 1 : o \in a .. mid - 1
    BY SMTT(30), <1>1, <1>2
  <2> QED BY <1>11, <2>1
<1>13. \A o \in a .. lo - 1 : o \in a .. mid - 1 /\ o \notin lo .. mid - 1
  BY SMTT(30), <1>1, <1>2
<1>14. /\ OsInv' /\ (length # -1 => length' # -1)
       /\ \E b : /\ DOMAIN b = a .. lo - 1 /\ \A o \in a .. lo - 1 : J!Buffered'[o] = b[o]
                 /\ SeenOf(disk', b, z) = J!Seen /\ LengthOf(length', b, z) = J!SeenLength
                 /\ MayBe(media', b, z) = Survivors
       /\ lengths' \cup (length' .. J!SeenLength) = Sizes
  <2>1. CASE J!MustFlush
    <3>1. J!WriteBuffer /\ a = lo
      BY <1>1, <1>3, <2>1
    <3>2. /\ OsInv' /\ (length # -1 => length' # -1)
          /\ SeenOf(disk', J!Nothing, z) = J!Seen /\ LengthOf(length', J!Nothing, z) = J!SeenLength
          /\ MayBe(media', J!Nothing, z) = Survivors
          /\ lengths' \cup (length' .. J!SeenLength) = Sizes
      BY <3>1, FlushedIs DEF JInv
    <3>3. a .. lo - 1 = {}
      BY SMTT(30), <1>2, <3>1
    <3> QED BY <3>2, <3>3, NothingOver
  <2>2. CASE ~J!MustFlush
    <3>1. UNCHANGED <<disk, length, media, lengths>> /\ a = iBufferOfst /\ iBufferOfst + nBuffer = lo
      BY <1>1, <1>3, <2>2 DEF J!osfile
    <3>2. iBufferOfst + nBuffer - 1 = lo - 1
      BY SMTT(30), <1>2, <3>1, Bounds DEF JInv, BufferInv
    <3>3. J!Buffered = [o \in a .. lo - 1 |-> aBuffer[o - a]]
      BY <3>1, <3>2 DEF J!Buffered
    <3>4. \A o \in a .. lo - 1 : J!Buffered'[o] = J!Buffered[o]
      BY <1>11, <1>13, <3>3
    <3>5. OsInv' /\ lengths' \cup (length' .. J!SeenLength) = Sizes
      BY <3>1 DEF JInv, OsInv, Sizes
    <3>6. /\ SeenOf(disk', J!Buffered, z) = J!Seen /\ LengthOf(length', J!Buffered, z) = J!SeenLength
          /\ MayBe(media', J!Buffered, z) = Survivors
      BY <3>1, LayersSeen DEF Survivors
    <3> QED BY <3>1, <3>3, <3>4, <3>5, <3>6
  <2> QED BY <2>1, <2>2
<1>15. PICK b : /\ DOMAIN b = a .. lo - 1 /\ \A o \in a .. lo - 1 : J!Buffered'[o] = b[o]
                /\ SeenOf(disk', b, z) = J!Seen /\ LengthOf(length', b, z) = J!SeenLength
                /\ MayBe(media', b, z) = Survivors
  BY <1>14
<1>16. SameFile
  <2>1. PICK b2, d, d2 : b2 = J!Buffered' /\ d = z /\ d2 = z'
    OBVIOUS
  <2>2. PICK f, m, n : f = disk' /\ m = media' /\ n = length'
    OBVIOUS
  <2>3. n \in Int
    BY <1>14, <2>2, Bounds DEF OsInv
  <2>4. Moved(a, lo, mid, hi, b, d, b2, d2)
    BY <1>1, <1>2, <1>4, <1>5, <1>11, <1>12, <1>15, <2>1 DEF Moved
  <2>5. /\ \A g : SeenOf(g, b2, d2) = SeenOf(g, b, d)
        /\ \A k \in Int : LengthOf(k, b2, d2) = LengthOf(k, b, d)
        /\ \A g : MayBe(g, b2, d2) = MayBe(g, b, d)
    BY SMTT(30), <2>4, CopyLayers
  <2>6. SeenOf(f, b2, d2) = SeenOf(f, b, d) /\ LengthOf(n, b2, d2) = LengthOf(n, b, d)
    BY <2>3, <2>5
  <2>7. MayBe(m, b2, d2) = MayBe(m, b, d)
    BY <2>5
  <2> QED BY <1>14, <1>15, <2>1, <2>2, <2>6, <2>7, SameLayers
<1>17. z # J!Nothing /\ j_reply = J!Pending("write") /\ length # -1
  BY <1>3 DEF JInv, HandleInv
<1>18. CASE DOMAIN z = J!Copied
  <2>1. mid .. hi - 1 = {}
    BY <1>4, <1>18
  <2>2. z' = J!Nothing
    BY <1>5, <2>1, NothingOver
  <2>3. j_reply' = J!OS!Ok("write")
    BY <1>3, <1>18
  <2>4. HandleInv'
    BY <1>3, <1>14, <1>17, <2>2, <2>3, Replies DEF HandleInv
  <2>5. j_reply = J!File!Result("write", "pending", 0) /\ j_reply' = J!File!Ok("write")
    BY <1>17, <2>3, Replies, SameNames
  <2> QED BY <1>10, <1>14, <1>16, <2>4, <2>5, FileIs DEF JInv, Simulates, J!File!FileNext, J!File!Succeeds
<1>19. CASE DOMAIN z # J!Copied
  <2>1. j_reply' = j_reply
    BY <1>3, <1>19
  <2>2. HandleInv'
    BY <1>3, <1>14, <1>17, <2>1, Replies DEF HandleInv
  <2> QED BY <1>10, <1>14, <1>16, <2>1, <2>2, FileIs DEF JInv, Simulates
<1> QED BY <1>18, <1>19

\* The flush in demoWrite's loop fails, and the rest of the write is given up.
LEMMA FlushForWriteFailsStep ==
    ASSUME JInv, J!FlushForWriteFails
    PROVE  JInv' /\ Simulates
<1>1. /\ handle = "buffered" /\ handle' = handle /\ J!FlushFails("write") /\ J!Emptied
      /\ z' = J!Nothing
  BY DEF J!FlushForWriteFails
<1>2. J!IsOpen
  BY <1>1 DEF J!IsOpen
<1> QED BY <1>1, <1>2, FlushFailStep

\* fsync() makes everything durable that is seen.
LEMMA FsyncStep ==
    ASSUME JInv, J!Fsync
    PROVE  JInv' /\ Simulates
<1>1. /\ j_reply = J!Pending("sync") /\ handle' = handle
      /\ UNCHANGED J!buffer /\ z' = z
  BY DEF J!Fsync
<1>2. nBuffer = 0 /\ z = J!Nothing
  BY <1>1 DEF JInv, HandleInv
<1>3. UNCHANGED <<aBuffer, nBuffer, iBufferOfst>>
  BY <1>1 DEF J!buffer
<1>4. J!Buffered = J!Nothing
  BY <1>2, BufferedIs DEF JInv
<1>5. BufferInv' /\ J!Buffered' = J!Nothing /\ z' = J!Nothing /\ nBuffer' = 0
  BY <1>1, <1>2, <1>3, <1>4 DEF JInv, BufferInv, J!Buffered
<1>6. ASSUME length' = length PROVE HandleInv'
  BY <1>1, <1>5, <1>6 DEF JInv, HandleInv
<1>7. CASE J!OS!MakeDurable /\ j_reply' = J!OS!Ok("sync")
  <2>1. J!Seen = disk /\ J!SeenLength = length
    BY <1>2, <1>4, QuietNow DEF JInv
  <2>2. /\ disk' = disk /\ length' = length /\ lengths' = {length}
        /\ media' = [o \in Positions |-> {disk[o]}]
    BY <1>7, SameNames DEF J!OS!MakeDurable
  <2>3. OsInv'
    <3>1. media' \in [Positions -> SUBSET JournalBytes]
      BY <2>2 DEF JInv, OsInv
    <3> QED BY <2>2, <3>1 DEF JInv, OsInv
  <2>4. J!Seen' = disk' /\ J!SeenLength' = length' /\ Survivors' = media' /\ Sizes' = lengths'
    BY <1>5, <2>3, QuietNext
  <2>5. J!File!MakeDurable
    BY <2>1, <2>2, <2>4, FileDurable
  <2>6. j_reply = J!File!Result("sync", "pending", 0) /\ j_reply' = J!File!Ok("sync")
    BY <1>1, <1>7, Replies, SameNames
  <2> QED BY <1>5, <1>6, <2>2, <2>3, <2>5, <2>6 DEF JInv, Simulates, J!File!FileNext, J!File!Succeeds
<1>8. CASE UNCHANGED J!osfile /\ j_reply' = J!Error("sync")
  <2>1. OsInv' /\ UNCHANGED J!File!file /\ length' = length
    BY <1>1, <1>8, StillKeeps
  <2> QED BY <1>5, <1>6, <1>8, <2>1, ErrorStep DEF JInv
<1> QED BY <1>7, <1>8 DEF J!Fsync

\* The process ends, or the machine loses power.
LEMMA CrashStep ==
    ASSUME JInv, J!Crash
    PROVE  JInv' /\ Simulates
<1>1. /\ handle' = "closed" /\ z' = J!Nothing /\ J!Emptied /\ j_reply' = J!OS!Restarted
      /\ UNCHANGED J!osfile \/ J!PowerFails
  BY DEF J!Crash, J!Emptied
<1>2. BufferInv' /\ J!Buffered' = J!Nothing /\ nBuffer' = 0
  BY <1>1, EmptiedIs DEF JInv
<1>3. HandleInv'
  BY <1>1, <1>2 DEF HandleInv
<1>4. OsInv' /\ lengths' \subseteq lengths /\ \A o \in Positions : media'[o] \subseteq media[o]
  <2>1. CASE UNCHANGED J!osfile
    <3>1. UNCHANGED <<disk, length, media, lengths>>
      BY <2>1 DEF J!osfile
    <3> QED BY <3>1 DEF JInv, OsInv
  <2>2. CASE J!PowerFails
    <3>1. PICK s \in lengths, c \in [Positions -> JournalBytes] :
              /\ \A o \in Positions : IF o < s THEN c[o] \in media[o] ELSE c[o] = Zero
              /\ disk' = c /\ length' = s
              /\ media' = [o \in Positions |-> {c[o]}] /\ lengths' = {s}
      BY <2>2, SameNames DEF J!PowerFails
    <3>2. media' \in [Positions -> SUBSET JournalBytes]
      BY <3>1
    <3>3. s \in -1 .. MaxSize
      BY DEF JInv, OsInv
    <3>4. \A o \in Positions : o >= s => ~(o < s)
      BY SMTT(30), <3>3, Bounds
    <3>5. \A o \in Positions : c[o] \in media[o]
      <4>1. ASSUME NEW o \in Positions, ~(o < s)
            PROVE  Zero \in media[o]
        <5>1. o >= s
          BY SMTT(30), <3>3, <4>1, Bounds
        <5> QED BY <5>1 DEF JInv, OsInv
      <4> QED BY <3>1, <4>1
    <3>6. OsInv'
      BY <3>1, <3>2, <3>3, <3>4 DEF OsInv
    <3>7. \A o \in Positions : media'[o] \subseteq media[o]
      BY <3>1, <3>5
    <3> QED BY <3>1, <3>6, <3>7
  <2> QED BY <1>1, <2>1, <2>2
<1>5. lengths' \subseteq Sizes /\ \A o \in Positions : media'[o] \subseteq Survivors[o]
  BY <1>4 DEF Sizes, Survivors, MayBe
<1>6. J!File!Lose
  BY <1>1, <1>2, <1>4, <1>5, LoseIs
<1>7. j_reply' = J!File!Restarted
  BY <1>1, SameNames
<1> QED BY <1>2, <1>3, <1>4, <1>6, <1>7 DEF JInv, Simulates, J!File!FileNext, J!File!Stops

\* The journal file starts in order, as a plain file that does not exist.
LEMMA JournalStarts ==
    ASSUME J!Init
    PROVE  JInv /\ J!File!FileInit
<1>1. /\ disk = [o \in Positions |-> Zero] /\ length = -1 /\ lengths = {-1}
      /\ media = [o \in Positions |-> {Zero}] /\ j_reply = J!OS!Restarted
      /\ handle = "closed" /\ aBuffer = [k \in 0 .. BufferSize - 1 |-> Zero]
      /\ nBuffer = 0 /\ iBufferOfst = 0 /\ z = J!Nothing
  BY SameNames DEF J!Init, J!OS!FileInit
<1>2. -1 \in -1 .. MaxSize /\ 0 \in 0 .. BufferSize /\ 0 \in 0 .. MaxSize /\ 0 + 0 <= MaxSize
  BY SMTT(30), Bounds
<1>3. OsInv
  BY <1>1, <1>2, Bounds DEF OsInv
<1>4. BufferInv
  BY <1>1, <1>2, Bounds, NothingInRange DEF BufferInv
<1>5. HandleInv
  BY <1>1 DEF HandleInv
<1>6. J!Buffered = J!Nothing
  BY <1>1, <1>4, BufferedIs
<1>7. J!Seen = disk /\ J!SeenLength = length /\ Survivors = media /\ Sizes = lengths
  BY <1>1, <1>3, <1>6, QuietNow
<1>8. /\ J!Seen = [o \in Positions |-> Zero] /\ J!SeenLength = -1 /\ Sizes = {-1}
      /\ Survivors = [o \in Positions |-> {Zero}] /\ j_reply = J!File!Restarted
  BY <1>1, <1>7, SameNames
<1>9. J!File!FileInit
  BY <1>8, SameNames DEF J!File!FileInit, Survivors, Sizes, MayBe
<1> QED BY <1>3, <1>4, <1>5, <1>9 DEF JInv

\* Every step of the journal file.
LEMMA JournalSteps ==
    ASSUME JInv, [J!Next]_(J!vars)
    PROVE  JInv' /\ Simulates
<1>1. CASE UNCHANGED J!vars
  <2>1. UNCHANGED J!osfile /\ UNCHANGED J!buffer /\ z' = z /\ handle' = handle /\ j_reply' = j_reply
    BY <1>1 DEF J!vars
  <2>2. OsInv' /\ BufferInv' /\ UNCHANGED J!File!file /\ length' = length /\ nBuffer' = nBuffer
    BY <2>1, StillKeeps
  <2>3. HandleInv'
    BY <2>1, <2>2 DEF JInv, HandleInv
  <2> QED BY <2>1, <2>2, <2>3 DEF JInv, Simulates
<1>2. CASE \E journal_, create, exclusive \in BOOLEAN : J!Open(journal_, create, exclusive)
  BY <1>2, OpenStep
<1>3. CASE J!OpenFails \/ J!Close \/ J!Access
  BY <1>3, OpenFailsStep, CloseStep, AccessStep
<1>4. CASE \E dirSync \in BOOLEAN : J!Delete(dirSync)
  BY <1>4, DeleteStep
<1>5. CASE \E lo \in J!Offsets : \E n \in 1 .. MaxSize - lo : J!Read(lo, n)
  BY <1>5, ReadStep, SameNames
<1>6. CASE \E d \in J!OS!Data : J!WritePlain(d) \/ J!WriteBuffered(d)
  BY <1>6, WritePlainStep, WriteBufferedStep
<1>7. CASE J!CopyToBuffer \/ J!FlushForWriteFails
  BY <1>7, CopyStep, FlushForWriteFailsStep
<1>8. CASE J!FileSize \/ J!Sync \/ J!Fsync
  BY <1>8, FileSizeStep, SyncStep, FsyncStep
<1>9. CASE J!Crash
  BY <1>9, CrashStep
<1> QED BY <1>1, <1>2, <1>3, <1>4, <1>5, <1>6, <1>7, <1>8, <1>9 DEF J!Next

\* The write buffer of demovfs.h cannot be seen: the buffered file behaves like a
\* plain file, across flushes, overwrites, failures and crashes, for files, buffers
\* and writes of any size.
THEOREM JournalIsPlainFile == J!Spec => ImplementsPlainFile
<1>1. J!Init => JInv /\ J!File!FileInit
  BY JournalStarts
<1>2. JInv /\ [J!Next]_(J!vars) => JInv' /\ [J!File!FileNext]_(<<J!File!file, j_reply>>)
  BY JournalSteps DEF Simulates
<1> QED BY <1>1, <1>2, PTL DEF J!Spec, ImplementsPlainFile, J!ImplementsPlainFile, J!File!FileSpec
==============================================================================

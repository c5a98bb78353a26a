------------------------- MODULE ClientManager_proofs -------------------------
(***************************************************************************)
(* Theorems about ClientManager for any regions, clients and windows: map  *)
(* counts are exact, the segments behind handles stay, no region is lost,  *)
(* and a page fault finds its region.                                      *)
(***************************************************************************)
EXTENDS ClientManager, FiniteSetTheorems, TLAPS

\* How long a prover may look for the proof of a leaf.
USE ZenonT(60)

Sized    == [at : {"sized"}, id : Ids, n : Nat]
Grants   == [at : {"granted"}, w : Windows, id : Ids, n : Nat, segid : Nat]
Releases == [at : {"released"}, w : Windows]

TypeInv ==
    /\ nr_pages \in [Ids -> Nat] /\ file_pages \in [Ids -> Int] /\ anchored \subseteq Ids
    /\ addr \in [Ids -> Nat \cup {None}]
    /\ regions \in [Ids -> Regions \cup {None}]
    /\ mappings \in [Clients -> [Windows -> Ids \cup {None}]]
    /\ handles \in [Clients -> [Windows -> Handles \cup {None}]]
    /\ lib \in [Clients -> {Idle} \cup Sized \cup Grants \cup Releases]
    /\ proc \in [Clients -> {"fresh", "open", "closed"}]
    /\ fault \in [Clients -> Faults \cup {None}]

\* A mapping belongs to a running thread.  While the process can still make calls,
\* it has the handle, or will have it with the next step.
MappingInv ==
    /\ \A c \in Clients, w \in Windows : mappings[c][w] # None => c \in thread
    /\ \A c \in Clients, w \in Windows :
          Serving(c) /\ mappings[c][w] # None =>
              handles[c][w] # None \/ (lib[c].at = "granted" /\ lib[c].w = w)
    /\ \A c \in Clients : lib[c].at = "released" => mappings[c][lib[c].w] = None

ShareInv == TypeInv /\ MappingInv /\ MapcountExact /\ HandlesBacked /\ NoOrphanRegion

\* The buffer manager's regions have places of their own, and m_region_map has those
\* of the client manager's.
PlacesInv ==
    /\ \A id \in Ids : addr[id] # None <=> Store!Loaded(id)
    /\ \A i, j \in Ids : i # j /\ Store!Loaded(i) /\ Store!Loaded(j) =>
          addr[i] + nr_pages[i] <= addr[j] \/ addr[j] + nr_pages[j] <= addr[i]
    /\ region_map = {<<regions[id].addr, id>> : id \in {i \in Ids : Known(i)}}

\* A segment id that some process or fault still has is that of one region or none,
\* and what was attached fits in it.
SegmentsApart ==
    \A i, j \in Ids : Known(i) /\ Known(j) /\ regions[i].segid = regions[j].segid => i = j
HandleSegments ==
    \A c \in Clients, w \in Windows, i \in Ids :
        handles[c][w] # None /\ Known(i) /\ regions[i].segid = handles[c][w].segid =>
            handles[c][w].id = i /\ handles[c][w].n <= regions[i].size
AnswerSegments ==
    \A c \in Clients, i \in Ids :
        lib[c].at = "granted" /\ Known(i) /\ regions[i].segid = lib[c].segid => lib[c].id = i
FaultSegments ==
    \A c \in Clients, i \in Ids :
        fault[c] # None /\ Known(i) /\ regions[i].segid = fault[c].segid =>
            fault[c].id = i /\ fault[c].at - regions[i].addr \in 0 .. regions[i].size - 1
SegmentInv == SegmentsApart /\ HandleSegments /\ AnswerSegments /\ FaultSegments

ClientInv == ShareInv /\ PlacesInv /\ SegmentInv

USE DEF store, manager, process

\* The mappings of a region, of all clients.
Maps(id) == {x \in Clients \X Windows : mappings[x[1]][x[2]] = id}

\* At the start there are neither regions nor clients.
LEMMA InitClients == Init => ClientInv
<1> SUFFICES ASSUME Init PROVE ClientInv
  OBVIOUS
<1>1. TypeInv
  BY SMTT(30) DEF Init, TypeInv, Store!StoreInit, Store!NoFile, NoMaps
<1>2. MappingInv /\ HandlesBacked
  BY DEF Init, MappingInv, HandlesBacked, NoMaps, Idle
<1>3. MapcountExact
  BY NoneAssumption DEF Init, MapcountExact, NoMaps, Known
<1>4. NoOrphanRegion /\ PlacesInv
  BY SMTT(30) DEF Init, NoOrphanRegion, PlacesInv, Store!StoreInit, Store!Loaded, Known
<1>5. SegmentInv
  BY DEF Init, SegmentInv, SegmentsApart, HandleSegments, AnswerSegments, FaultSegments, Known
<1> QED BY <1>1, <1>2, <1>3, <1>4, <1>5 DEF ClientInv, ShareInv

\* What a process is doing, by the name of the step.
LEMMA LibStates ==
    ASSUME TypeInv, NEW c \in Clients
    PROVE  /\ lib[c].at = "sized" => lib[c] \in Sized /\ lib[c].id \in Ids /\ lib[c].n \in Nat
           /\ lib[c].at = "granted" => /\ lib[c] \in Grants /\ lib[c].w \in Windows /\ lib[c].id \in Ids
                                       /\ lib[c].n \in Nat /\ lib[c].segid \in Nat
           /\ lib[c].at = "released" => lib[c] \in Releases /\ lib[c].w \in Windows
BY SMTT(30) DEF TypeInv, Sized, Grants, Releases, Idle

\* Mappings and who made them depend on the client threads and the processes.
LEMMA SameMappings ==
    ASSUME MappingInv, UNCHANGED <<mappings, thread, proc, lib, handles>> PROVE MappingInv'
BY DEF MappingInv, Serving

\* Map counts depend on m_regions and the mappings.
LEMMA SameCounts ==
    ASSUME MapcountExact, UNCHANGED <<regions, mappings>> PROVE MapcountExact'
BY SMTT(30) DEF MapcountExact, Known

\* The segments behind handles depend on m_regions, the mappings and the processes.
LEMMA SameHandles ==
    ASSUME HandlesBacked, UNCHANGED <<regions, mappings, lib, handles>> PROVE HandlesBacked'
BY SMTT(30) DEF HandlesBacked, Known

\* A step in which no process gets a handle, an answer or a page fault.
NothingGained ==
    /\ \A c \in Clients, w \in Windows : handles'[c][w] = handles[c][w] \/ handles'[c][w] = None
    /\ \A c \in Clients : lib'[c].at = "granted" => lib'[c] = lib[c]
    /\ \A c \in Clients : fault'[c] = fault[c] \/ fault'[c] = None

\* The segments that processes hold stay those of their regions when m_regions stays
\* and they get no others.
LEMMA SegmentsKept ==
    ASSUME HandlesBacked, SegmentInv, UNCHANGED <<regions, mappings>>, NothingGained
    PROVE  HandlesBacked' /\ SegmentInv'
<1>1. HandlesBacked'
  BY SMTT(30) DEF HandlesBacked, Known, NothingGained
<1>2. SegmentInv'
  BY SMTT(30) DEF SegmentInv, SegmentsApart, HandleSegments, AnswerSegments, FaultSegments, Known, NothingGained
<1> QED BY <1>1, <1>2

\* The two managers' agreement depends on the regions of both.
LEMMA SameRegions ==
    ASSUME NoOrphanRegion, PlacesInv, UNCHANGED <<nr_pages, addr, regions, region_map>>,
           anchored \subseteq anchored'
    PROVE  NoOrphanRegion' /\ PlacesInv'
<1>1. NoOrphanRegion'
  BY DEF NoOrphanRegion, Known, Store!Loaded
<1>2. PlacesInv'
  BY DEF PlacesInv, Known, Store!Loaded
<1> QED BY <1>1, <1>2

\* The parts of the invariant, and the invariant from its parts.
LEMMA Parts ==
    ClientInv <=> /\ TypeInv /\ MappingInv /\ MapcountExact /\ HandlesBacked
                  /\ NoOrphanRegion /\ PlacesInv /\ SegmentInv
BY DEF ClientInv, ShareInv

\* A step that makes no mapping and gives no process anything, by what it may change.
LEMMA StoreStep ==
    ASSUME ClientInv, UNCHANGED <<regions, mappings>>, NothingGained,
           TypeInv', MappingInv', NoOrphanRegion', PlacesInv'
    PROVE  ClientInv'
<1>1. MapcountExact /\ HandlesBacked /\ SegmentInv
  BY Parts
<1>2. MapcountExact'
  BY <1>1, SameCounts
<1>3. HandlesBacked' /\ SegmentInv'
  BY <1>1, SegmentsKept
<1> QED BY <1>2, <1>3 DEF ClientInv, ShareInv

\* A step of a process that leaves the managers as they are.
LEMMA ProcessStep ==
    ASSUME ClientInv, UNCHANGED <<store, manager, mappings>>, NothingGained, TypeInv', MappingInv'
    PROVE  ClientInv'
<1>1. NoOrphanRegion /\ PlacesInv
  BY Parts
<1>2. NoOrphanRegion' /\ PlacesInv'
  BY <1>1, SameRegions
<1> QED BY <1>2, StoreStep

\* damemory_init: the thread starts without mappings.
LEMMA ConnectHolds == ASSUME ClientInv, NEW c \in Clients, Connect(c) PROVE ClientInv'
<1>1. TypeInv /\ MappingInv
  BY Parts
<1>s. /\ UNCHANGED <<store, manager, mappings, lib, handles, fault>>
      /\ proc' = [proc EXCEPT ![c] = "open"] /\ thread' = thread \cup {c} /\ c \notin thread
  BY DEF Connect
<1>2. TypeInv'
  BY <1>1, <1>s DEF TypeInv
<1>3. MappingInv'
  BY SMTT(30), <1>1, <1>s DEF TypeInv, MappingInv, Serving
<1>4. NothingGained
  BY <1>s DEF NothingGained
<1> QED BY <1>2, <1>3, <1>4, <1>s, ProcessStep

\* damemory_close
LEMMA CloseHolds == ASSUME ClientInv, NEW c \in Clients, Close(c) PROVE ClientInv'
<1>1. TypeInv /\ MappingInv
  BY Parts
<1>s. /\ UNCHANGED <<store, manager, mappings, thread, lib, handles, fault>>
      /\ proc' = [proc EXCEPT ![c] = "closed"]
  BY DEF Close
<1>2. TypeInv'
  BY <1>1, <1>s DEF TypeInv
<1>3. MappingInv'
  BY SMTT(30), <1>1, <1>s DEF TypeInv, MappingInv, Serving
<1>4. NothingGained
  BY <1>s DEF NothingGained
<1> QED BY <1>2, <1>3, <1>4, <1>s, ProcessStep

\* A process ends and leaves its mappings to its thread.
LEMMA DieHolds == ASSUME ClientInv, NEW c \in Clients, Die(c) PROVE ClientInv'
<1>1. TypeInv /\ MappingInv
  BY Parts
<1>s. /\ UNCHANGED <<store, manager, mappings, thread>>
      /\ proc' = [proc EXCEPT ![c] = "fresh"] /\ lib' = [lib EXCEPT ![c] = Idle]
      /\ handles' = [handles EXCEPT ![c] = NoMaps] /\ fault' = [fault EXCEPT ![c] = None]
  BY DEF Die
<1>n. NoMaps \in [Windows -> Handles \cup {None}]
  BY DEF NoMaps
<1>2. TypeInv'
  BY <1>1, <1>s, <1>n DEF TypeInv
<1>l. /\ proc'[c] # "open" /\ lib'[c].at = "idle" /\ fault'[c] = None
      /\ \A w \in Windows : handles'[c][w] = None
      /\ \A d \in Clients : d # c => /\ proc'[d] = proc[d] /\ lib'[d] = lib[d]
                                     /\ handles'[d] = handles[d] /\ fault'[d] = fault[d]
  BY <1>1, <1>s DEF TypeInv, Idle, NoMaps
<1>3. MappingInv'
  BY SMTT(30), <1>1, <1>s, <1>l DEF MappingInv, Serving
<1>4. NothingGained
  BY <1>s, <1>l DEF NothingGained
<1> QED BY <1>2, <1>3, <1>4, <1>s, ProcessStep

\* damemory_map gives up after get_size.
LEMMA EndWithoutMapHolds == ASSUME ClientInv, NEW c \in Clients, EndWithoutMap(c) PROVE ClientInv'
<1>1. TypeInv /\ MappingInv
  BY Parts
<1>s. /\ UNCHANGED <<store, manager, mappings, thread, proc, handles, fault>>
      /\ lib[c].at = "sized" /\ lib' = [lib EXCEPT ![c] = Idle]
  BY DEF EndWithoutMap
<1>2. TypeInv'
  BY <1>1, <1>s DEF TypeInv
<1>l. lib'[c].at = "idle" /\ \A d \in Clients : d # c => lib'[d] = lib[d]
  BY <1>1, <1>s DEF TypeInv, Idle
<1>3. MappingInv'
  BY SMTT(30), <1>1, <1>s, <1>l DEF MappingInv, Serving
<1>4. NothingGained
  BY <1>s, <1>l DEF NothingGained
<1> QED BY <1>2, <1>3, <1>4, <1>s, ProcessStep

\* attach_seg: the segment is as large as the region that has it.
LEMMA AttachHolds == ASSUME ClientInv, NEW c \in Clients, Attach(c) PROVE ClientInv'
<1> DEFINE h == [id |-> lib[c].id, n |-> lib[c].n, segid |-> lib[c].segid]
<1>1. TypeInv /\ MappingInv /\ MapcountExact /\ HandlesBacked /\ NoOrphanRegion /\ PlacesInv /\ SegmentInv
  BY Parts
<1>s. handles' = [handles EXCEPT ![c][lib[c].w] = h] /\ lib' = [lib EXCEPT ![c] = Idle]
  BY DEF Attach
<1>u. UNCHANGED <<store, manager, mappings, thread, proc, fault>>
  BY DEF Attach
<1>a. lib[c].at = "granted" /\ lib[c].n <= SegmentSize(lib[c].segid)
  BY DEF Attach, Attachable
<1>w. PICK w \in Windows : w = lib[c].w
  BY <1>1, <1>a, LibStates
<1>h. h \in Handles /\ h.id = lib[c].id /\ h.n = lib[c].n /\ h.segid = lib[c].segid /\ h # None
  <2>1. lib[c].id \in Ids /\ lib[c].n \in Nat /\ lib[c].segid \in Nat
    BY <1>1, <1>a, LibStates
  <2> QED BY SMTT(30), <2>1, NoneAssumption DEF Handles
<1>n. \A i \in Ids : Known(i) /\ regions[i].segid = lib[c].segid => lib[c].id = i /\ lib[c].n <= regions[i].size
  <2> SUFFICES ASSUME NEW i \in Ids, Known(i), regions[i].segid = lib[c].segid
               PROVE  lib[c].id = i /\ lib[c].n <= regions[i].size
    OBVIOUS
  <2> DEFINE P(r) == r # None /\ r.segid = lib[c].segid
             s == CHOOSE r \in {regions[id] : id \in Ids} : P(r)
  <2>1. s \in {regions[id] : id \in Ids} /\ P(s)
    BY DEF Known
  <2>2. PICK j \in Ids : s = regions[j]
    BY <2>1
  <2>3. Known(j) /\ regions[j].segid = regions[i].segid
    BY <2>1, <2>2 DEF Known
  <2>4. lib[c].n <= s.size
    BY <1>a DEF SegmentSize
  <2> HIDE DEF s, P
  <2>5. j = i /\ lib[c].id = i
    BY <1>1, <1>a, <2>3 DEF SegmentInv, SegmentsApart, AnswerSegments
  <2> QED BY <2>2, <2>4, <2>5
<1> HIDE DEF h
<1>2. TypeInv'
  BY <1>1, <1>s, <1>u, <1>w, <1>h DEF TypeInv
<1>l. /\ lib'[c].at = "idle" /\ \A d \in Clients : d # c => lib'[d] = lib[d]
      /\ handles'[c][w] = h
      /\ \A d \in Clients, z \in Windows : ~(d = c /\ z = w) => handles'[d][z] = handles[d][z]
  BY <1>1, <1>s, <1>w DEF TypeInv, Idle
<1>3. MappingInv'
  BY SMTT(30), <1>1, <1>u, <1>a, <1>w, <1>h, <1>l DEF MappingInv, Serving
<1>4. HandlesBacked'
  BY SMTT(30), <1>1, <1>u, <1>a, <1>w, <1>h, <1>l DEF HandlesBacked, Known
<1>5. SegmentInv'
  <2>0. SegmentInv
    BY Parts
  <2>1. SegmentsApart'
    BY SMTT(30), <2>0, <1>n, <1>u, <1>h, <1>l DEF SegmentInv, SegmentsApart, Known
  <2>2. HandleSegments'
    BY SMTT(30), <2>0, <1>n, <1>u, <1>h, <1>l DEF SegmentInv, HandleSegments, Known
  <2>3. AnswerSegments'
    BY SMTT(30), <2>0, <1>n, <1>u, <1>h, <1>l DEF SegmentInv, AnswerSegments, Known
  <2>4. FaultSegments'
    BY SMTT(30), <2>0, <1>n, <1>u, <1>h, <1>l DEF SegmentInv, FaultSegments, Known
  <2> QED BY <2>1, <2>2, <2>3, <2>4 DEF SegmentInv
<1>6. MapcountExact' /\ NoOrphanRegion' /\ PlacesInv'
  BY <1>1, <1>u, SameCounts, SameRegions
<1> QED BY <1>2, <1>3, <1>4, <1>5, <1>6 DEF ClientInv, ShareInv

\* damemory_unmap ends.
LEMMA DetachHolds == ASSUME ClientInv, NEW c \in Clients, Detach(c) PROVE ClientInv'
<1>1. TypeInv /\ MappingInv
  BY Parts
<1>s. /\ handles' = [handles EXCEPT ![c][lib[c].w] = None] /\ lib' = [lib EXCEPT ![c] = Idle]
      /\ UNCHANGED <<store, manager, mappings, thread, proc, fault>>
      /\ lib[c].at = "released"
  BY DEF Detach
<1>w. PICK w \in Windows : w = lib[c].w
  BY <1>1, <1>s, LibStates
<1>2. TypeInv'
  BY <1>1, <1>s, <1>w DEF TypeInv
<1>l. /\ lib'[c].at = "idle" /\ \A d \in Clients : d # c => lib'[d] = lib[d]
      /\ handles'[c][w] = None
      /\ \A d \in Clients, z \in Windows : ~(d = c /\ z = w) => handles'[d][z] = handles[d][z]
  BY <1>1, <1>s, <1>w DEF TypeInv, Idle
<1>3. MappingInv'
  BY SMTT(30), <1>1, <1>s, <1>w, <1>l DEF MappingInv, Serving
<1>4. NothingGained
  BY <1>s, <1>l DEF NothingGained
<1> QED BY <1>2, <1>3, <1>4, <1>s, ProcessStep
\* A page fault is raised at the address of its page.
LEMMA FaultHolds ==
    ASSUME ClientInv, NEW c \in Clients, NEW w \in Windows, NEW k \in 0 .. MaxPages - 1, Fault(c, w, k)
    PROVE  ClientInv'
<1>1. TypeInv /\ MappingInv /\ MapcountExact /\ HandlesBacked /\ NoOrphanRegion /\ PlacesInv /\ SegmentInv
  BY Parts
<1>h. PICK h \in Handles : h = handles[c][w]
  BY SMTT(30), <1>1 DEF TypeInv, Fault
<1>t. h.id \in Ids /\ h.n \in Nat /\ h.segid \in Nat /\ k \in Nat
  BY SMTT(30), <1>h, SizesAssumption DEF Handles
<1>i. Known(h.id) /\ regions[h.id].segid = h.segid /\ h.n <= regions[h.id].size /\ k < h.n
  <2>1. Live(h.segid) /\ k < h.n
    BY <1>h DEF Fault
  <2>2. PICK i \in Ids : Known(i) /\ regions[i].segid = h.segid
    BY <2>1 DEF Live
  <2>3. h # None
    BY NoneAssumption
  <2>4. h.id = i /\ h.n <= regions[i].size
    BY SMTT(30), <1>1, <1>h, <2>2, <2>3 DEF SegmentInv, HandleSegments
  <2> QED BY <2>1, <2>2, <2>4
<1>r. regions[h.id] \in Regions /\ regions[h.id].addr \in Nat /\ regions[h.id].size \in Nat
  BY <1>1, <1>t, <1>i DEF TypeInv, Regions, Known
<1> DEFINE f == [at |-> regions[h.id].addr + k, id |-> h.id, segid |-> h.segid]
<1>f. f \in Faults /\ f.at = regions[h.id].addr + k /\ f.id = h.id /\ f.segid = h.segid
  BY SMTT(30), <1>t, <1>r DEF Faults
<1>s. fault' = [fault EXCEPT ![c] = f]
  BY <1>h DEF Fault
<1>u. UNCHANGED <<store, manager, mappings, thread, process>>
  BY DEF Fault
<1> HIDE DEF f
<1>2. TypeInv'
  BY <1>1, <1>f, <1>s, <1>u DEF TypeInv
<1>3. MappingInv' /\ HandlesBacked'
  BY <1>1, <1>u, SameMappings, SameHandles
<1>l. fault'[c] = f /\ \A d \in Clients : d # c => fault'[d] = fault[d]
  BY <1>1, <1>s DEF TypeInv
<1>4. SegmentInv'
  <2>1. f.at - regions[h.id].addr \in 0 .. regions[h.id].size - 1
    BY SMTT(30), <1>t, <1>i, <1>r, <1>f
  <2>2. \A i \in Ids : Known(i) /\ regions[i].segid = f.segid => f.id = i
    BY <1>1, <1>t, <1>i, <1>f DEF SegmentInv, SegmentsApart
  <2>3. SegmentsApart' /\ HandleSegments' /\ AnswerSegments'
    BY SMTT(30), <1>1, <1>u DEF SegmentInv, SegmentsApart, HandleSegments, AnswerSegments, Known
  <2>4. FaultSegments'
    BY SMTT(30), <1>1, <1>u, <1>l, <1>f, <2>1, <2>2 DEF SegmentInv, FaultSegments, Known
  <2> QED BY <2>3, <2>4 DEF SegmentInv
<1>5. MapcountExact' /\ NoOrphanRegion' /\ PlacesInv'
  BY <1>1, <1>u, SameCounts, SameRegions
<1> QED BY <1>2, <1>3, <1>4, <1>5 DEF ClientInv, ShareInv

\* A page fault is served.
LEMMA HandleUserfaultHolds == ASSUME ClientInv, NEW c \in Clients, handle_userfault(c) PROVE ClientInv'
<1>1. TypeInv /\ MappingInv
  BY Parts
<1>s. fault' = [fault EXCEPT ![c] = None] /\ UNCHANGED <<store, manager, mappings, thread, process>>
  BY DEF handle_userfault
<1>2. TypeInv' /\ NothingGained
  BY <1>1, <1>s DEF TypeInv, NothingGained
<1>3. MappingInv'
  BY <1>1, <1>s, SameMappings
<1> QED BY <1>2, <1>3, <1>s, ProcessStep

\* The shutdown eventfd is written.
LEMMA ShutdownHolds == ASSUME ClientInv, Shutdown PROVE ClientInv'
<1>1. TypeInv /\ MappingInv
  BY Parts
<1>s. UNCHANGED <<store, manager, mappings, thread, process, fault>>
  BY DEF Shutdown
<1>2. TypeInv' /\ NothingGained
  BY <1>1, <1>s DEF TypeInv, NothingGained
<1>3. MappingInv'
  BY <1>1, <1>s, SameMappings
<1> QED BY <1>2, <1>3, <1>s, ProcessStep

\* anchor, and an allocation that fails after creating its file: no region changes.
LEMMA AnchorHolds ==
    ASSUME ClientInv, NEW c \in Clients, NEW id \in Ids,
           anchor(c, id) \/ \E n \in Sizes \cup {0} : AllocateFails(c, id, n)
    PROVE  ClientInv'
<1>1. TypeInv /\ MappingInv /\ NoOrphanRegion /\ PlacesInv
  BY Parts
<1>s. UNCHANGED <<nr_pages, manager, mappings, thread, process, fault>>
  BY DEF anchor, AllocateFails, Store!anchor, Store!AllocateFails
<1>t. anchored \subseteq anchored' /\ anchored' \subseteq Ids /\ file_pages' \in [Ids -> Int]
  BY SMTT(30), <1>1, SizesAssumption DEF TypeInv, anchor, AllocateFails, Store!anchor, Store!AllocateFails
<1>2. TypeInv' /\ NothingGained
  BY <1>1, <1>s, <1>t DEF TypeInv, NothingGained
<1>3. MappingInv'
  BY <1>1, <1>s, SameMappings
<1>4. NoOrphanRegion' /\ PlacesInv'
  BY <1>1, <1>s, <1>t, SameRegions
<1> QED BY <1>2, <1>3, <1>4, <1>s, StoreStep

\* What get_anchored_region leaves: a region where there was room.
LEMMA Loads ==
    ASSUME ClientInv, NEW id \in Ids, LoadAnchored(id)
    PROVE  /\ nr_pages' \in [Ids -> Nat] /\ nr_pages'[id] = file_pages[id] /\ nr_pages'[id] > 0
           /\ addr' \in [Ids -> Nat \cup {None}] /\ addr'[id] \in Nat
           /\ anchored' = anchored \cup {id} /\ file_pages' = file_pages
           /\ \A j \in Ids : j # id => nr_pages'[j] = nr_pages[j] /\ addr'[j] = addr[j]
           /\ \A j \in Ids : j # id /\ Store!Loaded(j) =>
                addr'[id] + nr_pages'[id] <= addr[j] \/ addr[j] + nr_pages[j] <= addr'[id]
<1>t. TypeInv /\ PlacesInv
  BY Parts
<1>1. PICK a \in 0 .. Space - 1 : FreeAt(a, file_pages[id]) /\ addr' = [addr EXCEPT ![id] = a]
  BY DEF LoadAnchored
<1>2. /\ file_pages[id] > 0 /\ nr_pages' = [nr_pages EXCEPT ![id] = file_pages[id]]
      /\ anchored' = anchored \cup {id} /\ file_pages' = file_pages
  BY DEF LoadAnchored, Store!get_anchored_region
<1>3. a \in Nat /\ addr'[id] = a
  BY SMTT(30), <1>t, <1>1, SpaceAssumption DEF TypeInv
<1>4. \A j \in Ids : Store!Loaded(j) => a + file_pages[id] <= addr[j] \/ addr[j] + nr_pages[j] <= a
  BY <1>t, <1>1 DEF FreeAt, PlacesInv
<1> QED BY SMTT(30), <1>t, <1>1, <1>2, <1>3, <1>4 DEF TypeInv

\* An anchored region is loaded; the client manager does not know of it yet.
LEMMA LoadHolds ==
    ASSUME ClientInv, NEW id \in Ids, LoadAnchored(id), UNCHANGED <<regions, region_map>>
    PROVE  /\ nr_pages' \in [Ids -> Nat] /\ addr' \in [Ids -> Nat \cup {None}]
           /\ anchored' \subseteq Ids /\ file_pages' \in [Ids -> Int]
           /\ NoOrphanRegion' /\ PlacesInv'
<1>t. TypeInv /\ NoOrphanRegion /\ PlacesInv
  BY Parts
<1>u. ~Store!Loaded(id)
  BY DEF LoadAnchored, Store!get_anchored_region
<1>1. anchored' \subseteq Ids /\ file_pages' \in [Ids -> Int]
  BY <1>t, Loads DEF TypeInv
<1>2. NoOrphanRegion'
  BY SMTT(30), <1>t, <1>u, Loads DEF NoOrphanRegion, Known, Store!Loaded
<1>3. PlacesInv'
  <2>1. \A i \in Ids : addr'[i] # None <=> nr_pages'[i] > 0
    BY <1>t, Loads, NoneAssumption DEF PlacesInv, Store!Loaded
  <2>2. \A i, j \in Ids : i # j /\ nr_pages'[i] > 0 /\ nr_pages'[j] > 0 =>
          addr'[i] + nr_pages'[i] <= addr'[j] \/ addr'[j] + nr_pages'[j] <= addr'[i]
    BY SMTT(30), <1>t, Loads DEF PlacesInv, Store!Loaded
  <2> QED BY <1>t, <2>1, <2>2 DEF PlacesInv, Known, Store!Loaded
<1> QED BY <1>1, <1>2, <1>3, Loads

\* allocate of an anchored id: EEXIST, with the region loaded.
LEMMA AllocateExistingHolds ==
    ASSUME ClientInv, NEW c \in Clients, NEW id \in Ids, AllocateExisting(c, id) PROVE ClientInv'
<1>t. TypeInv /\ MappingInv
  BY Parts
<1>s. LoadAnchored(id) /\ UNCHANGED <<regions, region_map, mappings, thread, process, fault>>
  BY DEF AllocateExisting
<1>1. TypeInv'
  BY <1>t, <1>s, LoadHolds DEF TypeInv
<1>2. MappingInv' /\ NothingGained
  BY <1>t, <1>s, SameMappings DEF NothingGained
<1>3. NoOrphanRegion' /\ PlacesInv'
  BY <1>s, LoadHolds
<1> QED BY <1>1, <1>2, <1>3, <1>s, StoreStep

\* get_size, which may load the region.
LEMMA GetSizeHolds ==
    ASSUME ClientInv, NEW c \in Clients, NEW id \in Ids, get_size(c, id) PROVE ClientInv'
<1>t. TypeInv /\ MappingInv /\ NoOrphanRegion /\ PlacesInv
  BY Parts
<1>s. UNCHANGED <<regions, region_map, mappings, thread, proc, handles, fault>>
  BY DEF get_size
<1>c. /\ UNCHANGED <<store, addr>> \/ LoadAnchored(id)
      /\ \/ Known(id) /\ lib' = [lib EXCEPT ![c] = [at |-> "sized", id |-> id, n |-> regions[id].size]]
         \/ lib' = [lib EXCEPT ![c] = [at |-> "sized", id |-> id, n |-> nr_pages[id]]]
         \/ LoadAnchored(id) /\ lib' = [lib EXCEPT ![c] = [at |-> "sized", id |-> id, n |-> file_pages[id]]]
  BY DEF get_size
<1>n. PICK n \in Nat : lib' = [lib EXCEPT ![c] = [at |-> "sized", id |-> id, n |-> n]]
  <2>1. nr_pages[id] \in Nat /\ (Known(id) => regions[id].size \in Nat)
    BY <1>t DEF TypeInv, Regions, Known
  <2>2. LoadAnchored(id) => file_pages[id] \in Nat
    BY Loads
  <2> QED BY <1>c, <2>1, <2>2
<1>d. [at |-> "sized", id |-> id, n |-> n] \in Sized
  BY DEF Sized
<1>l. lib'[c].at = "sized" /\ \A d \in Clients : d # c => lib'[d] = lib[d]
  BY <1>t, <1>n DEF TypeInv
<1>i. lib[c].at = "idle"
  <2>1. lib[c] = Idle
    BY DEF get_size, Ready
  <2> QED BY SMTT(30), <2>1 DEF Idle
<1>1. /\ nr_pages' \in [Ids -> Nat] /\ addr' \in [Ids -> Nat \cup {None}]
      /\ anchored' \subseteq Ids /\ file_pages' \in [Ids -> Int]
      /\ NoOrphanRegion' /\ PlacesInv'
  <2>1. CASE UNCHANGED <<store, addr>>
    <3>1. NoOrphanRegion' /\ PlacesInv'
      BY <2>1, <1>t, <1>s, SameRegions
    <3> QED BY <2>1, <3>1, <1>t DEF TypeInv
  <2>2. CASE LoadAnchored(id)
    BY <2>2, <1>s, LoadHolds
  <2> QED BY <2>1, <2>2, <1>c
<1>2. TypeInv'
  BY <1>t, <1>n, <1>s, <1>1, <1>d DEF TypeInv
<1>3. MappingInv'
  BY SMTT(30), <1>t, <1>l, <1>i, <1>s DEF MappingInv, Serving
<1>4. NothingGained
  BY <1>l, <1>s DEF NothingGained
<1> QED BY <1>1, <1>2, <1>3, <1>4, <1>s, StoreStep

\* unanchor frees a region that no client has.
LEMMA UnanchorHolds ==
    ASSUME ClientInv, NEW c \in Clients, NEW id \in Ids, unanchor(c, id) PROVE ClientInv'
<1>t. TypeInv /\ MappingInv /\ NoOrphanRegion /\ PlacesInv
  BY Parts
<1>s. UNCHANGED <<regions, region_map, mappings, thread, process, fault>>
  BY DEF unanchor
<1>1. CASE Known(id)
  <2>1. UNCHANGED <<nr_pages, addr, file_pages>> /\ anchored' = anchored \ {id}
    BY <1>1 DEF unanchor, Store!unanchor
  <2>2. TypeInv'
    BY <1>t, <1>s, <2>1 DEF TypeInv
  <2>3. NoOrphanRegion'
    BY <1>t, <1>s, <1>1, <2>1 DEF NoOrphanRegion, Known, Store!Loaded
  <2>4. PlacesInv'
    BY <1>t, <1>s, <2>1 DEF PlacesInv, Known, Store!Loaded
  <2>5. MappingInv' /\ NothingGained
    BY <1>t, <1>s, SameMappings DEF NothingGained
  <2> QED BY <1>s, <2>2, <2>3, <2>4, <2>5, StoreStep
<1>2. CASE ~Known(id)
  <2>1. /\ nr_pages' = [i \in Ids |-> IF i \in {id} THEN 0 ELSE nr_pages[i]]
        /\ anchored' = anchored \ {id} /\ addr' = [addr EXCEPT ![id] = None]
        /\ file_pages' = [i \in Ids |-> IF i \in {id} \cap persistent THEN -1 ELSE file_pages[i]]
    BY <1>2 DEF unanchor, Store!Drop, Store!NoFile
  <2>2. TypeInv'
    BY SMTT(30), <1>t, <1>s, <2>1 DEF TypeInv
  <2>3. /\ nr_pages'[id] = 0 /\ addr'[id] = None
        /\ \A j \in Ids : j # id => /\ nr_pages'[j] = nr_pages[j] /\ addr'[j] = addr[j]
                                    /\ j \in anchored' <=> j \in anchored
    BY <1>t, <2>1 DEF TypeInv
  <2>4. NoOrphanRegion'
    BY SMTT(30), <1>t, <1>s, <1>2, <2>3 DEF NoOrphanRegion, Known, Store!Loaded
  <2>5. PlacesInv'
    BY SMTT(30), <1>t, <1>s, <2>3 DEF PlacesInv, Known, Store!Loaded
  <2>6. MappingInv' /\ NothingGained
    BY <1>t, <1>s, SameMappings DEF NothingGained
  <2> QED BY <1>s, <2>2, <2>4, <2>5, <2>6, StoreStep
<1> QED BY <1>1, <1>2

\* The next start of the manager.
LEMMA RestartHolds == ASSUME ClientInv, Restart PROVE ClientInv'
<1>1. TypeInv'
  BY DEF ClientInv, ShareInv, TypeInv, Restart, Store!Restart, NoMaps
<1>2. MappingInv' /\ HandlesBacked'
  BY DEF MappingInv, HandlesBacked, Restart, Idle, NoMaps
<1>3. MapcountExact'
  BY NoneAssumption DEF MapcountExact, Known, Restart, NoMaps
<1>4. NoOrphanRegion' /\ PlacesInv'
  BY SMTT(30) DEF NoOrphanRegion, PlacesInv, Known, Restart, Store!Restart, Store!Loaded
<1>5. SegmentInv'
  BY SMTT(30) DEF SegmentInv, SegmentsApart, HandleSegments, AnswerSegments, FaultSegments, Known, Restart
<1> QED BY <1>1, <1>2, <1>3, <1>4, <1>5 DEF ClientInv, ShareInv

(***************************************************************************)
(* Mappings.                                                               *)
(***************************************************************************)

\* There are finitely many mappings, and the map counts are their numbers.
LEMMA MapsAreFinite ==
    \A id : /\ IsFiniteSet(Maps(id)) /\ Cardinality(Maps(id)) \in Nat
            /\ IsFiniteSet(Maps(id)') /\ Cardinality(Maps(id)') \in Nat
<1>1. IsFiniteSet(Clients \X Windows)
  BY ClientsAssumption, FS_Product
<1>2. \A id : Maps(id) \in SUBSET (Clients \X Windows) /\ Maps(id)' \in SUBSET (Clients \X Windows)
  BY DEF Maps
<1>3. \A id : IsFiniteSet(Maps(id)) /\ IsFiniteSet(Maps(id)')
  BY <1>1, <1>2, FS_Subset
<1> QED BY <1>3, FS_CardinalityType

\* MapcountExact in terms of Maps.
LEMMA Counts ==
    MapcountExact <=>
        \A id \in Ids : /\ Known(id) => regions[id].mapcount = Cardinality(Maps(id))
                        /\ ~Known(id) => Maps(id) = {}
BY DEF MapcountExact, Maps

\* The counts after a step, in terms of Maps.
LEMMA CountsAfter ==
    ASSUME \A id \in Ids : /\ Known(id)' => regions'[id].mapcount = Cardinality(Maps(id)')
                           /\ ~Known(id)' => Maps(id)' = {}
    PROVE  MapcountExact'
BY DEF MapcountExact, Maps, Known

\* A window for which a process that makes calls has no handle is not mapped.
LEMMA UnusedIsUnmapped ==
    ASSUME ClientInv, NEW c \in Clients, NEW w \in Windows,
           Serving(c), Unused(c, w), lib[c].at # "granted"
    PROVE  mappings[c][w] = None
BY DEF ClientInv, ShareInv, MappingInv, Unused

\* One more mapping, in a window that was free.
LEMMA OneMore ==
    ASSUME TypeInv, NEW c \in Clients, NEW w \in Windows, NEW id \in Ids,
           mappings[c][w] = None, mappings' = [mappings EXCEPT ![c][w] = id]
    PROVE  /\ Maps(id)' = Maps(id) \cup {<<c, w>>} /\ <<c, w>> \notin Maps(id)
           /\ Cardinality(Maps(id)') = Cardinality(Maps(id)) + 1
           /\ \A j \in Ids : j # id => Maps(j)' = Maps(j)
<1>1. \A d \in Clients, z \in Windows :
        mappings'[d][z] = IF d = c /\ z = w THEN id ELSE mappings[d][z]
  BY DEF TypeInv
<1>2. Maps(id)' = Maps(id) \cup {<<c, w>>} /\ <<c, w>> \notin Maps(id)
  BY SMTT(30), <1>1, NoneAssumption DEF Maps
<1>3. \A j \in Ids : j # id => Maps(j)' = Maps(j)
  BY SMTT(30), <1>1, NoneAssumption DEF Maps
<1>4. Cardinality(Maps(id) \cup {<<c, w>>}) = Cardinality(Maps(id)) + 1
  BY <1>2, MapsAreFinite, FS_AddElement
<1> QED BY <1>2, <1>3, <1>4

\* A new segment id is nobody's.
LEMMA FreshIsNew ==
    ASSUME FreshSegid \in Segids \ UsedSegids
    PROVE  /\ FreshSegid \in Nat
           /\ \A i \in Ids : Known(i) => regions[i].segid # FreshSegid
           /\ \A c \in Clients, w \in Windows : handles[c][w] # None => handles[c][w].segid # FreshSegid
           /\ \A c \in Clients : lib[c].at = "granted" => lib[c].segid # FreshSegid
           /\ \A c \in Clients : fault[c] # None => fault[c].segid # FreshSegid
<1>1. FreshSegid \in Nat
  BY SMTT(30) DEF Segids
<1>2. \A c \in Clients, w \in Windows : handles[c][w] # None => handles[c][w].segid # FreshSegid
  <2> SUFFICES ASSUME NEW c \in Clients, NEW w \in Windows, handles[c][w] # None
               PROVE  handles[c][w].segid \in UsedSegids
    OBVIOUS
  <2>1. <<c, w>> \in {y \in Clients \X Windows : handles[y[1]][y[2]] # None}
    OBVIOUS
  <2>2. \E x \in {y \in Clients \X Windows : handles[y[1]][y[2]] # None} :
            handles[c][w].segid = handles[x[1]][x[2]].segid
    BY <2>1
  <2> QED BY <2>2 DEF UsedSegids
<1>3. \A i \in Ids : Known(i) => regions[i].segid # FreshSegid
  BY DEF UsedSegids
<1>4. \A c \in Clients : lib[c].at = "granted" => lib[c].segid # FreshSegid
  BY DEF UsedSegids
<1>5. \A c \in Clients : fault[c] # None => fault[c].segid # FreshSegid
  BY DEF UsedSegids
<1> QED BY <1>1, <1>2, <1>3, <1>4, <1>5

\* The manager grants a process a mapping: the process will attach the segment that the
\* region then has, and other regions keep theirs.
GrantsMapping(c, w, id, g) ==
    /\ Serving(c) /\ Unused(c, w) /\ lib[c].at # "granted" /\ lib[c].at # "released"
    /\ mappings' = [mappings EXCEPT ![c][w] = id]
    /\ lib' = [lib EXCEPT ![c] = g]
    /\ g \in Grants /\ g.at = "granted" /\ g.w = w /\ g.id = id
    /\ Known(id)' /\ regions'[id].segid = g.segid
    /\ \A j \in Ids : Known(j) => Known(j)' /\ regions'[j].segid = regions[j].segid
    /\ UNCHANGED <<thread, proc, handles>>

\* The manager's answer to alloc or map.
LEMMA AnswerHas ==
    ASSUME NEW w \in Windows, NEW id \in Ids, NEW n \in Nat, NEW s \in Nat, NEW g,
           g = Granted(w, id, n, s)
    PROVE  g \in Grants /\ g.at = "granted" /\ g.w = w /\ g.id = id /\ g.segid = s
BY DEF Granted, Grants

\* The new mapping and what the process knows of it agree.
LEMMA GrantHolds ==
    ASSUME ClientInv, NEW c \in Clients, NEW w \in Windows, NEW id \in Ids, NEW g,
           GrantsMapping(c, w, id, g)
    PROVE  MappingInv' /\ HandlesBacked'
<1>t. TypeInv /\ MappingInv /\ HandlesBacked
  BY Parts
<1>g. g.at = "granted" /\ g.w = w /\ g.id = id
  BY DEF GrantsMapping
<1>k. /\ Known(id)' /\ regions'[id].segid = g.segid
      /\ \A j \in Ids : Known(j) => Known(j)' /\ regions'[j].segid = regions[j].segid
  BY DEF GrantsMapping
<1>s. Serving(c) /\ handles[c][w] = None /\ UNCHANGED <<thread, proc, handles>>
  BY DEF GrantsMapping, Unused
<1>m. /\ mappings'[c][w] = id /\ \A d \in Clients : d # c => mappings'[d] = mappings[d]
      /\ \A d \in Clients, z \in Windows : ~(d = c /\ z = w) => mappings'[d][z] = mappings[d][z]
  BY <1>t DEF GrantsMapping, TypeInv
<1>b. /\ lib'[c] = g /\ \A d \in Clients : d # c => lib'[d] = lib[d]
      /\ lib[c].at # "granted" /\ lib[c].at # "released"
  BY <1>t DEF GrantsMapping, TypeInv
<1>1. MappingInv'
  BY SMTT(30), <1>t, <1>g, <1>s, <1>m, <1>b DEF MappingInv, Serving
<1>2. HandlesBacked'
  <2> SUFFICES ASSUME NEW d \in Clients, NEW z \in Windows, NEW i, i = mappings'[d][z], i # None
               PROVE  /\ handles[d][z] # None =>
                            /\ handles[d][z].id = i /\ Known(i)'
                            /\ handles[d][z].segid = regions'[i].segid
                      /\ lib'[d].at = "granted" /\ lib'[d].w = z =>
                            /\ lib'[d].id = i /\ Known(i)' /\ lib'[d].segid = regions'[i].segid
    BY SMTT(30), <1>s DEF HandlesBacked, Known
  <2>1. CASE d = c /\ z = w
    BY <2>1, <1>g, <1>k, <1>s, <1>m, <1>b
  <2>2. CASE ~(d = c /\ z = w)
    <3>1. i = mappings[d][z] /\ i \in Ids
      BY SMTT(30), <2>2, <1>t, <1>m DEF TypeInv
    <3>2. /\ handles[d][z] # None =>
                handles[d][z].id = i /\ Known(i) /\ handles[d][z].segid = regions[i].segid
          /\ lib[d].at = "granted" /\ lib[d].w = z =>
                lib[d].id = i /\ Known(i) /\ lib[d].segid = regions[i].segid
      BY SMTT(30), <1>t, <3>1 DEF HandlesBacked
    <3>3. lib'[d].at = "granted" /\ lib'[d].w = z => lib'[d] = lib[d]
      BY <2>2, <1>b, <1>g
    <3> QED BY <3>1, <3>2, <3>3, <1>k
  <2> QED BY <2>1, <2>2
<1> QED BY <1>1, <1>2

\* What add_region is called with: a region of the buffer manager, in a place that no
\* other region has, of which this is the first mapping.
AddsRegion(c, w, id, a, n, m) ==
    /\ n > 0 /\ ~Known(id)
    /\ Serving(c) /\ Unused(c, w) /\ lib[c].at # "granted" /\ lib[c].at # "released"
    /\ add_region(c, w, id, a, n)
    /\ nr_pages' \in [Ids -> Nat] /\ addr' \in [Ids -> Nat \cup {None}]
    /\ anchored' \subseteq Ids /\ file_pages' \in [Ids -> Int]
    /\ nr_pages'[id] = n /\ addr'[id] = a
    /\ \A j \in Ids : j # id => /\ nr_pages'[j] = nr_pages[j] /\ addr'[j] = addr[j]
                                /\ j \in anchored => j \in anchored'
    /\ \A j \in Ids : j # id /\ Store!Loaded(j) => a + n <= addr[j] \/ addr[j] + nr_pages[j] <= a
    /\ lib' = [lib EXCEPT ![c] = Granted(w, id, m, FreshSegid)]
    /\ UNCHANGED <<thread, proc, handles, fault>>

\* m_regions and the mappings after add_region.
LEMMA RegionAdded ==
    ASSUME ClientInv, NEW c \in Clients, NEW w \in Windows, NEW id \in Ids,
           NEW a \in Nat, NEW n \in Nat, NEW m \in Nat, AddsRegion(c, w, id, a, n, m)
    PROVE  /\ regions' \in [Ids -> Regions \cup {None}]
           /\ Known(id)' /\ regions'[id].addr = a /\ regions'[id].size = n
           /\ regions'[id].segid = FreshSegid /\ regions'[id].mapcount = 1
           /\ \A j \in Ids : j # id => regions'[j] = regions[j] /\ (Known(j)' <=> Known(j))
<1>t. TypeInv
  BY Parts
<1> DEFINE r == [addr |-> a, size |-> n, segid |-> FreshSegid, mapcount |-> 1]
<1>a. regions' = [regions EXCEPT ![id] = r] /\ FreshSegid \in Segids \ UsedSegids
  BY DEF AddsRegion, add_region
<1>f. FreshSegid \in Nat
  BY SMTT(30), <1>a DEF Segids
<1>r. r \in Regions /\ r # None /\ r.addr = a /\ r.size = n /\ r.segid = FreshSegid /\ r.mapcount = 1
  BY SMTT(30), <1>f, NoneAssumption DEF Regions
<1> HIDE DEF r
<1>1. /\ regions' \in [Ids -> Regions \cup {None}] /\ regions'[id] = r
      /\ \A j \in Ids : j # id => regions'[j] = regions[j]
  BY <1>t, <1>a, <1>r DEF TypeInv
<1> QED BY <1>1, <1>r DEF Known

\* add_region: a region whose first mapping this is gets a segment of its own, and a
\* place that no other region has.
LEMMA AddRegionHolds ==
    ASSUME ClientInv, NEW c \in Clients, NEW w \in Windows, NEW id \in Ids,
           NEW a \in Nat, NEW n \in Nat, NEW m \in Nat, AddsRegion(c, w, id, a, n, m)
    PROVE  ClientInv'
<1>t. TypeInv /\ MapcountExact /\ NoOrphanRegion /\ PlacesInv /\ SegmentInv
  BY Parts
<1>s. /\ UNCHANGED <<thread, proc, handles, fault>> /\ mappings' = [mappings EXCEPT ![c][w] = id]
      /\ lib' = [lib EXCEPT ![c] = Granted(w, id, m, FreshSegid)]
  BY DEF AddsRegion, add_region
<1>c. n > 0 /\ ~Known(id) /\ Serving(c) /\ Unused(c, w) /\ lib[c].at # "granted" /\ lib[c].at # "released"
  BY DEF AddsRegion
<1>f. /\ FreshSegid \in Nat
      /\ \A i \in Ids : Known(i) => regions[i].segid # FreshSegid
      /\ \A d \in Clients, z \in Windows : handles[d][z] # None => handles[d][z].segid # FreshSegid
      /\ \A d \in Clients : lib[d].at = "granted" => lib[d].segid # FreshSegid
      /\ \A d \in Clients : fault[d] # None => fault[d].segid # FreshSegid
  <2>1. FreshSegid \in Segids \ UsedSegids
    BY DEF AddsRegion, add_region
  <2> QED BY <2>1, FreshIsNew
<1>r. /\ regions' \in [Ids -> Regions \cup {None}]
      /\ Known(id)' /\ regions'[id].addr = a /\ regions'[id].size = n
      /\ regions'[id].segid = FreshSegid /\ regions'[id].mapcount = 1
  BY SMTT(30), RegionAdded
<1>o. \A j \in Ids : j # id => regions'[j] = regions[j] /\ (Known(j)' <=> Known(j))
  BY RegionAdded
<1>g. PICK g : g = Granted(w, id, m, FreshSegid)
  OBVIOUS
<1>k. g \in Grants /\ g.at = "granted" /\ g.w = w /\ g.id = id /\ g.segid = FreshSegid
  BY SMTT(30), <1>f, <1>g, AnswerHas
<1>b. lib'[c] = g /\ \A d \in Clients : d # c => lib'[d] = lib[d]
  BY <1>t, <1>s, <1>g, <1>k DEF TypeInv
<1>1. TypeInv'
  <2>1. /\ nr_pages' \in [Ids -> Nat] /\ addr' \in [Ids -> Nat \cup {None}]
        /\ anchored' \subseteq Ids /\ file_pages' \in [Ids -> Int]
    BY DEF AddsRegion
  <2> QED BY SMTT(30), <1>t, <1>s, <1>r, <1>g, <1>k, <2>1 DEF TypeInv
<1>2. MappingInv' /\ HandlesBacked'
  <2>1. GrantsMapping(c, w, id, g)
    BY <1>s, <1>c, <1>r, <1>o, <1>g, <1>k DEF GrantsMapping
  <2> QED BY <2>1, GrantHolds
<1>3. MapcountExact'
  <2>1. Maps(id) = {} /\ mappings[c][w] = None
    BY <1>t, <1>c, Counts, UnusedIsUnmapped
  <2>2. /\ Cardinality(Maps(id)') = Cardinality(Maps(id)) + 1
        /\ \A j \in Ids : j # id => Maps(j)' = Maps(j)
    BY <1>t, <1>s, <2>1, OneMore
  <2>3. Cardinality({}) = 0
    BY FS_EmptySet
  <2>4. Cardinality(Maps(id)') = 1
    BY SMTT(30), <2>1, <2>2, <2>3
  <2>5. \A j \in Ids : /\ Known(j)' => regions'[j].mapcount = Cardinality(Maps(j)')
                       /\ ~Known(j)' => Maps(j)' = {}
    BY <1>t, <1>r, <1>o, <2>2, <2>4, Counts
  <2> QED BY <2>5, CountsAfter
<1>p. /\ nr_pages'[id] = n /\ addr'[id] = a
      /\ \A j \in Ids : j # id => /\ nr_pages'[j] = nr_pages[j] /\ addr'[j] = addr[j]
                                  /\ j \in anchored => j \in anchored'
      /\ \A j \in Ids : j # id /\ nr_pages[j] > 0 => a + n <= addr[j] \/ addr[j] + nr_pages[j] <= a
  BY DEF AddsRegion, Store!Loaded
<1>4. NoOrphanRegion'
  BY <1>t, <1>c, <1>r, <1>o, <1>p DEF NoOrphanRegion, Store!Loaded
<1>5. PlacesInv'
  <2>1. \A i \in Ids : addr'[i] # None <=> nr_pages'[i] > 0
    BY <1>t, <1>c, <1>p, NoneAssumption DEF PlacesInv, Store!Loaded
  <2>2. \A i, j \in Ids : i # j /\ nr_pages'[i] > 0 /\ nr_pages'[j] > 0 =>
          addr'[i] + nr_pages'[i] <= addr'[j] \/ addr'[j] + nr_pages'[j] <= addr'[i]
    BY <1>t, <1>p DEF PlacesInv, Store!Loaded
  <2>3. \A i \in Ids : Known(i) => i # id /\ regions[i].addr # a
    <3> SUFFICES ASSUME NEW i \in Ids, Known(i) PROVE i # id /\ regions[i].addr # a
      OBVIOUS
    <3>1. i # id
      BY <1>c
    <3>2. regions[i].addr = addr[i] /\ nr_pages[i] > 0
      BY <1>t DEF NoOrphanRegion, Store!Loaded
    <3>3. nr_pages[i] \in Nat /\ addr[i] \in Nat
      BY <1>t, <3>2 DEF TypeInv, PlacesInv, Store!Loaded
    <3> QED BY SMTT(30), <1>c, <1>p, <3>1, <3>2, <3>3
  <2>4. region_map' = {<<regions'[i].addr, i>> : i \in {j \in Ids : Known(j)'}}
    <3>1. region_map = {<<regions[i].addr, i>> : i \in {j \in Ids : Known(j)}}
      BY <1>t DEF PlacesInv
    <3>2. {e \in region_map : e[1] # a} = region_map
      BY SMTT(30), <3>1, <2>3
    <3>3. region_map' = region_map \cup {<<a, id>>}
      BY <3>2 DEF AddsRegion, add_region
    <3> QED BY <3>1, <3>3, <2>3, <1>r, <1>o
  <2> QED BY <2>1, <2>2, <2>4 DEF PlacesInv, Store!Loaded, Known
<1>6. SegmentInv'
  <2>0. SegmentInv
    BY Parts
  <2>1. SegmentsApart'
    BY SMTT(30), <2>0, <1>f, <1>r, <1>o DEF SegmentInv, SegmentsApart
  <2>2. HandleSegments'
    BY SMTT(30), <2>0, <1>s, <1>f, <1>r, <1>o DEF SegmentInv, HandleSegments
  <2>3. AnswerSegments'
    BY SMTT(30), <2>0, <1>f, <1>r, <1>o, <1>k, <1>b DEF SegmentInv, AnswerSegments
  <2>4. FaultSegments'
    BY SMTT(30), <2>0, <1>s, <1>f, <1>r, <1>o DEF SegmentInv, FaultSegments
  <2> QED BY <2>1, <2>2, <2>3, <2>4 DEF SegmentInv
<1> QED BY <1>1, <1>2, <1>3, <1>4, <1>5, <1>6 DEF ClientInv, ShareInv

\* A new region is allocated and gets its first mapping.
LEMMA AllocateNewHolds ==
    ASSUME ClientInv, NEW c \in Clients, NEW w \in Windows, NEW id \in Ids, NEW n \in Sizes,
           NEW pers \in BOOLEAN, AllocateNew(c, w, id, n, pers)
    PROVE  ClientInv'
<1>t. TypeInv /\ PlacesInv
  BY Parts
<1>i. lib[c].at # "granted" /\ lib[c].at # "released" /\ Serving(c) /\ Unused(c, w) /\ ~Known(id)
  <2>1. lib[c] = Idle
    BY DEF AllocateNew, Ready
  <2> QED BY SMTT(30), <2>1 DEF AllocateNew, Ready, Idle
<1>n. n \in Nat /\ n > 0
  BY SMTT(30), SizesAssumption
<1>a. PICK a \in 0 .. Space - 1 :
        FreeAt(a, n) /\ addr' = [addr EXCEPT ![id] = a] /\ add_region(c, w, id, a, n)
  BY DEF AllocateNew
<1>1. a \in Nat /\ addr' \in [Ids -> Nat \cup {None}] /\ addr'[id] = a
  BY SMTT(30), <1>t, <1>a, SpaceAssumption DEF TypeInv
<1>2. /\ nr_pages' = [nr_pages EXCEPT ![id] = n] /\ anchored' = anchored
      /\ file_pages' = file_pages \/ file_pages' = [file_pages EXCEPT ![id] = n]
  BY DEF AllocateNew, Store!allocate
<1>l. lib' = [lib EXCEPT ![c] = Granted(w, id, n, FreshSegid)] /\ UNCHANGED <<thread, proc, handles, fault>>
  BY DEF AllocateNew
<1>3. /\ nr_pages' \in [Ids -> Nat] /\ nr_pages'[id] = n /\ file_pages' \in [Ids -> Int]
      /\ anchored' \subseteq Ids
  BY SMTT(30), <1>t, <1>2, <1>n DEF TypeInv
<1>4. \A j \in Ids : j # id => /\ nr_pages'[j] = nr_pages[j] /\ addr'[j] = addr[j]
                               /\ j \in anchored => j \in anchored'
  BY <1>t, <1>a, <1>2 DEF TypeInv
<1>5. \A j \in Ids : j # id /\ Store!Loaded(j) => a + n <= addr[j] \/ addr[j] + nr_pages[j] <= a
  BY <1>t, <1>a DEF FreeAt, PlacesInv
<1>6. AddsRegion(c, w, id, a, n, n)
  BY <1>i, <1>n, <1>a, <1>1, <1>l, <1>3, <1>4, <1>5 DEF AddsRegion
<1> QED BY <1>n, <1>1, <1>6, AddRegionHolds

\* The first mapping of a region that the buffer manager has, or loads now.
LEMMA MapAnchoredHolds ==
    ASSUME ClientInv, NEW c \in Clients, NEW w \in Windows, MapAnchored(c, w)
    PROVE  ClientInv'
<1>t. TypeInv /\ PlacesInv
  BY Parts
<1>d. PICK id \in Ids, m \in Nat : id = lib[c].id /\ m = lib[c].n
  BY <1>t, LibStates DEF MapAnchored
<1>i. lib[c].at = "sized" /\ Serving(c) /\ Unused(c, w) /\ ~Known(id)
  BY <1>d DEF MapAnchored
<1>s. /\ add_region(c, w, id, addr'[id], nr_pages'[id])
      /\ UNCHANGED <<thread, proc, handles, fault>>
      /\ (Store!Loaded(id) /\ UNCHANGED <<store, addr>>) \/ LoadAnchored(id)
  BY <1>d DEF MapAnchored
<1>l. lib' = [lib EXCEPT ![c] = Granted(w, id, m, FreshSegid)]
  BY <1>t, <1>d DEF MapAnchored, TypeInv
<1> DEFINE Apart ==
      /\ nr_pages' \in [Ids -> Nat] /\ addr' \in [Ids -> Nat \cup {None}]
      /\ anchored' \subseteq Ids /\ file_pages' \in [Ids -> Int]
      /\ addr'[id] \in Nat /\ nr_pages'[id] \in Nat /\ nr_pages'[id] > 0
      /\ \A j \in Ids : j # id => /\ nr_pages'[j] = nr_pages[j] /\ addr'[j] = addr[j]
                                  /\ j \in anchored => j \in anchored'
      /\ \A j \in Ids : j # id /\ Store!Loaded(j) =>
            addr'[id] + nr_pages'[id] <= addr[j] \/ addr[j] + nr_pages[j] <= addr'[id]
<1>1. ASSUME Store!Loaded(id), UNCHANGED <<store, addr>> PROVE Apart
  <2>1. nr_pages' \in [Ids -> Nat] /\ addr' \in [Ids -> Nat \cup {None}]
        /\ anchored' \subseteq Ids /\ file_pages' \in [Ids -> Int]
    BY <1>1, <1>t DEF TypeInv
  <2>2. addr'[id] \in Nat /\ nr_pages'[id] \in Nat /\ nr_pages'[id] > 0
    BY <1>1, <1>t, <2>1 DEF PlacesInv, Store!Loaded
  <2>3. \A j \in Ids : j # id /\ Store!Loaded(j) =>
            addr'[id] + nr_pages'[id] <= addr[j] \/ addr[j] + nr_pages[j] <= addr'[id]
    BY <1>1, <1>t DEF PlacesInv
  <2>4. \A j \in Ids : j # id => /\ nr_pages'[j] = nr_pages[j] /\ addr'[j] = addr[j]
                                 /\ j \in anchored => j \in anchored'
    BY <1>1
  <2> QED BY <2>1, <2>2, <2>3, <2>4
<1>2. ASSUME LoadAnchored(id) PROVE Apart
  <2>1. /\ nr_pages' \in [Ids -> Nat] /\ addr' \in [Ids -> Nat \cup {None}]
        /\ addr'[id] \in Nat /\ nr_pages'[id] \in Nat /\ nr_pages'[id] > 0
    BY <1>2, <1>t, Loads
  <2>2. \A j \in Ids : j # id => nr_pages'[j] = nr_pages[j] /\ addr'[j] = addr[j]
    BY <1>2, <1>t, Loads
  <2>3. anchored' \subseteq Ids /\ file_pages' \in [Ids -> Int] /\ anchored \subseteq anchored'
    BY <1>2, <1>t, Loads DEF TypeInv
  <2>4. \A j \in Ids : j # id /\ Store!Loaded(j) =>
            addr'[id] + nr_pages'[id] <= addr[j] \/ addr[j] + nr_pages[j] <= addr'[id]
    BY <1>2, <1>t, Loads
  <2> QED BY <2>1, <2>2, <2>3, <2>4
<1>3. Apart
  BY <1>s, <1>1, <1>2
<1>4. AddsRegion(c, w, id, addr'[id], nr_pages'[id], m)
  BY <1>i, <1>s, <1>l, <1>3 DEF AddsRegion
<1>5. addr'[id] \in Nat /\ nr_pages'[id] \in Nat
  BY <1>3
<1> HIDE DEF Apart
<1> QED BY <1>4, <1>5, AddRegionHolds

\* One more mapping of a region: mapcount counts it.
LEMMA MapKnownHolds ==
    ASSUME ClientInv, NEW c \in Clients, NEW w \in Windows, MapKnown(c, w)
    PROVE  ClientInv'
<1>t. TypeInv /\ MapcountExact /\ NoOrphanRegion /\ PlacesInv /\ SegmentInv
  BY Parts
<1>d. PICK id \in Ids, m \in Nat : id = lib[c].id /\ m = lib[c].n
  BY <1>t, LibStates DEF MapKnown
<1>i. lib[c].at = "sized" /\ Serving(c) /\ Unused(c, w) /\ Known(id)
  BY <1>d DEF MapKnown
<1>o. PICK o \in Regions : o = regions[id]
  BY <1>t, <1>i DEF TypeInv, Known
<1>p. PICK r : r = [o EXCEPT !.mapcount = @ + 1]
  OBVIOUS
<1>r. /\ r \in Regions /\ r # None /\ r.addr = o.addr /\ r.size = o.size /\ r.segid = o.segid
      /\ r.mapcount = o.mapcount + 1 /\ o.segid \in Nat
  BY SMTT(30), <1>p, NoneAssumption DEF Regions
<1>s. /\ mappings' = [mappings EXCEPT ![c][w] = id]
      /\ UNCHANGED <<nr_pages, anchored, file_pages, addr, region_map, thread, proc, handles, fault>>
  BY <1>d DEF MapKnown
<1>e. regions' = [regions EXCEPT ![id] = r]
  BY <1>d, <1>o, <1>p DEF MapKnown, Remapped
<1>g. PICK g : g = Granted(w, id, m, o.segid)
  OBVIOUS
<1>l. lib' = [lib EXCEPT ![c] = g]
  BY <1>t, <1>d, <1>o, <1>g DEF MapKnown, TypeInv
<1>a. g \in Grants /\ g.at = "granted" /\ g.w = w /\ g.id = id /\ g.segid = o.segid
  BY SMTT(30), <1>r, <1>g, AnswerHas
<1>b. lib'[c] = g /\ \A d \in Clients : d # c => lib'[d] = lib[d]
  BY <1>t, <1>l DEF TypeInv
<1>k. regions'[id] = r /\ \A j \in Ids : j # id => regions'[j] = regions[j]
  BY <1>t, <1>e DEF TypeInv
<1>n. \A j \in Ids : /\ Known(j)' <=> Known(j)
                     /\ regions'[j].addr = regions[j].addr /\ regions'[j].size = regions[j].size
                     /\ regions'[j].segid = regions[j].segid
  BY <1>k, <1>i, <1>o, <1>r DEF Known
<1>1. TypeInv'
  BY <1>t, <1>s, <1>e, <1>r, <1>l, <1>a DEF TypeInv
<1>2. MappingInv' /\ HandlesBacked'
  <2>1. GrantsMapping(c, w, id, g)
    BY <1>s, <1>i, <1>o, <1>l, <1>n, <1>a DEF GrantsMapping
  <2> QED BY <2>1, GrantHolds
<1>3. MapcountExact'
  <2>1. mappings[c][w] = None
    BY <1>i, UnusedIsUnmapped
  <2>2. /\ Cardinality(Maps(id)') = Cardinality(Maps(id)) + 1
        /\ \A j \in Ids : j # id => Maps(j)' = Maps(j)
    BY <1>t, <1>s, <2>1, OneMore
  <2>3. regions'[id].mapcount = Cardinality(Maps(id)')
    <3>1. o.mapcount = Cardinality(Maps(id))
      BY <1>t, <1>i, <1>o, Counts
    <3> QED BY <3>1, <2>2, <1>k, <1>r
  <2>4. \A j \in Ids : /\ Known(j)' => regions'[j].mapcount = Cardinality(Maps(j)')
                       /\ ~Known(j)' => Maps(j)' = {}
    BY <1>t, <1>i, <1>k, <1>n, <2>2, <2>3, Counts
  <2> QED BY <2>4, CountsAfter
<1>4. NoOrphanRegion'
  BY <1>t, <1>s, <1>n DEF NoOrphanRegion, Store!Loaded
<1>5. PlacesInv'
  BY SMTT(30), <1>t, <1>s, <1>n DEF PlacesInv, Store!Loaded
<1>6. SegmentInv'
  <2>0. SegmentInv
    BY Parts
  <2>1. SegmentsApart'
    BY SMTT(30), <2>0, <1>s, <1>n DEF SegmentInv, SegmentsApart
  <2>2. HandleSegments'
    BY SMTT(30), <2>0, <1>s, <1>n DEF SegmentInv, HandleSegments
  <2>3. AnswerSegments'
    BY SMTT(30), <2>0, <1>i, <1>o, <1>a, <1>b, <1>n DEF SegmentInv, SegmentsApart, AnswerSegments
  <2>4. FaultSegments'
    BY SMTT(30), <2>0, <1>s, <1>n DEF SegmentInv, FaultSegments
  <2> QED BY <2>1, <2>2, <2>3, <2>4 DEF SegmentInv
<1> QED BY <1>1, <1>2, <1>3, <1>4, <1>5, <1>6 DEF ClientInv, ShareInv

\* What unmap is called for: count[id] mappings of each id go, and no process gets
\* anything.
Unmaps(count, stuck) ==
    /\ count \in [Ids -> Nat] /\ stuck \in SUBSET LastUnmapped(count)
    /\ unmap(count, stuck)
    /\ \A id \in Ids : /\ count[id] <= Cardinality(Maps(id))
                       /\ Cardinality(Maps(id)') = Cardinality(Maps(id)) - count[id]
    /\ \A c \in Clients, w \in Windows : mappings'[c][w] = mappings[c][w] \/ mappings'[c][w] = None
    /\ \A c \in Clients : lib'[c].at = "granted" => lib'[c] = lib[c]
    /\ UNCHANGED <<handles, fault>>

\* The regions that unmap removes have no mapping left, and the others stay as they are
\* but for their counts.
LEMMA RegionsUnmapped ==
    ASSUME ClientInv, NEW count, NEW stuck, Unmaps(count, stuck),
           NEW gone, gone = LastUnmapped(count) \ stuck
    PROVE  /\ gone \subseteq Ids /\ regions' \in [Ids -> Regions \cup {None}]
           /\ \A id \in Ids : id \in gone => Known(id) /\ Maps(id)' = {}
           /\ \A id \in Ids : Known(id)' <=> Known(id) /\ id \notin gone
           /\ \A id \in Ids : Known(id)' =>
                /\ regions'[id].addr = regions[id].addr /\ regions'[id].size = regions[id].size
                /\ regions'[id].segid = regions[id].segid
                /\ regions'[id].mapcount = Cardinality(Maps(id)')
<1>t. TypeInv /\ MapcountExact
  BY Parts
<1>c. \A id \in Ids : Known(id) => regions[id] \in Regions /\ regions[id].mapcount = Cardinality(Maps(id))
  <2>1. \A id \in Ids : Known(id) => regions[id] \in Regions
    BY <1>t DEF TypeInv, Known
  <2> QED BY <1>t, <2>1, Counts
<1>u. \A id \in Ids : /\ count[id] \in Nat /\ count[id] <= Cardinality(Maps(id))
                      /\ Cardinality(Maps(id)') = Cardinality(Maps(id)) - count[id]
  BY DEF Unmaps
<1>f. \A id \in Ids : Cardinality(Maps(id)) \in Nat /\ Cardinality(Maps(id)') \in Nat
  BY MapsAreFinite
<1> DEFINE left(id) == [regions[id] EXCEPT !.mapcount = @ - count[id]]
<1>l. \A id \in Ids : Known(id) =>
        /\ left(id) \in Regions /\ left(id) # None
        /\ left(id).addr = regions[id].addr /\ left(id).size = regions[id].size
        /\ left(id).segid = regions[id].segid /\ left(id).mapcount = Cardinality(Maps(id)')
  <2> SUFFICES ASSUME NEW id \in Ids, Known(id)
               PROVE  /\ left(id) \in Regions /\ left(id) # None
                      /\ left(id).addr = regions[id].addr /\ left(id).size = regions[id].size
                      /\ left(id).segid = regions[id].segid /\ left(id).mapcount = Cardinality(Maps(id)')
    OBVIOUS
  <2>1. regions[id] \in Regions /\ regions[id].mapcount - count[id] = Cardinality(Maps(id)')
    BY <1>c, <1>u, <1>f
  <2>2. regions[id].mapcount - count[id] \in Nat
    BY <2>1, <1>f
  <2> QED BY <2>1, <2>2, NoneAssumption DEF Regions
<1>r. regions' = [id \in Ids |-> IF id \in gone THEN None ELSE IF Known(id) THEN left(id) ELSE None]
  BY DEF Unmaps, unmap
<1> HIDE DEF left
<1>1. gone \subseteq Ids
  BY DEF LastUnmapped
<1>2. \A id \in Ids : id \in gone => Known(id) /\ Maps(id)' = {}
  <2> SUFFICES ASSUME NEW id \in Ids, id \in gone PROVE Known(id) /\ Maps(id)' = {}
    OBVIOUS
  <2>1. Known(id) /\ regions[id].mapcount \in 1 .. count[id]
    BY DEF LastUnmapped
  <2>2. Cardinality(Maps(id)') = 0
    BY SMTT(30), <2>1, <1>c, <1>f, <1>u
  <2>3. IsFiniteSet(Maps(id)')
    BY MapsAreFinite
  <2> QED BY <2>1, <2>2, <2>3, FS_EmptySet
<1>3. regions' \in [Ids -> Regions \cup {None}]
  BY <1>r, <1>l
<1>4. \A id \in Ids : /\ Known(id)' <=> Known(id) /\ id \notin gone
                      /\ Known(id)' => regions'[id] = left(id)
  BY <1>r, <1>l DEF Known
<1> QED BY <1>1, <1>2, <1>3, <1>4, <1>l

\* unmap keeps the counts, and the segments of the mappings that stay.
LEMMA UnmapKeepsCounts ==
    ASSUME ClientInv, NEW count, NEW stuck, Unmaps(count, stuck)
    PROVE  MapcountExact' /\ HandlesBacked'
<1>t. TypeInv /\ MapcountExact /\ HandlesBacked
  BY Parts
<1>g. PICK gone : gone = LastUnmapped(count) \ stuck
  OBVIOUS
<1>r. /\ \A id \in Ids : id \in gone => Known(id) /\ Maps(id)' = {}
      /\ \A id \in Ids : Known(id)' <=> Known(id) /\ id \notin gone
      /\ \A id \in Ids : Known(id)' => /\ regions'[id].segid = regions[id].segid
                                       /\ regions'[id].mapcount = Cardinality(Maps(id)')
  BY <1>g, RegionsUnmapped
<1>c. \A id \in Ids : ~Known(id) => Maps(id) = {}
  BY <1>t, Counts
<1>1. MapcountExact'
  <2>1. \A id \in Ids : ~Known(id) => Maps(id)' = {}
    <3> SUFFICES ASSUME NEW id \in Ids, ~Known(id) PROVE Maps(id)' = {}
      OBVIOUS
    <3>1. Cardinality(Maps(id)) = 0
      BY <1>c, FS_EmptySet
    <3>2. /\ count[id] \in Nat /\ count[id] <= Cardinality(Maps(id))
          /\ Cardinality(Maps(id)') = Cardinality(Maps(id)) - count[id]
      BY DEF Unmaps
    <3>3. Cardinality(Maps(id)') = 0
      BY SMTT(30), <3>1, <3>2
    <3> QED BY <3>3, MapsAreFinite, FS_EmptySet
  <2>2. \A id \in Ids : /\ Known(id)' => regions'[id].mapcount = Cardinality(Maps(id)')
                        /\ ~Known(id)' => Maps(id)' = {}
    BY <2>1, <1>r
  <2> QED BY <2>2, CountsAfter
<1>2. HandlesBacked'
  <2>h. handles' = handles /\ \A d \in Clients : lib'[d].at = "granted" => lib'[d] = lib[d]
    BY DEF Unmaps
  <2>m. \A d \in Clients, z \in Windows : mappings'[d][z] = mappings[d][z] \/ mappings'[d][z] = None
    BY DEF Unmaps
  <2> SUFFICES ASSUME NEW d \in Clients, NEW z \in Windows, NEW i, i = mappings'[d][z], i # None
               PROVE  /\ handles[d][z] # None =>
                            /\ handles[d][z].id = i /\ Known(i)'
                            /\ handles[d][z].segid = regions'[i].segid
                      /\ lib'[d].at = "granted" /\ lib'[d].w = z =>
                            /\ lib'[d].id = i /\ Known(i)' /\ lib'[d].segid = regions'[i].segid
    BY SMTT(30), <2>h DEF HandlesBacked, Known
  <2>1. i = mappings[d][z]
    BY <2>m
  <2>2. i \in Ids
    BY SMTT(30), <1>t, <2>1 DEF TypeInv
  <2>3. <<d, z>> \in Maps(i) /\ <<d, z>> \in Maps(i)'
    BY <2>1 DEF Maps
  <2>4. Known(i)' /\ regions'[i].segid = regions[i].segid
    <3>1. Maps(i) # {} /\ Maps(i)' # {}
      BY <2>3
    <3> QED BY <3>1, <2>2, <1>c, <1>r
  <2>5. /\ handles[d][z] # None => handles[d][z].id = i /\ handles[d][z].segid = regions[i].segid
        /\ lib[d].at = "granted" /\ lib[d].w = z => lib[d].id = i /\ lib[d].segid = regions[i].segid
    BY SMTT(30), <1>t, <2>1 DEF HandlesBacked
  <2> QED BY <2>4, <2>5, <2>h
<1> QED BY <1>1, <1>2

\* Regions without mappings go from the client manager and, if not anchored, from the
\* buffer manager.
LEMMA UnmapKeepsRegions ==
    ASSUME ClientInv, NEW count, NEW stuck, Unmaps(count, stuck)
    PROVE  /\ nr_pages' \in [Ids -> Nat] /\ addr' \in [Ids -> Nat \cup {None}]
           /\ anchored' \subseteq Ids /\ file_pages' \in [Ids -> Int]
           /\ NoOrphanRegion' /\ PlacesInv'
<1>t. TypeInv /\ NoOrphanRegion /\ PlacesInv
  BY Parts
<1>g. PICK gone, lost : gone = LastUnmapped(count) \ stuck /\ lost = gone \ anchored
  OBVIOUS
<1>r. /\ gone \subseteq Ids /\ \A id \in Ids : id \in gone => Known(id)
      /\ \A id \in Ids : Known(id)' <=> Known(id) /\ id \notin gone
      /\ \A id \in Ids : Known(id)' =>
            regions'[id].addr = regions[id].addr /\ regions'[id].size = regions[id].size
  BY <1>g, RegionsUnmapped
<1>u. /\ region_map' = {e \in region_map : e[1] \notin {regions[id].addr : id \in gone}}
      /\ nr_pages' = [id \in Ids |-> IF id \in lost THEN 0 ELSE nr_pages[id]]
      /\ anchored' = anchored \ lost
      /\ file_pages' = [id \in Ids |-> IF id \in lost \cap persistent THEN -1 ELSE file_pages[id]]
      /\ addr' = [id \in Ids |-> IF id \in lost THEN None ELSE addr[id]]
  BY <1>g DEF Unmaps, unmap, RegionMapAfter, Store!Drop, Store!NoFile
<1>o. \A id \in Ids : IF id \in lost THEN nr_pages'[id] = 0 /\ addr'[id] = None
                      ELSE nr_pages'[id] = nr_pages[id] /\ addr'[id] = addr[id]
  BY <1>u
<1>1. /\ nr_pages' \in [Ids -> Nat] /\ addr' \in [Ids -> Nat \cup {None}]
      /\ anchored' \subseteq Ids /\ file_pages' \in [Ids -> Int]
  BY SMTT(30), <1>t, <1>u DEF TypeInv
<1>k. \A id \in Ids : /\ Known(id) => nr_pages[id] > 0 /\ regions[id].addr = addr[id] /\ regions[id].size = nr_pages[id]
                      /\ nr_pages[id] > 0 => Known(id) \/ id \in anchored
  BY <1>t DEF NoOrphanRegion, Store!Loaded
<1>2. NoOrphanRegion'
  <2>1. \A id \in Ids : Known(id)' => /\ nr_pages'[id] > 0 /\ regions'[id].addr = addr'[id]
                                      /\ regions'[id].size = nr_pages'[id]
    BY <1>g, <1>r, <1>k, <1>o
  <2>2. \A id \in Ids : nr_pages'[id] > 0 => Known(id)' \/ id \in anchored'
    BY SMTT(30), <1>g, <1>r, <1>k, <1>o, <1>u
  <2> QED BY <2>1, <2>2 DEF NoOrphanRegion, Known, Store!Loaded
<1>3. PlacesInv'
  <2>1. \A id \in Ids : addr'[id] # None <=> nr_pages'[id] > 0
    BY SMTT(30), <1>t, <1>o DEF PlacesInv, Store!Loaded
  <2>2. \A i, j \in Ids : i # j /\ nr_pages'[i] > 0 /\ nr_pages'[j] > 0 =>
          addr'[i] + nr_pages'[i] <= addr'[j] \/ addr'[j] + nr_pages'[j] <= addr'[i]
    BY SMTT(30), <1>t, <1>o DEF PlacesInv, Store!Loaded
  <2>3. \A i, j \in Ids : Known(i) /\ Known(j) /\ regions[i].addr = regions[j].addr => i = j
    <3> SUFFICES ASSUME NEW i \in Ids, NEW j \in Ids, Known(i), Known(j), i # j
                 PROVE  regions[i].addr # regions[j].addr
      OBVIOUS
    <3>1. /\ regions[i].addr = addr[i] /\ regions[j].addr = addr[j]
          /\ nr_pages[i] > 0 /\ nr_pages[j] > 0
      BY <1>k
    <3>2. /\ addr[i] \in Nat /\ nr_pages[i] \in Nat /\ addr[j] \in Nat /\ nr_pages[j] \in Nat
          /\ addr[i] + nr_pages[i] <= addr[j] \/ addr[j] + nr_pages[j] <= addr[i]
      BY <1>t, <3>1 DEF TypeInv, PlacesInv, Store!Loaded
    <3> QED BY SMTT(30), <3>1, <3>2
  <2>4. region_map' = {<<regions'[i].addr, i>> : i \in {j \in Ids : Known(j)'}}
    <3>1. region_map = {<<regions[i].addr, i>> : i \in {j \in Ids : Known(j)}}
      BY <1>t DEF PlacesInv
    <3>2. \A i \in Ids : Known(i) => (regions[i].addr \in {regions[id].addr : id \in gone} <=> i \in gone)
      BY <2>3, <1>r
    <3>3. region_map' = {<<regions[i].addr, i>> : i \in {j \in Ids : Known(j)'}}
      BY SMTT(30), <3>1, <3>2, <1>r, <1>u
    <3> QED BY <3>3, <1>r
  <2> QED BY <2>1, <2>2, <2>4 DEF PlacesInv, Store!Loaded, Known
<1> QED BY <1>1, <1>2, <1>3

\* unmap, for a set of mappings that go.
LEMMA UnmapHolds ==
    ASSUME ClientInv, NEW count, NEW stuck, Unmaps(count, stuck)
    PROVE  /\ nr_pages' \in [Ids -> Nat] /\ addr' \in [Ids -> Nat \cup {None}]
           /\ anchored' \subseteq Ids /\ file_pages' \in [Ids -> Int]
           /\ regions' \in [Ids -> Regions \cup {None}]
           /\ MapcountExact' /\ HandlesBacked' /\ NoOrphanRegion' /\ PlacesInv' /\ SegmentInv'
<1>2. /\ regions' \in [Ids -> Regions \cup {None}]
      /\ \A i \in Ids : Known(i)' => /\ Known(i) /\ regions'[i].segid = regions[i].segid
                                     /\ regions'[i].addr = regions[i].addr /\ regions'[i].size = regions[i].size
  BY RegionsUnmapped
<1>3. UNCHANGED <<handles, fault>> /\ \A d \in Clients : lib'[d].at = "granted" => lib'[d] = lib[d]
  BY DEF Unmaps
<1>4. SegmentInv'
  <2>0. SegmentInv
    BY Parts
  <2>1. SegmentsApart'
    BY SMTT(30), <2>0, <1>2, <1>3 DEF SegmentInv, SegmentsApart
  <2>2. HandleSegments'
    BY SMTT(30), <2>0, <1>2, <1>3 DEF SegmentInv, HandleSegments
  <2>3. AnswerSegments'
    BY SMTT(30), <2>0, <1>2, <1>3 DEF SegmentInv, AnswerSegments
  <2>4. FaultSegments'
    BY SMTT(30), <2>0, <1>2, <1>3 DEF SegmentInv, FaultSegments
  <2> QED BY <2>1, <2>2, <2>3, <2>4 DEF SegmentInv
<1> QED BY <1>2, <1>4, UnmapKeepsCounts, UnmapKeepsRegions

\* damemory_unmap: one mapping goes.
LEMMA UnmapCallHolds ==
    ASSUME ClientInv, NEW c \in Clients, NEW w \in Windows, Unmap(c, w)
    PROVE  ClientInv'
<1>t. TypeInv /\ MappingInv
  BY Parts
<1>n. mappings[c][w] # None
  BY DEF Unmap
<1>d. PICK id \in Ids : id = mappings[c][w]
  BY SMTT(30), <1>t, <1>n DEF TypeInv
<1>i. lib[c] = Idle /\ Serving(c)
  BY DEF Unmap, Ready
<1>j. lib[c].at = "idle"
  BY SMTT(30), <1>i DEF Idle
<1>s. /\ mappings' = [mappings EXCEPT ![c][w] = None]
      /\ UNCHANGED <<thread, proc, handles, fault>>
  BY DEF Unmap
<1>p. PICK stuck \in SUBSET LastUnmapped(One(id)) :
        /\ unmap(One(id), stuck)
        /\ lib' = IF stuck = {} THEN [lib EXCEPT ![c] = [at |-> "released", w |-> w]] ELSE lib
  BY <1>d DEF Unmap
<1>q. PICK rel : rel = [at |-> "released", w |-> w]
  OBVIOUS
<1>r. rel \in Releases /\ rel.at = "released" /\ rel.w = w
  BY <1>q DEF Releases
<1>l. lib' = [lib EXCEPT ![c] = rel] \/ lib' = lib
  BY <1>p, <1>q
<1>b. /\ lib'[c] = rel \/ lib'[c] = lib[c]
      /\ \A d \in Clients : d # c => lib'[d] = lib[d]
  BY <1>t, <1>l DEF TypeInv
<1>m. /\ \A d \in Clients : d # c => mappings'[d] = mappings[d]
      /\ \A z \in Windows : mappings'[c][z] = IF z = w THEN None ELSE mappings[c][z]
  BY <1>t, <1>s DEF TypeInv
<1>1. Maps(id)' = Maps(id) \ {<<c, w>>} /\ <<c, w>> \in Maps(id)
  BY SMTT(30), <1>d, <1>m, NoneAssumption DEF Maps
<1>2. \A j \in Ids : j # id => Maps(j)' = Maps(j)
  BY <1>d, <1>m, NoneAssumption DEF Maps
<1>3. \A j \in Ids : /\ One(id)[j] <= Cardinality(Maps(j))
                     /\ Cardinality(Maps(j)') = Cardinality(Maps(j)) - One(id)[j]
  <2>1. Cardinality(Maps(id)') = Cardinality(Maps(id)) - 1
    BY <1>1, MapsAreFinite, FS_RemoveElement
  <2>2. \A j \in Ids : One(id)[j] = IF j = id THEN 1 ELSE 0
    BY DEF One
  <2>3. \A j \in Ids : Cardinality(Maps(j)) \in Nat /\ Cardinality(Maps(j)') \in Nat
    BY MapsAreFinite
  <2> QED BY SMTT(30), <2>1, <2>2, <2>3, <1>2
<1>4. Unmaps(One(id), stuck)
  <2>1. One(id) \in [Ids -> Nat]
    BY DEF One
  <2>2. \A d \in Clients, z \in Windows : mappings'[d][z] = mappings[d][z] \/ mappings'[d][z] = None
    BY <1>m
  <2>3. \A d \in Clients : lib'[d].at = "granted" => lib'[d] = lib[d]
    BY <1>b, <1>r
  <2>4. UNCHANGED <<handles, fault>>
    BY <1>s
  <2> QED BY <1>p, <1>3, <2>1, <2>2, <2>3, <2>4 DEF Unmaps
<1>7. /\ nr_pages' \in [Ids -> Nat] /\ addr' \in [Ids -> Nat \cup {None}]
      /\ anchored' \subseteq Ids /\ file_pages' \in [Ids -> Int]
      /\ regions' \in [Ids -> Regions \cup {None}]
      /\ MapcountExact' /\ HandlesBacked' /\ NoOrphanRegion' /\ PlacesInv' /\ SegmentInv'
  BY <1>4, UnmapHolds
<1>8. TypeInv'
  BY <1>t, <1>7, <1>s, <1>l, <1>r DEF TypeInv
<1>9. MappingInv'
  BY SMTT(30), <1>t, <1>s, <1>j, <1>m, <1>b, <1>r DEF MappingInv, Serving
<1> QED BY <1>7, <1>8, <1>9 DEF ClientInv, ShareInv

\* What the mappings of one client make of the mappings of a region.
LEMMA MapsOfClient ==
    ASSUME NEW c \in Clients, NEW id
    PROVE  /\ MapsOf(c, id) \in Nat
           /\ Cardinality(Maps(id) \cap ({c} \X Windows)) = MapsOf(c, id)
<1> DEFINE W == {w \in Windows : mappings[c][w] = id}
           T == Maps(id) \cap ({c} \X Windows)
           f == [w \in W |-> <<c, w>>]
<1>1. IsFiniteSet(W)
  BY ClientsAssumption, FS_Subset
<1>2. f \in [W -> T]
  BY DEF Maps
<1>3. \A a, b \in W : f[a] = f[b] => a = b
  OBVIOUS
<1>4. \A t \in T : \E w \in W : f[w] = t
  <2> SUFFICES ASSUME NEW t \in T PROVE \E w \in W : f[w] = t
    OBVIOUS
  <2>1. PICK w \in Windows : t = <<c, w>>
    BY SMTT(30)
  <2>2. w \in W
    BY <2>1 DEF Maps
  <2> QED BY <2>1, <2>2
<1> HIDE DEF W, T, f
<1>5. f \in Bijection(W, T)
  BY <1>2, <1>3, <1>4 DEF Bijection, Injection, Surjection, IsInjective
<1>6. ExistsBijection(W, T)
  BY <1>5 DEF ExistsBijection
<1>7. Cardinality(T) = Cardinality(W)
  BY <1>1, <1>6, FS_Bijection
<1>8. Cardinality(W) \in Nat
  BY <1>1, FS_CardinalityType
<1> QED BY <1>7, <1>8 DEF MapsOf, W, T

\* The end of a client's thread: all its mappings go.
LEMMA EndHandleCallsHolds ==
    ASSUME ClientInv, NEW c \in Clients, EndHandleCalls(c)
    PROVE  ClientInv'
<1>t. TypeInv /\ MappingInv
  BY Parts
<1>s. /\ mappings' = [mappings EXCEPT ![c] = NoMaps]
      /\ thread' = thread \ {c}
      /\ UNCHANGED <<proc, lib, handles, fault>>
  BY DEF EndHandleCalls
<1>q. PICK count : count = MapsAtExit(c)
  OBVIOUS
<1>p. PICK stuck \in SUBSET LastUnmapped(count) : unmap(count, stuck)
  BY <1>q DEF EndHandleCalls
<1>c. count \in [Ids -> Nat] /\ \A id \in Ids : count[id] = MapsOf(c, id)
  BY <1>q, MapsOfClient DEF MapsAtExit
<1>m. /\ \A d \in Clients : d # c => mappings'[d] = mappings[d]
      /\ \A z \in Windows : mappings'[c][z] = None
      /\ mappings' \in [Clients -> [Windows -> Ids \cup {None}]]
  BY <1>t, <1>s DEF NoMaps, TypeInv
<1>1. \A id \in Ids : Maps(id)' = Maps(id) \ ({c} \X Windows)
  BY <1>m, NoneAssumption DEF Maps
<1>2. \A id \in Ids : /\ count[id] <= Cardinality(Maps(id))
                      /\ Cardinality(Maps(id)') = Cardinality(Maps(id)) - count[id]
  <2> SUFFICES ASSUME NEW id \in Ids
               PROVE  /\ count[id] <= Cardinality(Maps(id))
                      /\ Cardinality(Maps(id)') = Cardinality(Maps(id)) - count[id]
    OBVIOUS
  <2>1. /\ IsFiniteSet(Maps(id)) /\ Cardinality(Maps(id)) \in Nat /\ Cardinality(Maps(id)') \in Nat
    BY MapsAreFinite
  <2>2. Cardinality(Maps(id)') = Cardinality(Maps(id)) - Cardinality(Maps(id) \cap ({c} \X Windows))
    BY <2>1, <1>1, FS_Difference
  <2>3. Cardinality(Maps(id) \cap ({c} \X Windows)) = count[id] /\ count[id] \in Nat
    BY <1>c, MapsOfClient
  <2> QED BY SMTT(30), <2>1, <2>2, <2>3
<1>3. Unmaps(count, stuck)
  <2>1. \A d \in Clients, z \in Windows : mappings'[d][z] = mappings[d][z] \/ mappings'[d][z] = None
    BY <1>m
  <2>2. UNCHANGED <<handles, fault>> /\ \A d \in Clients : lib'[d].at = "granted" => lib'[d] = lib[d]
    BY <1>s
  <2> QED BY <1>p, <1>c, <1>2, <2>1, <2>2 DEF Unmaps
<1>4. /\ nr_pages' \in [Ids -> Nat] /\ addr' \in [Ids -> Nat \cup {None}]
      /\ anchored' \subseteq Ids /\ file_pages' \in [Ids -> Int]
      /\ regions' \in [Ids -> Regions \cup {None}]
      /\ MapcountExact' /\ HandlesBacked' /\ NoOrphanRegion' /\ PlacesInv' /\ SegmentInv'
  BY <1>3, UnmapHolds
<1>5. TypeInv'
  BY <1>t, <1>4, <1>s, <1>m DEF TypeInv
<1>6. MappingInv'
  <2>1. \A d \in Clients : lib[d].at = "released" => lib[d].w \in Windows
    BY <1>t, LibStates
  <2> QED BY SMTT(30), <1>t, <1>s, <1>m, <2>1 DEF MappingInv, Serving
<1> QED BY <1>4, <1>5, <1>6 DEF ClientInv, ShareInv

(***************************************************************************)
(* Theorems.                                                               *)
(***************************************************************************)

\* Every step of the manager, of a process or of the userfault thread keeps the invariant.
LEMMA NextClients == ClientInv /\ [Next]_vars => ClientInv'
<1> SUFFICES ASSUME ClientInv, [Next]_vars PROVE ClientInv'
  OBVIOUS
<1>1. ASSUME NEW c \in Clients, ClientNext(c) PROVE ClientInv'
  <2>1. CASE Connect(c) \/ Close(c) \/ Die(c) \/ EndWithoutMap(c)
    BY <2>1, ConnectHolds, CloseHolds, DieHolds, EndWithoutMapHolds
  <2>2. CASE \E w \in Windows, id \in Ids, n \in Sizes, pers \in BOOLEAN : AllocateNew(c, w, id, n, pers)
    BY <2>2, AllocateNewHolds
  <2>3. CASE \E id \in Ids, n \in Sizes \cup {0} : AllocateFails(c, id, n)
    BY <2>3, AnchorHolds
  <2>4. CASE \E id \in Ids : AllocateExisting(c, id) \/ get_size(c, id) \/ anchor(c, id) \/ unanchor(c, id)
    BY <2>4, AllocateExistingHolds, GetSizeHolds, AnchorHolds, UnanchorHolds
  <2>5. CASE \E w \in Windows : MapKnown(c, w) \/ MapAnchored(c, w) \/ Unmap(c, w)
    BY <2>5, MapKnownHolds, MapAnchoredHolds, UnmapCallHolds
  <2>6. CASE Attach(c) \/ Detach(c)
    BY <2>6, AttachHolds, DetachHolds
  <2>7. CASE AttachFails(c)
    BY <2>7, DieHolds DEF AttachFails
  <2> QED BY <1>1, <2>1, <2>2, <2>3, <2>4, <2>5, <2>6, <2>7 DEF ClientNext
<1>2. CASE SharingNext
  BY <1>1, <1>2, EndHandleCallsHolds, ShutdownHolds, RestartHolds DEF SharingNext
<1>3. CASE \E c \in Clients, w \in Windows, k \in 0 .. MaxPages - 1 : Fault(c, w, k)
  BY <1>3, FaultHolds
<1>4. CASE \E c \in Clients : handle_userfault(c)
  BY <1>4, HandleUserfaultHolds
<1>5. CASE UNCHANGED vars
  <2>1. UNCHANGED <<store, manager, mappings>> /\ UNCHANGED <<thread, proc, lib, handles, fault>>
    BY <1>5 DEF vars
  <2>2. TypeInv /\ MappingInv
    BY Parts
  <2>3. TypeInv'
    BY <2>1, <2>2 DEF TypeInv
  <2>4. MappingInv'
    BY <2>1, <2>2, SameMappings
  <2>5. NothingGained
    BY <2>1 DEF NothingGained
  <2> QED BY <2>1, <2>3, <2>4, <2>5, ProcessStep
<1> QED BY <1>2, <1>3, <1>4, <1>5 DEF Next

\* The invariant holds in every state of every behaviour, whatever the numbers of
\* regions, clients and windows.
THEOREM ClientsHold == Spec => []ClientInv
<1>1. Init => ClientInv
  BY InitClients
<1>2. ClientInv /\ [Next]_vars => ClientInv'
  BY NextClients
<1> QED BY <1>1, <1>2, PTL DEF Spec

\* The regions the client manager knows start and end where the others do not.
LEMMA KnownApart ==
    ASSUME ClientInv, NEW i \in Ids, NEW j \in Ids, Known(i), Known(j), i # j
    PROVE  /\ regions[i].addr \in Nat /\ regions[i].size \in Nat /\ regions[i].size > 0
           /\ regions[j].addr \in Nat /\ regions[j].size \in Nat /\ regions[j].size > 0
           /\ \/ regions[i].addr + regions[i].size <= regions[j].addr
              \/ regions[j].addr + regions[j].size <= regions[i].addr
<1>1. \A k \in Ids : Known(k) => /\ regions[k] \in Regions /\ nr_pages[k] > 0
                                 /\ regions[k].addr = addr[k] /\ regions[k].size = nr_pages[k]
  BY DEF ClientInv, ShareInv, TypeInv, NoOrphanRegion, Known, Store!Loaded
<1>2. addr[i] + nr_pages[i] <= addr[j] \/ addr[j] + nr_pages[j] <= addr[i]
  BY <1>1 DEF ClientInv, PlacesInv, Store!Loaded
<1> QED BY <1>1, <1>2 DEF Regions

\* m_region_map.upper_bound, one back, is the region an address is in.
LEMMA LookupFinds ==
    ASSUME ClientInv, NEW i \in Ids, Known(i), NEW a \in Nat,
           regions[i].addr <= a, a < regions[i].addr + regions[i].size
    PROVE  Lookup(a) = i
<1> DEFINE below == {e \in region_map : e[1] <= a}
           Last(e) == \A f \in below : f[1] <= e[1]
           mine == <<regions[i].addr, i>>
<1>n. \A j \in Ids : Known(j) => regions[j].addr \in Nat /\ regions[j].size \in Nat
  BY DEF ClientInv, ShareInv, TypeInv, Known, Regions
<1>m. \A e : e \in region_map <=> \E j \in Ids : Known(j) /\ e = <<regions[j].addr, j>>
  BY DEF ClientInv, PlacesInv
<1>1. mine \in below
  BY <1>m, <1>n
<1>2. Last(mine)
  <2> SUFFICES ASSUME NEW f \in below PROVE f[1] <= regions[i].addr
    OBVIOUS
  <2>1. PICK j \in Ids : Known(j) /\ f = <<regions[j].addr, j>>
    BY <1>m
  <2>2. f[1] = regions[j].addr /\ regions[j].addr <= a
    BY <2>1
  <2>3. CASE j = i
    BY SMTT(30), <2>2, <2>3, <1>n
  <2>4. CASE j # i
    BY SMTT(30), <2>1, <2>2, <2>4, KnownApart
  <2> QED BY <2>3, <2>4
<1>3. ASSUME NEW e \in below, Last(e) PROVE e[2] = i
  <2>1. PICK j \in Ids : Known(j) /\ e = <<regions[j].addr, j>>
    BY <1>m
  <2>2. regions[i].addr <= regions[j].addr /\ regions[j].addr <= a /\ e[2] = j
    BY <2>1, <1>1, <1>3
  <2>3. CASE j # i
    BY SMTT(30), <2>1, <2>2, <2>3, KnownApart
  <2> QED BY <2>2, <2>3
<1> DEFINE e == CHOOSE x \in below : Last(x)
<1>4. e \in below /\ Last(e)
  BY <1>1, <1>2
<1>5. e[2] = i
  BY <1>3, <1>4
<1>6. Lookup(a) = e[2]
  BY <1>1 DEF Lookup
<1> QED BY <1>5, <1>6

\* mapcount is the number of mappings of all clients, at every moment.
THEOREM MapcountHolds == Spec => []MapcountExact
<1>1. ClientInv => MapcountExact
  BY DEF ClientInv, ShareInv
<1> QED BY <1>1, ClientsHold, PTL

\* The segment behind a handle is its region's while the manager has the mapping.
THEOREM HandlesAreBacked == Spec => []HandlesBacked
<1>1. ClientInv => HandlesBacked
  BY DEF ClientInv, ShareInv
<1> QED BY <1>1, ClientsHold, PTL

\* The client manager and the buffer manager agree on which regions there are.
THEOREM NoRegionIsLost == Spec => []NoOrphanRegion
<1>1. ClientInv => NoOrphanRegion
  BY DEF ClientInv, ShareInv
<1> QED BY <1>1, ClientsHold, PTL

\* handle_userfault serves a fault in the region in which it happened, as long as that
\* region's segment is there.
THEOREM FaultsFindTheirRegion == Spec => []FaultFindsRegion
<1>1. ClientInv => FaultFindsRegion
  <2> SUFFICES ASSUME ClientInv, NEW c \in Clients, fault[c] # None, Live(fault[c].segid)
               PROVE  /\ Lookup(fault[c].at) = fault[c].id
                      /\ fault[c].at - regions[fault[c].id].addr \in 0 .. regions[fault[c].id].size - 1
    BY DEF FaultFindsRegion
  <2>1. PICK i \in Ids : Known(i) /\ regions[i].segid = fault[c].segid
    BY DEF Live
  <2>2. fault[c].id = i /\ fault[c].at - regions[i].addr \in 0 .. regions[i].size - 1
    BY <2>1 DEF ClientInv, SegmentInv, FaultSegments
  <2>3. fault[c].at \in Nat /\ regions[i].addr \in Nat /\ regions[i].size \in Nat
    BY <2>1 DEF ClientInv, ShareInv, TypeInv, Known, Faults, Regions
  <2>4. Lookup(fault[c].at) = i
    BY SMTT(30), <2>1, <2>2, <2>3, LookupFinds
  <2> QED BY <2>2, <2>4
<1> QED BY <1>1, ClientsHold, PTL
===============================================================================

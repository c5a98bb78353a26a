---------------------------- MODULE ClientManager ----------------------------
(***************************************************************************)
(* damanager's client manager with its client threads on one side, the     *)
(* damemory library in the client processes on the other, and a buffer     *)
(* manager behind them (RegionStore).                                      *)
(*                                                                         *)
(* A process has at most one call under way (damanager_mutex), the manager *)
(* handles each under m_mutex, so sending a call and its handling are one  *)
(* step; a call of a process that dies is handled before its death or not  *)
(* at all.  What a process does between two calls and after a call is a    *)
(* step of its own.  A call that only reports an error changes nothing.    *)
(* Addresses in the manager are counted in pages.                          *)
(***************************************************************************)
EXTENDS Integers, FiniteSets

CONSTANTS
    Ids, MaxPages, Sizes,   \* as in RegionStore
    Clients,     \* client processes, by pid
    Windows,     \* address ranges a process can reserve for a region
    Space,       \* pages of the manager's address space
    None         \* no region, no mapping, no handle, no fault

ASSUME SpaceAssumption   == Space \in Nat \ {0}
ASSUME ClientsAssumption == IsFiniteSet(Clients) /\ IsFiniteSet(Windows)
ASSUME SizesAssumption   == MaxPages \in Nat /\ Sizes \subseteq 1 .. MaxPages

\* A cm_region, a handle, and a page fault that waits.
Regions == [addr : Nat, size : Nat, segid : Nat, mapcount : Nat]
Handles == [id : Ids, n : Nat, segid : Nat]
Faults  == [at : Nat, id : Ids, segid : Nat]
ASSUME NoneAssumption ==
    None \notin Ids /\ None \notin Nat /\ None \notin Regions /\ None \notin Handles /\ None \notin Faults

VARIABLES
    nr_pages, persistent, anchored, file_pages,   \* the buffer manager's regions
    addr,         \* where the buffer manager has mapped each region
    regions,      \* m_regions: addr, size, segid and mapcount of each cm_region
    region_map,   \* m_region_map: pairs <<addr, id>>
    mappings,     \* client::m_mappings of each client thread
    thread,       \* clients whose handle_calls thread runs
    shutting,     \* is m_shutdown_eventfd ready?
    proc,         \* damanager_socket of each process: fresh (-1), open, closed (-2)
    lib,          \* where each process is within alloc, map or unmap
    handles,      \* the handles of each process, by window
    fault         \* a page fault of each process that waits in the manager

store   == <<nr_pages, persistent, anchored, file_pages>>
manager == <<addr, regions, region_map>>
process == <<proc, lib, handles>>
vars    == <<store, manager, mappings, thread, shutting, process, fault>>

Store == INSTANCE RegionStore

Idle   == [at |-> "idle"]
NoMaps == [w \in Windows |-> None]

Init ==
    /\ Store!StoreInit
    /\ addr = [id \in Ids |-> None]
    /\ regions = [id \in Ids |-> None]
    /\ region_map = {}
    /\ mappings = [c \in Clients |-> NoMaps]
    /\ thread = {}
    /\ shutting = FALSE
    /\ proc = [c \in Clients |-> "fresh"]
    /\ lib = [c \in Clients |-> Idle]
    /\ handles = [c \in Clients |-> NoMaps]
    /\ fault = [c \in Clients |-> None]

(***************************************************************************)
(* Helpers.                                                                *)
(***************************************************************************)
Known(id) == regions[id] # None

\* XPMEM segments live from add_region to unmap; ids are not reused.
UsedSegids ==
    {regions[id].segid : id \in {i \in Ids : Known(i)}}
      \cup {handles[x[1]][x[2]].segid : x \in {y \in Clients \X Windows : handles[y[1]][y[2]] # None}}
      \cup {lib[c].segid : c \in {d \in Clients : lib[d].at = "granted"}}
      \cup {fault[c].segid : c \in {d \in Clients : fault[d] # None}}
Segids == 1 .. Cardinality(Ids) + Cardinality(Clients) * (Cardinality(Windows) + 2) + 1
FreshSegid == CHOOSE s \in Segids \ UsedSegids : \A t \in Segids \ UsedSegids : s <= t
Live(segid) == \E id \in Ids : Known(id) /\ regions[id].segid = segid

\* mmap of n pages: anywhere the buffer manager's regions leave room.
FreeAt(a, n) ==
    /\ a + n <= Space
    /\ \A id \in Ids : addr[id] # None => a + n <= addr[id] \/ addr[id] + nr_pages[id] <= a

Serving(c) == proc[c] = "open" /\ c \in thread
Ready(c)   == Serving(c) /\ lib[c] = Idle
Unused(c, w) == handles[c][w] = None

\* m_region_map.upper_bound(a), one back: the region that starts last at or
\* below a.
Lookup(a) ==
    LET below == {e \in region_map : e[1] <= a}
    IN  IF below = {} THEN None
        ELSE (CHOOSE e \in below : \A f \in below : f[1] <= e[1])[2]
(***************************************************************************)
(* Connections.                                                            *)
(***************************************************************************)

\* damemory_init and accept_client; a record left by an earlier process with
\* the same pid is replaced only once its thread has ended.
Connect(c) ==
    /\ proc[c] = "fresh"
    /\ c \notin thread
    /\ ~shutting
    /\ proc' = [proc EXCEPT ![c] = "open"]
    /\ thread' = thread \cup {c}
    /\ UNCHANGED <<store, manager, mappings, shutting, lib, handles, fault>>

\* damemory_close; the process keeps its handles.
Close(c) ==
    /\ proc[c] = "open"
    /\ lib[c] = Idle
    /\ proc' = [proc EXCEPT ![c] = "closed"]
    /\ UNCHANGED <<store, manager, mappings, thread, shutting, lib, handles, fault>>

\* The process ends, at any point: the kernel detaches what it had attached
\* and drops its page fault.
Die(c) ==
    /\ proc[c] # "fresh"
    /\ proc' = [proc EXCEPT ![c] = "fresh"]
    /\ lib' = [lib EXCEPT ![c] = Idle]
    /\ handles' = [handles EXCEPT ![c] = NoMaps]
    /\ fault' = [fault EXCEPT ![c] = None]
    /\ UNCHANGED <<store, manager, mappings, thread, shutting>>

(***************************************************************************)
(* Operations of client_manager, each under m_mutex.                       *)
(***************************************************************************)

\* A region is entered with the first mapping of it, at w by client c.
add_region(c, w, id, a, n) ==
    /\ FreshSegid \in Segids \ UsedSegids
    /\ regions' = [regions EXCEPT ![id] =
                      [addr |-> a, size |-> n, segid |-> FreshSegid, mapcount |-> 1]]
    /\ region_map' = {e \in region_map : e[1] # a} \cup {<<a, id>>}
    /\ mappings' = [mappings EXCEPT ![c][w] = id]

Granted(w, id, n, segid) == [at |-> "granted", w |-> w, id |-> id, n |-> n, segid |-> segid]

\* damemory_alloc up to the manager's answer.  get_anchored_region has failed:
\* there is no file or an empty one, or it could not be opened or mapped.
AllocateNew(c, w, id, n, pers) ==
    /\ Ready(c) /\ Unused(c, w)
    /\ ~Known(id) /\ ~Store!Loaded(id)
    /\ Store!allocate(id, n, pers)
    /\ \E a \in 0 .. Space - 1 :
           /\ FreeAt(a, n)
           /\ addr' = [addr EXCEPT ![id] = a]
           /\ add_region(c, w, id, a, n)
    /\ lib' = [lib EXCEPT ![c] = Granted(w, id, n, FreshSegid)]
    /\ UNCHANGED <<thread, shutting, proc, handles, fault>>

\* The buffer manager fails half-way through a persistent allocation.
AllocateFails(c, id, n) ==
    /\ Ready(c)
    /\ ~Known(id)
    /\ Store!AllocateFails(id, n)
    /\ UNCHANGED <<manager, mappings, thread, shutting, process, fault>>

\* get_anchored_region loads the region of a file; where it stays loaded.
LoadAnchored(id) ==
    /\ Store!get_anchored_region(id)
    /\ \E a \in 0 .. Space - 1 : FreeAt(a, file_pages[id]) /\ addr' = [addr EXCEPT ![id] = a]

\* damemory_alloc of an id whose file exists: EEXIST, but the region is loaded.
AllocateExisting(c, id) ==
    /\ Ready(c)
    /\ ~Known(id)
    /\ LoadAnchored(id)
    /\ UNCHANGED <<regions, region_map, mappings, thread, shutting, process, fault>>

\* damemory_get_size, or the first half of damemory_map.
get_size(c, id) ==
    /\ Ready(c)
    /\ \/ /\ Known(id)
          /\ lib' = [lib EXCEPT ![c] = [at |-> "sized", id |-> id, n |-> regions[id].size]]
          /\ UNCHANGED <<store, addr>>
       \/ /\ ~Known(id) /\ Store!Loaded(id)
          /\ lib' = [lib EXCEPT ![c] = [at |-> "sized", id |-> id, n |-> nr_pages[id]]]
          /\ UNCHANGED <<store, addr>>
       \/ /\ ~Known(id)
          /\ LoadAnchored(id)
          /\ lib' = [lib EXCEPT ![c] = [at |-> "sized", id |-> id, n |-> file_pages[id]]]
    /\ UNCHANGED <<regions, region_map, mappings, thread, shutting, proc, handles, fault>>

\* The caller only wanted the size, or reserve_vmemory or the map call fails.
EndWithoutMap(c) ==
    /\ lib[c].at = "sized"
    /\ lib' = [lib EXCEPT ![c] = Idle]
    /\ UNCHANGED <<store, manager, mappings, thread, shutting, proc, handles, fault>>

Remapped_Uncounted(r) == r
Remapped(r) == [r EXCEPT !.mapcount = @ + 1]

\* The second half of damemory_map up to the manager's answer: the size is
\* the one get_size gave.
MapKnown(c, w) ==
    LET id == lib[c].id
    IN  /\ Serving(c) /\ lib[c].at = "sized" /\ Unused(c, w)
        /\ Known(id)
        /\ regions' = [regions EXCEPT ![id] = Remapped(@)]
        /\ mappings' = [mappings EXCEPT ![c][w] = id]
        /\ lib' = [lib EXCEPT ![c] = Granted(w, id, @.n, regions[id].segid)]
        /\ UNCHANGED <<store, addr, region_map, thread, shutting, proc, handles, fault>>

MapAnchored(c, w) ==
    LET id == lib[c].id
    IN  /\ Serving(c) /\ lib[c].at = "sized" /\ Unused(c, w)
        /\ ~Known(id)
        /\ \/ Store!Loaded(id) /\ UNCHANGED <<store, addr>>
           \/ LoadAnchored(id)
        /\ add_region(c, w, id, addr'[id], nr_pages'[id])
        /\ lib' = [lib EXCEPT ![c] = Granted(w, id, @.n, FreshSegid)]
        /\ UNCHANGED <<thread, shutting, proc, handles, fault>>

anchor(c, id) ==
    /\ Ready(c)
    /\ Store!anchor(id)
    /\ UNCHANGED <<manager, mappings, thread, shutting, process, fault>>

\* Unanchoring a region that no client maps frees it.
unanchor_NoFree(c, id) ==
    /\ Ready(c)
    /\ Store!unanchor(id)
    /\ UNCHANGED <<manager, mappings, thread, shutting, process, fault>>
unanchor(c, id) ==
    /\ Ready(c)
    /\ Store!Loaded(id)
    /\ IF Known(id) THEN Store!unanchor(id) /\ UNCHANGED addr
                    ELSE Store!Drop({id}) /\ addr' = [addr EXCEPT ![id] = None]
    /\ UNCHANGED <<regions, region_map, mappings, thread, shutting, process, fault>>

\* The ids whose last mapping goes when each id loses count[id] mappings.
LastUnmapped_Early(count) == {id \in Ids : Known(id) /\ count[id] > 0}
LastUnmapped(count) == {id \in Ids : Known(id) /\ count[id] > 0 /\ regions[id].mapcount \in 1 .. count[id]}

RegionMapAfter_Kept(gone) == region_map
RegionMapAfter(gone) == {e \in region_map : e[1] \notin {regions[id].addr : id \in gone}}

\* unmap, count[id] times for each id.  A region whose mapcount reaches 0 is
\* removed, and freed unless anchored; when xpmem_remove fails (stuck) it
\* stays as it is, with mapcount 0.
unmap(count, stuck) ==
    LET gone == LastUnmapped(count) \ stuck
    IN  /\ regions' = [id \in Ids |->
                          IF id \in gone THEN None
                          ELSE IF Known(id) THEN [regions[id] EXCEPT !.mapcount = @ - count[id]]
                          ELSE None]
        /\ region_map' = RegionMapAfter(gone)
        /\ Store!Drop(gone \ anchored)
        /\ addr' = [id \in Ids |-> IF id \in gone \ anchored THEN None ELSE addr[id]]

MapsOf(c, id) == Cardinality({w \in Windows : mappings[c][w] = id})
One(i) == [id \in Ids |-> IF id = i THEN 1 ELSE 0]

\* damemory_unmap up to the manager's answer; the mapping is forgotten even
\* if the answer is an error.
Unmap(c, w) ==
    LET id == mappings[c][w]
    IN  /\ Ready(c)
        /\ handles[c][w] # None
        /\ id # None
        /\ \E stuck \in SUBSET LastUnmapped(One(id)) :
               /\ unmap(One(id), stuck)
               /\ lib' = IF stuck = {} THEN [lib EXCEPT ![c] = [at |-> "released", w |-> w]] ELSE lib
        /\ mappings' = [mappings EXCEPT ![c][w] = None]
        /\ UNCHANGED <<thread, shutting, proc, handles, fault>>

MapsAtExit(c) == [id \in Ids |-> MapsOf(c, id)]

\* What ends the loop of handle_calls: the process closed the connection or is
\* gone, or the manager shuts down.
LeavesLoop_WhenClosed(c) == proc[c] = "closed" \/ shutting
LeavesLoop(c) == proc[c] # "open" \/ shutting

\* The end of handle_calls.
\* All mappings of the client go under one hold of m_mutex.
EndHandleCalls(c) ==
    /\ c \in thread /\ LeavesLoop(c)
    /\ \E stuck \in SUBSET LastUnmapped(MapsAtExit(c)) : unmap(MapsAtExit(c), stuck)
    /\ mappings' = [mappings EXCEPT ![c] = NoMaps]
    /\ thread' = thread \ {c}
    /\ UNCHANGED <<shutting, process, fault>>

(***************************************************************************)
(* The rest of the library's operations.                                   *)
(***************************************************************************)
SegmentSize(segid) == (CHOOSE r \in {regions[id] : id \in Ids} : r # None /\ r.segid = segid).size

\* attach_seg: xpmem_get wants the segment, xpmem_attach no more than its size.
Attachable(c) == Live(lib[c].segid) /\ lib[c].n <= SegmentSize(lib[c].segid)

Attach(c) ==
    /\ lib[c].at = "granted"
    /\ Attachable(c)
    /\ handles' = [handles EXCEPT ![c][lib[c].w] =
                      [id |-> lib[c].id, n |-> lib[c].n, segid |-> lib[c].segid]]
    /\ lib' = [lib EXCEPT ![c] = Idle]
    /\ UNCHANGED <<store, manager, mappings, thread, shutting, proc, fault>>

\* DASIM_FATAL.
AttachFails(c) ==
    /\ lib[c].at = "granted"
    /\ ~Attachable(c)
    /\ Die(c)

Detach(c) ==
    /\ lib[c].at = "released"
    /\ handles' = [handles EXCEPT ![c][lib[c].w] = None]
    /\ lib' = [lib EXCEPT ![c] = Idle]
    /\ UNCHANGED <<store, manager, mappings, thread, shutting, proc, fault>>

(***************************************************************************)
(* Page faults.  A thread of the process touches page k of an attached     *)
(* region; the fault waits at an address of the manager until the          *)
(* userfault thread takes it.                                              *)
(***************************************************************************)
Fault(c, w, k) ==
    LET h == handles[c][w]
    IN  /\ fault[c] = None
        /\ h # None
        /\ k < h.n
        /\ Live(h.segid)
        /\ fault' = [fault EXCEPT ![c] =
                        [at |-> regions[h.id].addr + k, id |-> h.id, segid |-> h.segid]]
        /\ UNCHANGED <<store, manager, mappings, thread, shutting, process>>

\* The page is unfixed or marked dirty in the region that Lookup finds, which
\* changes nothing here; the thread is woken whether or not one is found.
handle_userfault(c) ==
    /\ fault[c] # None
    /\ fault' = [fault EXCEPT ![c] = None]
    /\ UNCHANGED <<store, manager, mappings, thread, shutting, process>>

(***************************************************************************)
(* The manager's end and its next start.                                   *)
(***************************************************************************)
Shutdown ==
    /\ ~shutting
    /\ shutting' = TRUE
    /\ UNCHANGED <<store, manager, mappings, thread, process, fault>>

\* After a shutdown once every thread has ended, or at any time by a crash.
\* Connections break; a process that lost its manager can only end.
Restart ==
    /\ Store!Restart
    /\ addr' = [id \in Ids |-> None]
    /\ regions' = [id \in Ids |-> None]
    /\ region_map' = {}
    /\ mappings' = [c \in Clients |-> NoMaps]
    /\ thread' = {}
    /\ shutting' = FALSE
    /\ proc' = [c \in Clients |-> IF proc[c] = "fresh" THEN "fresh" ELSE "closed"]
    /\ lib' = [c \in Clients |-> Idle]
    /\ fault' = [c \in Clients |-> None]
    /\ UNCHANGED handles

ClientNext(c) ==
    \/ Connect(c)
    \/ Close(c)
    \/ Die(c)
    \/ \E w \in Windows, id \in Ids, n \in Sizes, pers \in BOOLEAN : AllocateNew(c, w, id, n, pers)
    \/ \E id \in Ids, n \in Sizes \cup {0} : AllocateFails(c, id, n)
    \/ \E id \in Ids : AllocateExisting(c, id) \/ get_size(c, id) \/ anchor(c, id) \/ unanchor(c, id)
    \/ EndWithoutMap(c)
    \/ \E w \in Windows : MapKnown(c, w) \/ MapAnchored(c, w) \/ Unmap(c, w)
    \/ Attach(c)
    \/ AttachFails(c)
    \/ Detach(c)

\* Everything but page faults.
SharingNext ==
    \/ \E c \in Clients : ClientNext(c) \/ EndHandleCalls(c)
    \/ Shutdown
    \/ Restart

Next ==
    \/ SharingNext
    \/ \E c \in Clients, w \in Windows, k \in 0 .. MaxPages - 1 : Fault(c, w, k)
    \/ \E c \in Clients : handle_userfault(c)

Spec == Init /\ [][Next]_vars
SharingSpec == Init /\ [][SharingNext]_vars

\* A client thread polls its socket and the shutdown eventfd without a
\* timeout and then only needs m_mutex, which is never held for ever.
FairSpec == SharingSpec /\ \A c \in Clients : WF_vars(EndHandleCalls(c))

-----------------------------------------------------------------------------
(***************************************************************************)
(* Properties.                                                             *)
(***************************************************************************)
Region == [addr : 0 .. Space - 1, size : 1 .. MaxPages, segid : Segids,
           mapcount : 0 .. Cardinality(Clients) * Cardinality(Windows)]
LibState ==
    {Idle} \cup [at : {"sized"}, id : Ids, n : 1 .. MaxPages]
           \cup [at : {"granted"}, w : Windows, id : Ids, n : 1 .. MaxPages, segid : Segids]
           \cup [at : {"released"}, w : Windows]

\* The type of the manager's and the processes' state.
TypeOK ==
    /\ nr_pages \in [Ids -> 0 .. MaxPages]
    /\ persistent \subseteq Ids /\ anchored \subseteq Ids
    /\ file_pages \in [Ids -> -1 .. MaxPages]
    /\ addr \in [Ids -> (0 .. Space - 1) \cup {None}]
    /\ regions \in [Ids -> Region \cup {None}]
    /\ region_map \subseteq (0 .. Space - 1) \X Ids
    /\ mappings \in [Clients -> [Windows -> Ids \cup {None}]]
    /\ thread \subseteq Clients
    /\ shutting \in BOOLEAN
    /\ proc \in [Clients -> {"fresh", "open", "closed"}]
    /\ lib \in [Clients -> LibState]
    /\ handles \in [Clients -> [Windows -> [id : Ids, n : 1 .. MaxPages, segid : Segids] \cup {None}]]
    /\ fault \in [Clients -> [at : 0 .. Space - 1, id : Ids, segid : Segids] \cup {None}]

\* mapcount counts the mappings of all client threads, through repeated maps,
\* failed unmaps and clients that die in the middle of a call; a region with
\* a mapping is there.
MapcountExact ==
    \A id \in Ids :
        LET maps == {x \in Clients \X Windows : mappings[x[1]][x[2]] = id}
        IN  IF Known(id) THEN regions[id].mapcount = Cardinality(maps) ELSE maps = {}

\* While the manager has a client's mapping, the segment behind its handle,
\* attached or about to be (attach_seg: "the segid we get from the manager is
\* valid"), is the one of that region, whatever other clients unmap.
HandlesBacked ==
    \A c \in Clients, w \in Windows :
        LET id == mappings[c][w]
        IN  id # None =>
              /\ handles[c][w] # None =>
                     handles[c][w].id = id /\ Known(id) /\ handles[c][w].segid = regions[id].segid
              /\ lib[c].at = "granted" /\ lib[c].w = w =>
                     lib[c].id = id /\ Known(id) /\ lib[c].segid = regions[id].segid

\* The client manager's regions are regions of the buffer manager, same place
\* and size, and the buffer manager holds no other region unless anchored:
\* no leak, no region freed under the client manager.
NoOrphanRegion ==
    \A id \in Ids :
        /\ Known(id) => Store!Loaded(id) /\ regions[id].addr = addr[id] /\ regions[id].size = nr_pages[id]
        /\ Store!Loaded(id) => Known(id) \/ id \in anchored

\* A waiting fault whose segment still exists is resolved in its own region,
\* although regions came, went and reused addresses since it was raised.
FaultFindsRegion ==
    \A c \in Clients :
        fault[c] # None /\ Live(fault[c].segid) =>
            /\ Lookup(fault[c].at) = fault[c].id
            /\ fault[c].at - regions[fault[c].id].addr \in 0 .. regions[fault[c].id].size - 1

\* unfix and mark_dirty are only called with an offset inside the region.
\* Does not hold; the README says where and why.
FaultStaysInRegion ==
    \A c \in Clients :
        fault[c] # None /\ Lookup(fault[c].at) # None =>
            fault[c].at - regions[Lookup(fault[c].at)].addr < regions[Lookup(fault[c].at)].size

\* Attaching the segment over the reserved memory does not fail.
\* Does not hold; the README says where and why.
AttachFits == \A c \in Clients : lib[c].at = "granted" /\ Live(lib[c].segid) => Attachable(c)

\* A region nobody maps any more is not kept.
\* Does not hold; the README says where and why.
UnmappedIsGone == \A id \in Ids : Known(id) => regions[id].mapcount > 0

\* A region all of whose clients are gone does not stay: it is freed, or
\* anchored, or mapped by a living client, or xpmem_remove has failed.
Abandoned(id) ==
    /\ Known(id)
    /\ \A c \in Clients, w \in Windows : mappings[c][w] = id => proc[c] # "open"
AbandonedIsReclaimed ==
    \A id \in Ids : Abandoned(id) ~> (~Abandoned(id) \/ regions[id].mapcount = 0)
=============================================================================

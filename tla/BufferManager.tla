---------------------------- MODULE BufferManager ----------------------------
(***************************************************************************)
(* damanager's demo_buffer_manager: regions of pages kept in a fixed set   *)
(* of RAM page frames, paged out to one swap file (anonymous regions) or   *)
(* to a file of their own (persistent regions).                            *)
(*                                                                         *)
(* Every public operation runs under client_manager::m_mutex, so each is   *)
(* one step here.  The client manager's reaction to an operation's result  *)
(* (write-protecting or unprotecting the page) happens under the same      *)
(* mutex; it is part of the step and shows in `writable`.  Sizes and       *)
(* offsets are counted in pages.                                           *)
(***************************************************************************)
EXTENDS Integers, FiniteSets

CONSTANTS
    Ids,         \* region identifiers (damemory_id)
    Frames,      \* page frames of the RAM file (page_nr)
    SwapSlots,   \* page-sized entries of the swap file (swap_ix)
    MaxPages,    \* bound on a region's size in pages
    Sizes,       \* the sizes clients ask for
    WriteData    \* what clients write into a page

\* main.cc refuses fewer than two RAM pages; no swap at all is allowed.
ASSUME FramesAssumption == IsFiniteSet(Frames) /\ Cardinality(Frames) >= 2
ASSUME SwapAssumption   == IsFiniteSet(SwapSlots)
ASSUME PagesAssumption  == MaxPages \in Nat \ {0} /\ Sizes \subseteq 1 .. MaxPages
ASSUME IdsAssumption    == IsFiniteSet(Ids)

VARIABLES
    nr_pages,            \* m_regions: size of each region, 0 if there is none
    persistent,          \* regions backed by a file of their own
    anchored,            \* regions with m_anchored set
    ptes,                \* page table entry of every page of every region
    page_infos,          \* m_page_infos: the page a frame holds, and its dirty bit
    free_pages,          \* m_free_pages
    used_pages,          \* m_used_pages, as a set ...
    used_before,         \* ... and its list order: <<p, q>> if p precedes q
    free_swap_entries,   \* m_free_swap_entries
    nr_available_pages,  \* m_nr_available_pages
    shm,                 \* contents of the RAM file
    swapfile,            \* contents of the swap file
    files,               \* contents of the persistent regions' files
    file_pages,          \* size of the file of each id, NoFile if there is none
    writable,            \* present pages mapped without userfaultfd write protection
    mem,                 \* ghost: what the clients last wrote to each page
    promised,            \* ghost: ids anchored by a client and not unanchored since
    undirtied            \* ghost: pages whose dirty bit a read re-fault cleared

lists == <<free_pages, used_pages, used_before, page_infos>>
disk  == <<files, file_pages>>
vars  == <<nr_pages, persistent, anchored, ptes, lists, free_swap_entries,
           nr_available_pages, shm, swapfile, disk, writable, mem, promised, undirtied>>

Slots  == Ids \X (0 .. MaxPages - 1)
NoSlot == <<>>
NoFile == -1

(***************************************************************************)
(* Page contents: a hole of a sparse file, the 'a' an anonymous page and   *)
(* the 'A' a persistent file is filled with, and what clients write.       *)
(***************************************************************************)
Hole == "hole"
Data == {Hole, "a", "A"} \cup WriteData

region_pte       == [kind |-> "none", at |-> 0]
make_present(p)  == [kind |-> "present", at |-> p]
make_swap(ix)    == [kind |-> "swap", at |-> ix]
is_present(s)    == ptes[s].kind = "present"
is_swapped(s)    == ptes[s].kind = "swap"

page_info == [slot |-> NoSlot, dirty |-> FALSE]

is_anon(id) == id \notin persistent
Loaded(id)  == nr_pages[id] > 0
PagesOf(id, n) == {id} \X (0 .. n - 1)
RegionSlots == {s \in Slots : s[2] < nr_pages[s[1]]}
DirtyIn(S)  == {s \in S : /\ is_present(s)
                          /\ ~is_anon(s[1])
                          /\ page_infos[ptes[s].at].dirty}

\* The page's data as the page table finds it.
Contents(s) ==
    CASE is_present(s)                   -> shm[ptes[s].at]
      [] is_swapped(s) /\ is_anon(s[1])  -> swapfile[ptes[s].at]
      [] is_swapped(s) /\ ~is_anon(s[1]) -> files[<<s[1], ptes[s].at>>]
      [] OTHER                           -> "a"

\* swap_out_page_data of a set of present persistent pages to their files.
WriteBack(S) == [s \in Slots |-> IF s \in S THEN shm[ptes[s].at] ELSE files[s]]

AvailableAtStart == Cardinality(Frames) + Cardinality(SwapSlots) - 1

(***************************************************************************)
(* The constructor: an empty manager over fresh RAM and swap files.        *)
(***************************************************************************)
Init ==
    /\ nr_pages = [id \in Ids |-> 0]
    /\ persistent = {}
    /\ anchored = {}
    /\ ptes = [s \in Slots |-> region_pte]
    /\ page_infos = [p \in Frames |-> page_info]
    /\ free_pages = Frames
    /\ used_pages = {}
    /\ used_before = {}
    /\ free_swap_entries = SwapSlots
    /\ nr_available_pages = AvailableAtStart
    /\ shm = [p \in Frames |-> Hole]
    /\ swapfile = [ix \in SwapSlots |-> Hole]
    /\ files = [s \in Slots |-> Hole]
    /\ file_pages = [id \in Ids |-> NoFile]
    /\ writable = {}
    /\ mem = [s \in Slots |-> Hole]
    /\ promised = {}
    /\ undirtied = {}

(***************************************************************************)
(* Creating and finding regions.                                           *)
(***************************************************************************)

\* A new region: a persistent one starts with every page in its file, an
\* anonymous one with no page anywhere.
add_region(id, n, pers, anch) ==
    /\ nr_pages' = [nr_pages EXCEPT ![id] = n]
    /\ persistent' = IF pers THEN persistent \cup {id} ELSE persistent
    /\ anchored' = IF anch THEN anchored \cup {id} ELSE anchored
    /\ ptes' = [s \in Slots |-> IF s \in PagesOf(id, n) /\ pers THEN make_swap(s[2]) ELSE ptes[s]]

\* client_manager::allocate asks get_anchored_region first and gives up with
\* EEXIST when that loads the id's file.  Any error lets it go on: there is no
\* file or an empty one, or the file could not be opened or given an address.
MayAllocate(id) == ~Loaded(id)

MayReserve_OneMore(n) == n <= nr_available_pages + 1
MayReserve(n) == n <= nr_available_pages

AllocateAnon(id, n) ==
    /\ MayAllocate(id)
    /\ MayReserve(n)
    /\ nr_available_pages' = nr_available_pages - n
    /\ add_region(id, n, FALSE, FALSE)
    /\ mem' = [s \in Slots |-> IF s \in PagesOf(id, n) THEN "a" ELSE mem[s]]
    /\ UNCHANGED <<lists, free_swap_entries, shm, swapfile, disk, writable, promised, undirtied>>

\* open(O_CREAT | O_EXCL), ftruncate, add_region, init_file.
AllocatePersistent(id, n) ==
    /\ MayAllocate(id)
    /\ file_pages[id] = NoFile
    /\ add_region(id, n, TRUE, FALSE)
    /\ file_pages' = [file_pages EXCEPT ![id] = n]
    /\ files' = [s \in Slots |-> IF s \in PagesOf(id, n) THEN "A" ELSE files[s]]
    /\ mem' = [s \in Slots |-> IF s \in PagesOf(id, n) THEN "A" ELSE mem[s]]
    /\ UNCHANGED <<lists, free_swap_entries, nr_available_pages, shm, swapfile, writable,
                   promised, undirtied>>

\* allocate fails in add_region (no address space): what it did before stays.
AllocateAnonNoVm(id, n) ==
    /\ MayAllocate(id)
    /\ MayReserve(n)
    /\ nr_available_pages' = nr_available_pages - n
    /\ UNCHANGED <<nr_pages, persistent, anchored, ptes, lists, free_swap_entries, shm, swapfile,
                   disk, writable, mem, promised, undirtied>>

\* allocate fails after creating the file: in ftruncate (an empty file is
\* left, n = 0) or in add_region (a file of holes is left).
AllocatePersistentFails(id, n) ==
    /\ MayAllocate(id)
    /\ file_pages[id] = NoFile
    /\ file_pages' = [file_pages EXCEPT ![id] = n]
    /\ UNCHANGED <<nr_pages, persistent, anchored, ptes, lists, free_swap_entries,
                   nr_available_pages, shm, swapfile, files, writable, mem, promised, undirtied>>

\* Loads the region whose file is on disk; any such file counts as anchored.
get_anchored_region(id) ==
    /\ ~Loaded(id)
    /\ file_pages[id] > 0
    /\ add_region(id, file_pages[id], TRUE, TRUE)
    /\ UNCHANGED <<lists, free_swap_entries, nr_available_pages, shm, swapfile, disk, writable,
                   mem, promised, undirtied>>

anchor(id) ==
    /\ Loaded(id)
    /\ ~is_anon(id)
    /\ anchored' = anchored \cup {id}
    /\ promised' = promised \cup {id}
    /\ UNCHANGED <<nr_pages, persistent, ptes, lists, free_swap_entries, nr_available_pages, shm,
                   swapfile, disk, writable, mem, undirtied>>

unanchor(id) ==
    /\ Loaded(id)
    /\ anchored' = anchored \ {id}
    /\ promised' = promised \ {id}
    /\ UNCHANGED <<nr_pages, persistent, ptes, lists, free_swap_entries, nr_available_pages, shm,
                   swapfile, disk, writable, mem, undirtied>>

\* What free gives back: the frames of present pages and the swap entries of
\* swapped-out pages of an anonymous region.
FreedPages_None(S) == {}
FreedPages(S) == {ptes[s].at : s \in {t \in S : is_present(t)}}
FreedSwapEntries(S) == {ptes[s].at : s \in {t \in S : is_swapped(t) /\ is_anon(t[1])}}

MayFree_Anchored(id) == Loaded(id)
MayFree(id) == Loaded(id) /\ id \notin anchored

\* Frames go back to m_free_pages, swap entries to m_free_swap_entries; a
\* persistent region's file is unlinked, a file that lies behind an anonymous
\* region's id stays.  The page_infos of a free frame are
\* never read; the model blanks them.
free(id) ==
    LET S     == PagesOf(id, nr_pages[id])
        freed == FreedPages(S)
    IN  /\ MayFree(id)
        /\ used_pages' = used_pages \ freed
        /\ used_before' = {e \in used_before : e[1] \notin freed /\ e[2] \notin freed}
        /\ free_pages' = free_pages \cup freed
        /\ page_infos' = [p \in Frames |-> IF p \in freed THEN page_info ELSE page_infos[p]]
        /\ free_swap_entries' = free_swap_entries \cup FreedSwapEntries(S)
        /\ nr_available_pages' = IF is_anon(id) THEN nr_available_pages + nr_pages[id]
                                                ELSE nr_available_pages
        /\ file_pages' = IF is_anon(id) THEN file_pages ELSE [file_pages EXCEPT ![id] = NoFile]
        /\ files' = IF is_anon(id) THEN files
                    ELSE [s \in Slots |-> IF s \in S THEN Hole ELSE files[s]]
        /\ nr_pages' = [nr_pages EXCEPT ![id] = 0]
        /\ persistent' = persistent \ {id}
        /\ ptes' = [s \in Slots |-> IF s \in S THEN region_pte ELSE ptes[s]]
        /\ mem' = [s \in Slots |-> IF s \in S THEN files'[s] ELSE mem[s]]
        /\ writable' = writable \ S
        /\ undirtied' = undirtied \ S
        /\ UNCHANGED <<anchored, shm, swapfile, promised>>

(***************************************************************************)
(* Page faults.                                                            *)
(***************************************************************************)

\* A variant of SwapEntriesAfterSwapIn.
SwapEntriesAfterSwapIn_Leak(s) == free_swap_entries

\* m_free_swap_entries once swap_in_page has read the page at s.
SwapEntriesAfterSwapIn(s) ==
    IF is_swapped(s) /\ is_anon(s[1]) THEN free_swap_entries \cup {ptes[s].at}
                                      ELSE free_swap_entries

\* Can find_swappable_page take frame v, given the free swap entries?
Swappable(v, entries) == is_anon(page_infos[v].slot[1]) => entries # {}

\* v is the first page of m_used_pages that can go, ix the place it goes to.
find_swappable_page(v, ix, entries) ==
    /\ Swappable(v, entries)
    /\ \A q \in used_pages : Swappable(q, entries) => <<q, v>> \notin used_before
    /\ IF is_anon(page_infos[v].slot[1]) THEN ix \in entries ELSE ix = page_infos[v].slot[2]

\* A page brought in by a fault: dirty after a write fault or a memset.
UnfixedInfo(s, write) == [slot |-> s, dirty |-> write \/ ~is_swapped(s)]
UnfixedWritable_Always(s, write) == {s}
UnfixedWritable(s, write) == IF UnfixedInfo(s, write).dirty THEN {s} ELSE {}

\* swap_out_page skips the write of a clean page of a persistent region.
SkipsWrite_AnyClean(v) == ~page_infos[v].dirty
SkipsWrite(v) == ~is_anon(page_infos[v].slot[1]) /\ ~page_infos[v].dirty

\* What swap_out_page writes: the frame as it is before the faulting page s
\* is copied in.
SwappedOutData_AfterCopy(v, s) == Contents(s)
SwappedOutData(v, s) == shm[v]

\* unfix of an absent page with a free frame p.
UnfixIntoFreePage(s, write, p) ==
    /\ ~is_present(s)
    /\ p \in free_pages
    /\ free_pages' = free_pages \ {p}
    /\ used_pages' = used_pages \cup {p}
    /\ used_before' = used_before \cup (used_pages \X {p})
    /\ free_swap_entries' = SwapEntriesAfterSwapIn(s)
    /\ page_infos' = [page_infos EXCEPT ![p] = UnfixedInfo(s, write)]
    /\ ptes' = [ptes EXCEPT ![s] = make_present(p)]
    /\ shm' = [shm EXCEPT ![p] = Contents(s)]
    /\ writable' = writable \cup UnfixedWritable(s, write)
    /\ UNCHANGED <<nr_pages, persistent, anchored, nr_available_pages, swapfile, disk, mem,
                   promised, undirtied>>

\* unfix of an absent page when no frame is free: swap_out_page empties frame
\* v to ix.  The faulting page was read into m_tmp_page before, so v may even
\* take over its swap entry.
UnfixSwappingOut(s, write, v, ix) ==
    LET out == page_infos[v].slot
    IN  /\ ~is_present(s)
        /\ free_pages = {}
        /\ v \in used_pages
        /\ find_swappable_page(v, ix, SwapEntriesAfterSwapIn(s))
        /\ used_before' = {e \in used_before : v \notin {e[1], e[2]}}
                            \cup ((used_pages \ {v}) \X {v})
        /\ free_swap_entries' = SwapEntriesAfterSwapIn(s) \ (IF is_anon(out[1]) THEN {ix} ELSE {})
        /\ page_infos' = [page_infos EXCEPT ![v] = UnfixedInfo(s, write)]
        /\ ptes' = [ptes EXCEPT ![out] = make_swap(ix), ![s] = make_present(v)]
        /\ swapfile' = IF is_anon(out[1]) /\ ~SkipsWrite(v)
                       THEN [swapfile EXCEPT ![ix] = SwappedOutData(v, s)] ELSE swapfile
        /\ files' = IF ~is_anon(out[1]) /\ ~SkipsWrite(v)
                    THEN [files EXCEPT ![<<out[1], ix>>] = SwappedOutData(v, s)] ELSE files
        /\ shm' = [shm EXCEPT ![v] = Contents(s)]
        /\ writable' = (writable \ {out}) \cup UnfixedWritable(s, write)
        /\ UNCHANGED <<nr_pages, persistent, anchored, free_pages, used_pages, nr_available_pages,
                       file_pages, mem, promised, undirtied>>

\* unfix of a page that is already there (a concurrent fault was served
\* first): the dirty bit becomes the kind of this fault.
UnfixPresent(s, write) ==
    LET p == ptes[s].at
    IN  /\ is_present(s)
        /\ page_infos' = [page_infos EXCEPT ![p].dirty = write]
        /\ undirtied' = IF page_infos[p].dirty /\ ~write /\ ~is_anon(s[1])
                        THEN undirtied \cup {s} ELSE undirtied
        /\ UNCHANGED <<nr_pages, persistent, anchored, ptes, free_pages, used_pages, used_before,
                       free_swap_entries, nr_available_pages, shm, swapfile, disk, writable, mem,
                       promised>>

unfix(s, write) ==
    /\ s \in RegionSlots
    /\ \/ \E p \in Frames : UnfixIntoFreePage(s, write, p)
       \/ \E v \in Frames, ix \in SwapSlots \cup (0 .. MaxPages - 1) : UnfixSwappingOut(s, write, v, ix)
       \/ UnfixPresent(s, write)

\* A write-protection fault; the page may have been swapped out since, then
\* nothing changes and the client faults again.
mark_dirty(s) ==
    /\ s \in RegionSlots
    /\ is_present(s)
    /\ page_infos' = [page_infos EXCEPT ![ptes[s].at].dirty = TRUE]
    /\ writable' = writable \cup {s}
    /\ UNCHANGED <<nr_pages, persistent, anchored, ptes, free_pages, used_pages, used_before,
                   free_swap_entries, nr_available_pages, shm, swapfile, disk, mem, promised,
                   undirtied>>

\* A store by a client that maps the region, through an unprotected page.
ClientWrite(s, d) ==
    /\ s \in RegionSlots
    /\ s \in writable
    /\ shm' = [shm EXCEPT ![ptes[s].at] = d]
    /\ mem' = [mem EXCEPT ![s] = d]
    /\ UNCHANGED <<nr_pages, persistent, anchored, ptes, lists, free_swap_entries,
                   nr_available_pages, swapfile, disk, writable, promised, undirtied>>

(***************************************************************************)
(* Persisting, shutting down and crashing.                                 *)
(***************************************************************************)

can_persist(id, off, n) == Loaded(id) /\ ~is_anon(id) /\ n > 0 /\ off + n <= nr_pages[id]

PersistLoop_Short(id, off, n) == {id} \X (off .. n - 2)
\* The pages persist's loop visits: i = poff; i < nr_pages.
PersistLoop(id, off, n) == {id} \X (off .. n - 1)

\* The client manager write-protects the whole range before the loop runs.
persist(id, off, n) ==
    LET out == DirtyIn(PersistLoop(id, off, n))
    IN  /\ can_persist(id, off, n)
        /\ writable' = writable \ ({id} \X (off .. off + n - 1))
        /\ files' = WriteBack(out)
        /\ page_infos' = [p \in Frames |-> [page_infos[p] EXCEPT !.dirty =
                              @ /\ page_infos[p].slot \notin out]]
        /\ UNCHANGED <<nr_pages, persistent, anchored, ptes, free_pages, used_pages, used_before,
                       free_swap_entries, nr_available_pages, shm, swapfile, file_pages, mem,
                       promised, undirtied>>

\* A new manager process: RAM and swap files are recreated empty, the files
\* of persistent regions are as the old process left them.
Restart ==
    /\ nr_pages' = [id \in Ids |-> 0]
    /\ persistent' = {}
    /\ anchored' = {}
    /\ ptes' = [s \in Slots |-> region_pte]
    /\ page_infos' = [p \in Frames |-> page_info]
    /\ free_pages' = Frames
    /\ used_pages' = {}
    /\ used_before' = {}
    /\ free_swap_entries' = SwapSlots
    /\ nr_available_pages' = AvailableAtStart
    /\ shm' = [p \in Frames |-> Hole]
    /\ swapfile' = [ix \in SwapSlots |-> Hole]
    /\ writable' = {}
    /\ undirtied' = {}
    /\ UNCHANGED <<file_pages, promised>>

WrittenAtShutdown_None == {}
WrittenAtShutdown == DirtyIn(RegionSlots)

\* The destructor writes every dirty persistent page.  The clients are gone
\* by then, and their regions with them, except the anchored ones.
CleanRestart ==
    /\ \A id \in Ids : Loaded(id) => id \in anchored
    /\ files' = WriteBack(WrittenAtShutdown)
    /\ mem' = [s \in Slots |-> IF s \in undirtied THEN files'[s] ELSE mem[s]]
    /\ Restart

\* The manager dies, possibly in the middle of a persist, free or shutdown
\* that has written some of the dirty pages; what is in the files counts.
Crash ==
    \E S \in SUBSET DirtyIn(RegionSlots) :
        /\ files' = WriteBack(S)
        /\ mem' = files'
        /\ Restart

\* What clients set off while the manager runs and nothing fails.
PagingNext ==
    \/ \E id \in Ids : free(id)
    \/ \E id \in Ids, n \in Sizes : AllocateAnon(id, n) \/ AllocatePersistent(id, n)
    \/ \E s \in Slots, write \in BOOLEAN : unfix(s, write)
    \/ \E s \in Slots : mark_dirty(s)
    \/ \E s \in Slots, d \in WriteData : ClientWrite(s, d)
    \/ \E id \in Ids, off \in 0 .. MaxPages - 1, n \in 1 .. MaxPages : persist(id, off, n)

Next ==
    \/ PagingNext
    \/ \E id \in Ids : get_anchored_region(id) \/ anchor(id) \/ unanchor(id)
    \/ \E id \in Ids, n \in Sizes : AllocateAnonNoVm(id, n)
    \/ \E id \in Ids, n \in Sizes \cup {0} : AllocatePersistentFails(id, n)
    \/ CleanRestart
    \/ Crash

Spec == Init /\ [][Next]_vars
PagingSpec == Init /\ [][PagingNext]_vars

-----------------------------------------------------------------------------
(***************************************************************************)
(* Properties.                                                             *)
(***************************************************************************)

PteTargets == Frames \cup SwapSlots \cup (0 .. MaxPages)

\* The type of the manager's state, the files and the ghosts.
TypeOK ==
    /\ nr_pages \in [Ids -> 0 .. MaxPages]
    /\ persistent \in SUBSET Ids
    /\ anchored \in SUBSET Ids
    /\ ptes \in [Slots -> [kind : {"none", "present", "swap"}, at : PteTargets]]
    /\ page_infos \in [Frames -> [slot : Slots \cup {NoSlot}, dirty : BOOLEAN]]
    /\ free_pages \in SUBSET Frames
    /\ used_pages \in SUBSET Frames
    /\ used_before \in SUBSET (Frames \X Frames)
    /\ free_swap_entries \in SUBSET SwapSlots
    /\ nr_available_pages \in Nat
    /\ shm \in [Frames -> Data]
    /\ swapfile \in [SwapSlots -> Data]
    /\ files \in [Slots -> Data]
    /\ file_pages \in [Ids -> NoFile .. MaxPages]
    /\ writable \in SUBSET Slots
    /\ mem \in [Slots -> Data]
    /\ promised \in SUBSET Ids
    /\ undirtied \in SUBSET Slots

\* Every frame is on exactly one of m_free_pages and m_used_pages, and the
\* page tables and m_page_infos agree on who holds it: a used frame holds the
\* page of a region that points back at it, and a present page points at a
\* used frame that names it.  No two pages ever share a frame.
PageOwnership ==
    /\ free_pages \cap used_pages = {}
    /\ free_pages \cup used_pages = Frames
    /\ \A p \in used_pages : /\ page_infos[p].slot \in RegionSlots
                             /\ ptes[page_infos[p].slot] = make_present(p)
    /\ \A s \in Slots : is_present(s) => /\ ptes[s].at \in used_pages
                                         /\ page_infos[ptes[s].at].slot = s

\* Every swap entry is either on m_free_swap_entries or holds exactly one
\* swapped-out page of an anonymous region; a persistent page that is not in
\* RAM is at its own offset of its region's file.
SwapOwnership ==
    /\ \A s \in RegionSlots : is_swapped(s) /\ is_anon(s[1]) =>
           /\ ptes[s].at \in SwapSlots \ free_swap_entries
           /\ \A t \in RegionSlots :
                  is_swapped(t) /\ is_anon(t[1]) /\ ptes[t].at = ptes[s].at => t = s
    /\ \A ix \in SwapSlots \ free_swap_entries :
           \E s \in RegionSlots : is_anon(s[1]) /\ ptes[s] = make_swap(ix)
    /\ \A s \in RegionSlots : ~is_anon(s[1]) => is_present(s) \/ ptes[s] = make_swap(s[2])

\* allocate never gives out more anonymous pages than RAM and swap can hold
\* with one page to spare, and m_nr_available_pages never promises more,
\* whatever allocations fail half-way.
AnonSlots == {s \in RegionSlots : is_anon(s[1])}
CapacityReserved ==
    /\ Cardinality(AnonSlots) < Cardinality(Frames) + Cardinality(SwapSlots)
    /\ nr_available_pages + Cardinality(AnonSlots) < Cardinality(Frames) + Cardinality(SwapSlots)

\* Every page that m_nr_available_pages is short of belongs to a region.
\* Does not hold; the README says where and why.
NothingReservedInVain == nr_available_pages + Cardinality(AnonSlots) = AvailableAtStart

\* find_swappable_page's scan of m_used_pages has no end test: whenever unfix
\* runs it (absent page, no free frame), the list holds a page that can go.
VictimExists ==
    \A s \in RegionSlots : ~is_present(s) /\ free_pages = {} =>
        \E v \in used_pages : Swappable(v, SwapEntriesAfterSwapIn(s))

\* Dirty tracking by write protection: a clean persistent page in RAM cannot
\* be written without a fault and equals its copy in the file, so swapping it
\* out without writing it (swap_out_page) loses nothing.  Excepted are pages
\* whose dirty bit a read re-fault cleared (unfix of a present page).
CleanPagesAreSafe ==
    \A s \in RegionSlots \ undirtied :
        /\ is_present(s)
        /\ ~is_anon(s[1])
        /\ ~page_infos[ptes[s].at].dirty
        => s \notin writable /\ files[s] = shm[ptes[s].at]

\* A client reads what was last written, however often the page went out and
\* came back: through swap entries handed from page to page, through the
\* file, and across a shutdown.  Pages undirtied by a read re-fault excepted.
NoLostWrite ==
    /\ \A s \in RegionSlots \ undirtied : Contents(s) = mem[s]
    /\ \A s \in Slots : ~Loaded(s[1]) => files[s] = mem[s]

\* As NoLostWrite for every page, as the contract of unfix() wants it: a
\* re-fault of a page already there is to change nothing.
\* Does not hold; the README says where and why.
NoLostWriteEver == \A s \in RegionSlots : Contents(s) = mem[s]

\* An anchored region's file stays, whole, until a client unanchors it, and
\* when it is loaded it is anchored and as large as its file: no free, failed
\* allocation, crash or restart removes or cuts it, nor does an anonymous
\* region that allocate puts under its id when get_anchored_region failed.
AnchoredSurvives ==
    \A id \in promised :
        /\ file_pages[id] > 0
        /\ id \in persistent => id \in anchored /\ nr_pages[id] = file_pages[id]

\* An anchored region's id gives its region: allocate is to answer EEXIST.
\* Does not hold; the README says where and why.
AnchoredNotShadowed == \A id \in promised : Loaded(id) => id \in persistent

\* Regions that come back after a restart are regions that a client anchored.
\* Does not hold; the README says where and why.
OnlyAnchoredReturn == anchored \subseteq promised

\* The constructor keeps one page in reserve so that one is always free.
\* Does not hold; the README says where and why.
FreePageInRamOrSwap == free_pages # {} \/ free_swap_entries # {}

\* Once persist of a prefix of a region returns, those pages are in the file
\* and stay as they are until the next write fault.
PrefixDurable(id, n) ==
    \A s \in PagesOf(id, n) \ undirtied : files'[s] = mem[s] /\ s \notin writable'
PersistPrefixDurable ==
    [][\A id \in Ids, n \in 1 .. MaxPages : PrefixDurable(id, n) \/ ~persist(id, 0, n)]_vars

\* The same for any range, as the documentation of persist has it.
\* Does not hold; the README says where and why.
PersistDurable ==
    [][\A id \in Ids, off \in 0 .. MaxPages - 1, n \in 1 .. MaxPages :
           persist(id, off, n) =>
               \A s \in ({id} \X (off .. off + n - 1)) \ undirtied : files'[s] = mem[s]]_vars

\* A file is only ever overwritten with the current contents of the very page
\* it backs, never with a page of an anonymous region of the same id; other
\* changes create or delete the whole file.
FilesFollowMemory ==
    [][\A s \in Slots \ undirtied : files'[s] # files[s] =>
           \/ NoFile \in {file_pages[s[1]], file_pages'[s[1]]}
           \/ s[1] \in persistent /\ files'[s] = mem[s]]_vars

\* Seen from outside, the manager is a store of regions (RegionStore): paging,
\* write protection and dirty tracking never show in which regions exist, how
\* large they are, which are anchored and which files are left.
Store == INSTANCE RegionStore
ImplementsRegionStore == Store!StoreSpec
=============================================================================

------------------------ MODULE BufferManager_proofs ------------------------
(***************************************************************************)
(* The theorems about BufferManager for any number of regions, frames,     *)
(* swap entries and pages: the ownership invariant and what follows from   *)
(* it, and that BufferManager implements RegionStore.  The invariant holds *)
(* initially and is kept by every action; the page faults that bring a     *)
(* page in, into a free frame or into one emptied for it, and free have    *)
(* the longest proofs.                                                     *)
(***************************************************************************)
EXTENDS BufferManager, FiniteSetTheorems, TLAPS

\* How long a prover may look for the proof of a leaf.
USE ZenonT(60)

(***************************************************************************)
(* The page tables of ids without a region are blank, only loaded          *)
(* persistent regions are anchored, and only present pages are writable.   *)
(***************************************************************************)
Tidy ==
    /\ \A s \in Slots : s \notin RegionSlots => ptes[s] = region_pte
    /\ anchored \subseteq persistent
    /\ \A id \in persistent : Loaded(id)
    /\ \A s \in writable : is_present(s)
    /\ undirtied \subseteq RegionSlots

\* The inductive invariant behind page and swap ownership.
OwnershipInv == TypeOK /\ PageOwnership /\ SwapOwnership /\ Tidy

\* A slot is a pair of an id and a page number below the bound.
LEMMA SlotParts ==
    ASSUME NEW s \in Slots
    PROVE  s[1] \in Ids /\ s[2] \in 0 .. MaxPages - 1 /\ s = <<s[1], s[2]>>
BY SMTT(30) DEF Slots

\* The pages of a region of n pages are the slots of its id below n.
LEMMA PagesOfARegion ==
    ASSUME NEW id \in Ids, NEW n \in 0 .. MaxPages
    PROVE  PagesOf(id, n) = {s \in Slots : s[1] = id /\ s[2] < n}
BY SMTT(30), PagesAssumption DEF PagesOf, Slots

\* m_nr_available_pages starts as a natural number: there are two frames.
LEMMA StartCount == AvailableAtStart \in Nat
<1>1. Cardinality(Frames) \in Nat /\ Cardinality(SwapSlots) \in Nat
  BY FramesAssumption, SwapAssumption, FS_CardinalityType
<1> QED BY SMTT(30), <1>1, FramesAssumption DEF AvailableAtStart

\* The constructor establishes the invariant.
LEMMA InitOwnership == Init => OwnershipInv
<1> SUFFICES ASSUME Init PROVE OwnershipInv
  OBVIOUS
<1>1. \A s \in Slots : s \notin RegionSlots
  BY SMTT(30), SlotParts DEF Init, RegionSlots
<1>2. TypeOK
  BY SMTT(30), StartCount, PagesAssumption
  DEF Init, TypeOK, region_pte, page_info, Data, PteTargets, NoFile, NoSlot
<1>3. PageOwnership
  BY DEF Init, PageOwnership, is_present, region_pte
<1>4. SwapOwnership
  BY <1>1 DEF Init, SwapOwnership, RegionSlots
<1>5. Tidy
  BY <1>1 DEF Init, Tidy, Loaded
<1> QED BY <1>2, <1>3, <1>4, <1>5 DEF OwnershipInv

(***************************************************************************)
(* Actions that leave page tables, lists and swap entries alone.           *)
(***************************************************************************)
\* A step that changes nothing keeps the invariant.
LEMMA UnchangedOwnership == OwnershipInv /\ UNCHANGED vars => OwnershipInv'
BY SMTT(30) DEF OwnershipInv, vars, lists, disk, TypeOK, PageOwnership, SwapOwnership, Tidy,
       RegionSlots, is_present, is_swapped, is_anon, Loaded

\* allocate of an anonymous region that fails in add_region keeps it.
LEMMA AllocateAnonNoVmOwnership ==
    ASSUME OwnershipInv, NEW id \in Ids, NEW n \in Sizes, AllocateAnonNoVm(id, n)
    PROVE  OwnershipInv'
<1> USE DEF OwnershipInv
<1>1. nr_available_pages' \in Nat
  BY SMTT(30), PagesAssumption DEF AllocateAnonNoVm, MayReserve, TypeOK
<1>2. TypeOK'
  BY <1>1 DEF AllocateAnonNoVm, TypeOK, lists, disk
<1> QED
  BY <1>2 DEF AllocateAnonNoVm, PageOwnership, SwapOwnership, Tidy, lists, disk,
     RegionSlots, is_present, is_swapped, is_anon, Loaded

\* allocate that fails after creating the file keeps it.
LEMMA AllocatePersistentFailsOwnership ==
    ASSUME OwnershipInv, NEW id \in Ids, NEW n \in Sizes \cup {0}, AllocatePersistentFails(id, n)
    PROVE  OwnershipInv'
<1> USE DEF OwnershipInv
<1>1. TypeOK'
  BY SMTT(30), PagesAssumption DEF AllocatePersistentFails, TypeOK, lists, NoFile
<1> QED
  BY <1>1 DEF AllocatePersistentFails, PageOwnership, SwapOwnership, Tidy, lists,
     RegionSlots, is_present, is_swapped, is_anon, Loaded

\* anchor and unanchor keep it.
LEMMA AnchorOwnership ==
    ASSUME OwnershipInv, NEW id \in Ids, anchor(id) \/ unanchor(id)
    PROVE  OwnershipInv'
<1> USE DEF OwnershipInv, anchor, unanchor
<1>1. TypeOK'
  BY DEF TypeOK, lists, disk
<1>2. PageOwnership' /\ SwapOwnership'
  BY DEF PageOwnership, SwapOwnership, lists, RegionSlots, is_present, is_swapped, is_anon
<1>3. Tidy'
  BY DEF Tidy, RegionSlots, is_present, is_anon, Loaded
<1> QED BY <1>1, <1>2, <1>3

\* A client's store keeps it.
LEMMA ClientWriteOwnership ==
    ASSUME OwnershipInv, NEW s \in Slots, NEW d \in WriteData, ClientWrite(s, d)
    PROVE  OwnershipInv'
<1> USE DEF OwnershipInv, ClientWrite
<1>1. d \in Data
  BY DEF Data
<1>2. TypeOK'
  BY <1>1 DEF TypeOK, lists, disk
<1> QED
  BY <1>2 DEF PageOwnership, SwapOwnership, Tidy, lists,
     RegionSlots, is_present, is_swapped, is_anon, Loaded

\* mark_dirty keeps it.
LEMMA MarkDirtyOwnership ==
    ASSUME OwnershipInv, NEW s \in Slots, mark_dirty(s)
    PROVE  OwnershipInv'
<1> USE DEF OwnershipInv, mark_dirty
<1>1. ptes[s].at \in Frames
  BY DEF PageOwnership, TypeOK
<1>2. TypeOK'
  BY <1>1 DEF TypeOK, disk
<1>3. \A p \in Frames : page_infos'[p].slot = page_infos[p].slot
  BY <1>1 DEF TypeOK
<1>4. PageOwnership'
  BY SMTT(30), <1>3 DEF PageOwnership, TypeOK, RegionSlots, is_present
<1>5. SwapOwnership' /\ Tidy'
  BY DEF SwapOwnership, Tidy, RegionSlots, is_present, is_swapped, is_anon, Loaded
<1> QED BY <1>2, <1>4, <1>5

\* unfix of a present page keeps it.
LEMMA UnfixPresentOwnership ==
    ASSUME OwnershipInv, NEW s \in RegionSlots, NEW write \in BOOLEAN, UnfixPresent(s, write)
    PROVE  OwnershipInv'
<1> USE DEF OwnershipInv, UnfixPresent
<1>0. s \in Slots
  BY DEF RegionSlots
<1>1. ptes[s].at \in Frames
  BY <1>0 DEF PageOwnership, TypeOK
<1>2. TypeOK'
  <2>1. page_infos' \in [Frames -> [slot : Slots \cup {NoSlot}, dirty : BOOLEAN]]
    BY <1>1 DEF TypeOK
  <2>2. undirtied' \in SUBSET Slots
    BY <1>0 DEF TypeOK
  <2> QED BY <2>1, <2>2 DEF TypeOK, disk
<1>3. \A p \in Frames : page_infos'[p].slot = page_infos[p].slot
  BY <1>1 DEF TypeOK
<1>4. PageOwnership'
  BY SMTT(30), <1>3 DEF PageOwnership, TypeOK, RegionSlots, is_present
<1>5. SwapOwnership' /\ Tidy'
  BY DEF SwapOwnership, Tidy, RegionSlots, is_present, is_swapped, is_anon, Loaded
<1> QED BY <1>2, <1>4, <1>5

\* persist keeps it.
LEMMA PersistOwnership ==
    ASSUME OwnershipInv, NEW id \in Ids, NEW off \in 0 .. MaxPages - 1, NEW n \in 1 .. MaxPages,
           persist(id, off, n)
    PROVE  OwnershipInv'
<1> USE DEF OwnershipInv
<1> DEFINE out == DirtyIn(PersistLoop(id, off, n))
<1>1. \A s \in out : s \in Slots => shm[ptes[s].at] \in Data
  BY DEF DirtyIn, PageOwnership, TypeOK
<1>2. files' \in [Slots -> Data]
  BY <1>1 DEF persist, WriteBack, TypeOK
<1>3. page_infos' \in [Frames -> [slot : Slots \cup {NoSlot}, dirty : BOOLEAN]]
  BY DEF persist, TypeOK
<1>4. \A p \in Frames : page_infos'[p].slot = page_infos[p].slot
  BY DEF persist, TypeOK
<1>5. TypeOK'
  BY <1>2, <1>3 DEF TypeOK, persist
<1>6. PageOwnership'
  BY SMTT(30), <1>4 DEF PageOwnership, TypeOK, RegionSlots, is_present, persist
<1>7. SwapOwnership' /\ Tidy'
  BY DEF SwapOwnership, Tidy, RegionSlots, is_present, is_swapped, is_anon, Loaded, persist
<1> QED BY <1>5, <1>6, <1>7

\* A new manager process satisfies it, after a shutdown and after a crash.
LEMMA RestartOwnership ==
    ASSUME OwnershipInv, CleanRestart \/ Crash
    PROVE  OwnershipInv'
<1> USE DEF OwnershipInv
<1>0. Restart
  BY DEF CleanRestart, Crash
<1>1. \A s \in DirtyIn(RegionSlots) : s \in Slots /\ shm[ptes[s].at] \in Data
  BY DEF DirtyIn, PageOwnership, TypeOK, RegionSlots
<1>2. \A S \in SUBSET DirtyIn(RegionSlots) : WriteBack(S) \in [Slots -> Data]
  BY <1>1 DEF WriteBack, TypeOK
<1>3. files' \in [Slots -> Data]
  <2>1. CASE CleanRestart
    BY <1>2, <2>1 DEF CleanRestart, WrittenAtShutdown
  <2>2. CASE Crash
    BY <1>2, <2>2 DEF Crash
  <2> QED BY <2>1, <2>2
<1>4. mem' \in [Slots -> Data]
  BY <1>3 DEF CleanRestart, Crash, TypeOK
<1>5. \A s \in Slots : s \notin RegionSlots'
  BY SMTT(30), <1>0, SlotParts DEF Restart, RegionSlots
<1>6. TypeOK'
  BY SMTT(30), <1>0, <1>3, <1>4, StartCount, PagesAssumption
  DEF Restart, TypeOK, region_pte, page_info, Data, PteTargets, NoFile, NoSlot
<1>7. PageOwnership'
  BY <1>0 DEF Restart, PageOwnership, is_present, region_pte
<1>8. SwapOwnership'
  BY <1>0, <1>5 DEF Restart, SwapOwnership, RegionSlots
<1>9. Tidy'
  BY <1>0, <1>5 DEF Restart, Tidy, Loaded
<1> QED BY <1>6, <1>7, <1>8, <1>9

(***************************************************************************)
(* Actions that add a region.                                              *)
(***************************************************************************)
\* add_region, over any operation that leaves frames and swap entries alone.
LEMMA AddRegionOwnership ==
    ASSUME OwnershipInv, NEW id \in Ids, NEW n \in 1 .. MaxPages,
           NEW pers \in BOOLEAN, NEW anch \in BOOLEAN, anch => pers,
           ~Loaded(id), add_region(id, n, pers, anch),
           UNCHANGED <<lists, free_swap_entries, writable, undirtied>>
    PROVE  /\ PageOwnership' /\ SwapOwnership' /\ Tidy'
           /\ nr_pages' \in [Ids -> 0 .. MaxPages]
           /\ persistent' \in SUBSET Ids /\ anchored' \in SUBSET Ids
           /\ ptes' \in [Slots -> [kind : {"none", "present", "swap"}, at : PteTargets]]
<1> DEFINE S == PagesOf(id, n)
<1>1. /\ nr_pages[id] = 0
      /\ \A s \in RegionSlots : s[1] # id
      /\ id \notin persistent
  BY SMTT(30), SlotParts, PagesAssumption DEF OwnershipInv, TypeOK, Loaded, RegionSlots, Tidy
<1>2. S = {s \in Slots : s[1] = id /\ s[2] < n}
  BY SMTT(30), PagesOfARegion, PagesAssumption
<1>3. RegionSlots' = RegionSlots \cup S
  BY <1>1, <1>2, SlotParts, PagesAssumption DEF add_region, RegionSlots, OwnershipInv, TypeOK
<1>4. /\ \A s \in Slots \ S : ptes'[s] = ptes[s]
      /\ \A s \in S : ptes[s] = region_pte
      /\ \A s \in S : ptes'[s] = IF pers THEN make_swap(s[2]) ELSE region_pte
      /\ RegionSlots \subseteq Slots \ S
  <2>1. RegionSlots \subseteq Slots \ S
    BY <1>1, <1>2 DEF RegionSlots
  <2>2. \A s \in S : ptes[s] = region_pte
    BY <1>2, <2>1 DEF OwnershipInv, Tidy
  <2> QED BY <1>2, <2>1, <2>2 DEF add_region
<1>5. \A s \in Slots : is_present(s)' <=> is_present(s)
  <2> TAKE s \in Slots
  <2>1. CASE s \in S
    <3>1. ptes[s].kind = "none"
      BY SMTT(30), <1>4, <2>1 DEF region_pte
    <3>2. ptes'[s] = make_swap(s[2]) \/ ptes'[s] = region_pte
      BY <1>4, <2>1
    <3>3. ptes'[s].kind # "present"
      BY SMTT(30), <3>2 DEF make_swap, region_pte
    <3> QED BY <3>1, <3>3 DEF is_present
  <2>2. CASE s \notin S
    BY <1>4, <2>2 DEF is_present
  <2> QED BY <2>1, <2>2
<1>5a. \A s \in Slots : is_present(s) => ptes'[s] = ptes[s]
  BY SMTT(30), <1>4 DEF is_present, region_pte
<1>6. PageOwnership'
  BY <1>3, <1>4, <1>5, <1>5a DEF OwnershipInv, PageOwnership, lists
<1>7. \A s \in RegionSlots : /\ is_anon(s[1])' <=> is_anon(s[1])
                             /\ is_swapped(s)' <=> is_swapped(s)
                             /\ ptes'[s] = ptes[s]
                             /\ s \in Slots
  BY <1>1, <1>4 DEF is_anon, is_swapped, add_region
<1>8. \A s \in S : is_anon(s[1])' => ~is_swapped(s)'
  BY SMTT(30), <1>2, <1>4 DEF is_anon, is_swapped, add_region, region_pte
<1>9. \A s \in S : ~is_anon(s[1])' => ptes'[s] = make_swap(s[2])
  BY <1>1, <1>2, <1>4 DEF is_anon, add_region
<1>10. SwapOwnership'
  <2>1. ASSUME NEW s \in RegionSlots', is_swapped(s)', is_anon(s[1])'
        PROVE  /\ ptes'[s].at \in SwapSlots \ free_swap_entries'
               /\ \A t \in RegionSlots' :
                     is_swapped(t)' /\ is_anon(t[1])' /\ ptes'[t].at = ptes'[s].at => t = s
    <3>1. s \in RegionSlots
      BY <1>3, <1>8, <2>1
    <3>2. \A t \in RegionSlots' : is_swapped(t)' /\ is_anon(t[1])' => t \in RegionSlots
      BY <1>3, <1>8
    <3> QED BY <1>7, <2>1, <3>1, <3>2 DEF OwnershipInv, SwapOwnership
  <2>2. \A ix \in SwapSlots \ free_swap_entries' :
            \E s \in RegionSlots' : is_anon(s[1])' /\ ptes'[s] = make_swap(ix)
    BY <1>3, <1>7 DEF OwnershipInv, SwapOwnership
  <2>3. \A s \in RegionSlots' : ~is_anon(s[1])' => is_present(s)' \/ ptes'[s] = make_swap(s[2])
    BY <1>3, <1>5, <1>7, <1>9 DEF OwnershipInv, SwapOwnership
  <2> QED BY <2>1, <2>2, <2>3 DEF SwapOwnership
<1>11. Tidy'
  <2>1. \A s \in Slots : s \notin RegionSlots' => ptes'[s] = region_pte
    BY <1>3, <1>4 DEF OwnershipInv, Tidy
  <2>2. anchored' \subseteq persistent'
    BY DEF OwnershipInv, Tidy, add_region
  <2>3. \A x \in persistent' : Loaded(x)'
    BY SMTT(30), <1>1 DEF OwnershipInv, Tidy, add_region, Loaded, TypeOK
  <2>4. \A s \in writable' : is_present(s)'
    BY <1>5 DEF OwnershipInv, Tidy, TypeOK
  <2>5. undirtied' \subseteq RegionSlots'
    BY <1>3 DEF OwnershipInv, Tidy
  <2> QED BY <2>1, <2>2, <2>3, <2>4, <2>5 DEF Tidy
<1>12. nr_pages' \in [Ids -> 0 .. MaxPages]
  BY SMTT(30), PagesAssumption DEF add_region, OwnershipInv, TypeOK
<1>13. ptes' \in [Slots -> [kind : {"none", "present", "swap"}, at : PteTargets]]
  <2>1. \A s \in Slots : ptes'[s] \in [kind : {"none", "present", "swap"}, at : PteTargets]
    <3> TAKE s \in Slots
    <3>1. ptes[s] \in [kind : {"none", "present", "swap"}, at : PteTargets]
      BY DEF OwnershipInv, TypeOK
    <3>2. make_swap(s[2]) \in [kind : {"none", "present", "swap"}, at : PteTargets]
      BY SMTT(30), SlotParts, PagesAssumption DEF make_swap, PteTargets
    <3> QED BY <3>1, <3>2, PagesAssumption DEF add_region
  <2> QED BY <2>1 DEF add_region
<1>14. persistent' \in SUBSET Ids /\ anchored' \in SUBSET Ids
  BY DEF add_region, OwnershipInv, TypeOK
<1> QED BY <1>6, <1>10, <1>11, <1>12, <1>13, <1>14

\* allocate of an anonymous region keeps it.
LEMMA AllocateAnonOwnership ==
    ASSUME OwnershipInv, NEW id \in Ids, NEW n \in Sizes, AllocateAnon(id, n)
    PROVE  OwnershipInv'
<1>1. n \in 1 .. MaxPages
  BY PagesAssumption
<1>2. /\ PageOwnership' /\ SwapOwnership' /\ Tidy'
      /\ nr_pages' \in [Ids -> 0 .. MaxPages]
      /\ persistent' \in SUBSET Ids /\ anchored' \in SUBSET Ids
      /\ ptes' \in [Slots -> [kind : {"none", "present", "swap"}, at : PteTargets]]
  BY <1>1, AddRegionOwnership DEF AllocateAnon, MayAllocate
<1>3. mem' \in [Slots -> Data]
  BY DEF AllocateAnon, OwnershipInv, TypeOK, Data
<1>4. nr_available_pages' \in Nat
  BY SMTT(30), <1>1, PagesAssumption DEF AllocateAnon, MayReserve, OwnershipInv, TypeOK
<1>5. TypeOK'
  BY <1>2, <1>3, <1>4 DEF AllocateAnon, OwnershipInv, TypeOK, lists, disk
<1> QED BY <1>2, <1>5 DEF OwnershipInv

\* allocate of a persistent region keeps it.
LEMMA AllocatePersistentOwnership ==
    ASSUME OwnershipInv, NEW id \in Ids, NEW n \in Sizes, AllocatePersistent(id, n)
    PROVE  OwnershipInv'
<1>1. n \in 1 .. MaxPages
  BY PagesAssumption
<1>2. /\ PageOwnership' /\ SwapOwnership' /\ Tidy'
      /\ nr_pages' \in [Ids -> 0 .. MaxPages]
      /\ persistent' \in SUBSET Ids /\ anchored' \in SUBSET Ids
      /\ ptes' \in [Slots -> [kind : {"none", "present", "swap"}, at : PteTargets]]
  BY <1>1, AddRegionOwnership DEF AllocatePersistent, MayAllocate
<1>3. mem' \in [Slots -> Data] /\ files' \in [Slots -> Data]
  BY DEF AllocatePersistent, OwnershipInv, TypeOK, Data
<1>4. file_pages' \in [Ids -> NoFile .. MaxPages]
  BY SMTT(30), <1>1, PagesAssumption DEF AllocatePersistent, OwnershipInv, TypeOK, NoFile
<1>5. TypeOK'
  BY <1>2, <1>3, <1>4 DEF AllocatePersistent, OwnershipInv, TypeOK, lists
<1> QED BY <1>2, <1>5 DEF OwnershipInv

\* get_anchored_region keeps it.
LEMMA GetAnchoredRegionOwnership ==
    ASSUME OwnershipInv, NEW id \in Ids, get_anchored_region(id)
    PROVE  OwnershipInv'
<1>1. file_pages[id] \in 1 .. MaxPages
  BY SMTT(30), PagesAssumption DEF get_anchored_region, OwnershipInv, TypeOK, NoFile
<1>2. /\ PageOwnership' /\ SwapOwnership' /\ Tidy'
      /\ nr_pages' \in [Ids -> 0 .. MaxPages]
      /\ persistent' \in SUBSET Ids /\ anchored' \in SUBSET Ids
      /\ ptes' \in [Slots -> [kind : {"none", "present", "swap"}, at : PteTargets]]
  BY <1>1, AddRegionOwnership DEF get_anchored_region
<1>3. TypeOK'
  BY <1>2 DEF get_anchored_region, OwnershipInv, TypeOK, lists, disk
<1> QED BY <1>2, <1>3 DEF OwnershipInv

(***************************************************************************)
(* Page faults.  What both ways of bringing in the page at s start from:   *)
(* swap_in_page returns at most the page's own entry, and reads data.      *)
(***************************************************************************)
LEMMA SwapInFacts ==
    ASSUME OwnershipInv, NEW s \in RegionSlots, ~is_present(s)
    PROVE  /\ SwapEntriesAfterSwapIn(s) \subseteq SwapSlots
           /\ free_swap_entries \subseteq SwapEntriesAfterSwapIn(s)
           /\ Contents(s) \in Data
           /\ \A t \in RegionSlots \ {s} : is_swapped(t) /\ is_anon(t[1]) =>
                  ptes[t].at \in SwapSlots \ SwapEntriesAfterSwapIn(s)
           /\ \A ix \in SwapSlots \ SwapEntriesAfterSwapIn(s) :
                  \E t \in RegionSlots \ {s} : is_anon(t[1]) /\ ptes[t] = make_swap(ix)
<1> DEFINE E == SwapEntriesAfterSwapIn(s)
<1>0. s \in Slots
  BY DEF RegionSlots
<1>1. E \subseteq SwapSlots /\ free_swap_entries \subseteq E
  BY DEF SwapEntriesAfterSwapIn, OwnershipInv, TypeOK, SwapOwnership
<1>2. Contents(s) \in Data
  <2>1. CASE is_swapped(s) /\ is_anon(s[1])
    <3>1. Contents(s) = swapfile[ptes[s].at]
      BY <2>1 DEF Contents, is_present, is_swapped
    <3>2. ptes[s].at \in SwapSlots
      BY <2>1 DEF OwnershipInv, SwapOwnership
    <3> QED BY SMTT(30), <3>1, <3>2 DEF OwnershipInv, TypeOK
  <2>2. CASE is_swapped(s) /\ ~is_anon(s[1])
    <3>1. Contents(s) = files[<<s[1], ptes[s].at>>]
      BY <2>2 DEF Contents, is_present, is_swapped
    <3>2. ptes[s] = make_swap(s[2])
      BY <2>2 DEF OwnershipInv, SwapOwnership
    <3>3. ptes[s].at = s[2]
      BY SMTT(30), <3>2 DEF make_swap
    <3>4. <<s[1], ptes[s].at>> \in Slots
      BY <1>0, <3>3, SlotParts
    <3> QED BY SMTT(30), <3>1, <3>4 DEF OwnershipInv, TypeOK
  <2>3. CASE ~is_swapped(s)
    BY <2>3 DEF Contents, Data
  <2> QED BY <2>1, <2>2, <2>3
<1>3. ASSUME NEW t \in RegionSlots \ {s}, is_swapped(t), is_anon(t[1])
      PROVE  ptes[t].at \in SwapSlots \ E
  BY <1>3 DEF SwapEntriesAfterSwapIn, OwnershipInv, SwapOwnership
<1>4. ASSUME NEW ix \in SwapSlots \ E
      PROVE  \E t \in RegionSlots \ {s} : is_anon(t[1]) /\ ptes[t] = make_swap(ix)
  <2>1. ix \in SwapSlots \ free_swap_entries
    BY <1>1
  <2>2. PICK t \in RegionSlots : is_anon(t[1]) /\ ptes[t] = make_swap(ix)
    BY <2>1 DEF OwnershipInv, SwapOwnership
  <2>3. is_swapped(t) /\ ptes[t].at = ix
    BY SMTT(30), <2>2 DEF is_swapped, make_swap
  <2>4. t # s
    BY <2>2, <2>3, <1>4 DEF SwapEntriesAfterSwapIn
  <2> QED BY <2>2, <2>4
<1> QED BY <1>1, <1>2, <1>3, <1>4

\* unfix into a free frame keeps it.
LEMMA UnfixIntoFreePageOwnership ==
    ASSUME OwnershipInv, NEW s \in RegionSlots, NEW write \in BOOLEAN, NEW p \in Frames,
           UnfixIntoFreePage(s, write, p)
    PROVE  OwnershipInv'
<1> DEFINE E == SwapEntriesAfterSwapIn(s)
<1>0. s \in Slots /\ ~is_present(s) /\ RegionSlots \subseteq Slots
  BY DEF RegionSlots, UnfixIntoFreePage
<1>1. RegionSlots' = RegionSlots
  BY DEF UnfixIntoFreePage, RegionSlots
<1>2. /\ \A t \in Slots \ {s} : ptes'[t] = ptes[t]
      /\ ptes'[s] = make_present(p)
  BY <1>0 DEF UnfixIntoFreePage, OwnershipInv, TypeOK
<1>3. /\ \A q \in Frames \ {p} : page_infos'[q] = page_infos[q]
      /\ page_infos'[p] = UnfixedInfo(s, write)
  BY DEF UnfixIntoFreePage, OwnershipInv, TypeOK
<1>4. /\ is_present(s)' /\ ~is_swapped(s)'
      /\ \A t \in Slots \ {s} : /\ is_present(t)' <=> is_present(t)
                                /\ is_swapped(t)' <=> is_swapped(t)
      /\ \A t \in Slots : is_anon(t[1])' <=> is_anon(t[1])
  BY SMTT(30), <1>2 DEF is_present, is_swapped, is_anon, make_present, UnfixIntoFreePage
<1>5. /\ p \notin used_pages /\ p \in free_pages
      /\ used_pages' = used_pages \cup {p}
      /\ free_pages' = free_pages \ {p}
      /\ free_swap_entries' = E
  BY DEF UnfixIntoFreePage, OwnershipInv, PageOwnership
<1>6. TypeOK'
  <2>1. ptes' \in [Slots -> [kind : {"none", "present", "swap"}, at : PteTargets]]
    BY DEF UnfixIntoFreePage, OwnershipInv, TypeOK, make_present, PteTargets
  <2>2. UnfixedInfo(s, write) \in [slot : Slots \cup {NoSlot}, dirty : BOOLEAN]
    BY <1>0 DEF UnfixedInfo, is_swapped
  <2>3. page_infos' \in [Frames -> [slot : Slots \cup {NoSlot}, dirty : BOOLEAN]]
    BY <2>2 DEF UnfixIntoFreePage, OwnershipInv, TypeOK
  <2>4. E \in SUBSET SwapSlots /\ Contents(s) \in Data
    BY <1>0, SwapInFacts
  <2>5. shm' \in [Frames -> Data]
    BY <2>4 DEF UnfixIntoFreePage, OwnershipInv, TypeOK
  <2>6. writable' \in SUBSET Slots
    BY <1>0 DEF UnfixIntoFreePage, OwnershipInv, TypeOK, UnfixedWritable
  <2>7. used_before' \in SUBSET (Frames \X Frames)
    BY DEF UnfixIntoFreePage, OwnershipInv, TypeOK
  <2> QED BY <1>5, <2>1, <2>3, <2>4, <2>5, <2>6, <2>7
          DEF UnfixIntoFreePage, OwnershipInv, TypeOK, disk
<1>7. PageOwnership'
  <2>1. free_pages' \cap used_pages' = {} /\ free_pages' \cup used_pages' = Frames
    BY SMTT(30), <1>5 DEF OwnershipInv, PageOwnership
  <2>2. ASSUME NEW q \in used_pages'
        PROVE  /\ page_infos'[q].slot \in RegionSlots'
               /\ ptes'[page_infos'[q].slot] = make_present(q)'
    <3>1. CASE q = p
      BY SMTT(30), <1>1, <1>2, <1>3, <3>1 DEF UnfixedInfo, make_present
    <3>2. CASE q # p
      <4>1. q \in used_pages /\ q \in Frames
        BY <1>5, <3>2 DEF OwnershipInv, TypeOK
      <4>2. page_infos[q].slot \in RegionSlots /\ ptes[page_infos[q].slot] = make_present(q)
        BY <4>1 DEF OwnershipInv, PageOwnership
      <4>3. page_infos[q].slot # s
        BY SMTT(30), <1>0, <4>2 DEF is_present, make_present
      <4> QED BY <1>0, <1>1, <1>2, <1>3, <3>2, <4>1, <4>2, <4>3 DEF make_present
    <3> QED BY <3>1, <3>2
  <2>3. ASSUME NEW t \in Slots, is_present(t)'
        PROVE  ptes'[t].at \in used_pages' /\ page_infos'[ptes'[t].at].slot = t
    <3>1. CASE t = s
      BY SMTT(30), <1>2, <1>3, <1>5, <3>1 DEF UnfixedInfo, make_present
    <3>2. CASE t # s
      <4>1. is_present(t) /\ ptes'[t] = ptes[t]
        BY <1>2, <1>4, <2>3, <3>2
      <4>2. ptes[t].at \in used_pages /\ page_infos[ptes[t].at].slot = t
        BY <4>1 DEF OwnershipInv, PageOwnership
      <4> QED BY <1>3, <1>5, <4>1, <4>2 DEF OwnershipInv, TypeOK
    <3> QED BY <3>1, <3>2
  <2> QED BY <2>1, <2>2, <2>3 DEF PageOwnership
<1>8. SwapOwnership'
  <2>1. ASSUME NEW t \in RegionSlots', is_swapped(t)', is_anon(t[1])'
        PROVE  /\ ptes'[t].at \in SwapSlots \ free_swap_entries'
               /\ \A u \in RegionSlots' :
                     is_swapped(u)' /\ is_anon(u[1])' /\ ptes'[u].at = ptes'[t].at => u = t
    <3>1. t \in RegionSlots \ {s} /\ is_swapped(t) /\ is_anon(t[1]) /\ ptes'[t] = ptes[t]
      BY <1>0, <1>1, <1>2, <1>4, <2>1
    <3>2. ptes[t].at \in SwapSlots \ E
      BY <1>0, <3>1, SwapInFacts
    <3>3. ASSUME NEW u \in RegionSlots', is_swapped(u)', is_anon(u[1])', ptes'[u].at = ptes'[t].at
          PROVE  u = t
      <4>1. u \in RegionSlots \ {s} /\ is_swapped(u) /\ is_anon(u[1]) /\ ptes'[u] = ptes[u]
        BY <1>0, <1>1, <1>2, <1>4, <3>3
      <4> QED BY <3>1, <3>3, <4>1 DEF OwnershipInv, SwapOwnership
    <3> QED BY <1>5, <3>1, <3>2, <3>3
  <2>2. ASSUME NEW ix \in SwapSlots \ free_swap_entries'
        PROVE  \E t \in RegionSlots' : is_anon(t[1])' /\ ptes'[t] = make_swap(ix)'
    <3>1. PICK t \in RegionSlots \ {s} : is_anon(t[1]) /\ ptes[t] = make_swap(ix)
      BY <1>0, <1>5, SwapInFacts
    <3> QED BY <1>0, <1>1, <1>2, <1>4, <3>1 DEF make_swap
  <2>3. \A t \in RegionSlots' : ~is_anon(t[1])' => is_present(t)' \/ ptes'[t] = make_swap(t[2])'
    BY <1>0, <1>1, <1>2, <1>4 DEF OwnershipInv, SwapOwnership, make_swap
  <2> QED BY <2>1, <2>2, <2>3 DEF SwapOwnership
<1>9. Tidy'
  <2>1. \A t \in Slots : t \notin RegionSlots' => ptes'[t] = region_pte
    BY <1>1, <1>2 DEF OwnershipInv, Tidy
  <2>2. \A t \in writable' : is_present(t)'
    BY <1>4 DEF OwnershipInv, Tidy, TypeOK, UnfixIntoFreePage, UnfixedWritable
  <2> QED BY <1>1, <2>1, <2>2 DEF Tidy, region_pte, OwnershipInv, UnfixIntoFreePage, Loaded
<1> QED BY <1>6, <1>7, <1>8, <1>9 DEF OwnershipInv

\* unfix that swaps a page out keeps it: the frame changes hands, and the swap
\* entry just read may pass to the page swapped out.
LEMMA UnfixSwappingOutOwnership ==
    ASSUME OwnershipInv, NEW s \in RegionSlots, NEW write \in BOOLEAN, NEW v \in Frames,
           NEW ix \in SwapSlots \cup (0 .. MaxPages - 1), UnfixSwappingOut(s, write, v, ix)
    PROVE  OwnershipInv'
<1> DEFINE E == SwapEntriesAfterSwapIn(s)
<1>a. PICK out : out = page_infos[v].slot
  OBVIOUS
<1>0. s \in Slots /\ ~is_present(s) /\ RegionSlots \subseteq Slots
  BY DEF RegionSlots, UnfixSwappingOut
<1>1. RegionSlots' = RegionSlots
  BY DEF UnfixSwappingOut, RegionSlots
<1>2. /\ v \in used_pages /\ out \in RegionSlots /\ ptes[out] = make_present(v)
      /\ is_present(out) /\ out # s /\ out \in Slots
  <2>1. v \in used_pages
    BY DEF UnfixSwappingOut
  <2>2. out \in RegionSlots /\ ptes[out] = make_present(v)
    BY <1>a, <2>1 DEF OwnershipInv, PageOwnership
  <2> QED BY SMTT(30), <1>0, <2>1, <2>2 DEF is_present, make_present
<1>3. IF is_anon(out[1]) THEN ix \in E ELSE ix = out[2]
  BY <1>a DEF UnfixSwappingOut, find_swappable_page
<1>4. /\ \A t \in Slots \ {s, out} : ptes'[t] = ptes[t]
      /\ ptes'[s] = make_present(v)
      /\ ptes'[out] = make_swap(ix)
  BY <1>a, <1>0, <1>2 DEF UnfixSwappingOut, OwnershipInv, TypeOK
<1>5. /\ \A q \in Frames \ {v} : page_infos'[q] = page_infos[q]
      /\ page_infos'[v] = UnfixedInfo(s, write)
  BY DEF UnfixSwappingOut, OwnershipInv, TypeOK
<1>6. /\ is_present(s)' /\ ~is_swapped(s)'
      /\ ~is_present(out)' /\ is_swapped(out)'
      /\ \A t \in Slots \ {s, out} : /\ is_present(t)' <=> is_present(t)
                                     /\ is_swapped(t)' <=> is_swapped(t)
      /\ \A t \in Slots : is_anon(t[1])' <=> is_anon(t[1])
  <2>1. ptes'[s].kind = "present" /\ ptes'[out].kind = "swap"
    BY SMTT(30), <1>4 DEF make_present, make_swap
  <2> QED BY <1>4, <2>1 DEF is_present, is_swapped, is_anon, UnfixSwappingOut
<1>7. /\ free_swap_entries' = E \ (IF is_anon(out[1]) THEN {ix} ELSE {})
      /\ used_pages' = used_pages /\ free_pages' = free_pages
  BY <1>a DEF UnfixSwappingOut
<1>8. E \in SUBSET SwapSlots /\ Contents(s) \in Data
  BY <1>0, SwapInFacts
<1>9. TypeOK'
  <2>1. ptes' \in [Slots -> [kind : {"none", "present", "swap"}, at : PteTargets]]
    <3>1. make_present(v) \in [kind : {"none", "present", "swap"}, at : PteTargets]
      BY DEF make_present, PteTargets
    <3>2. make_swap(ix) \in [kind : {"none", "present", "swap"}, at : PteTargets]
      BY SMTT(30), PagesAssumption DEF make_swap, PteTargets
    <3> QED BY <3>1, <3>2 DEF UnfixSwappingOut, OwnershipInv, TypeOK
  <2>2. UnfixedInfo(s, write) \in [slot : Slots \cup {NoSlot}, dirty : BOOLEAN]
    BY <1>0 DEF UnfixedInfo, is_swapped
  <2>3. page_infos' \in [Frames -> [slot : Slots \cup {NoSlot}, dirty : BOOLEAN]]
    BY <2>2 DEF UnfixSwappingOut, OwnershipInv, TypeOK
  <2>4. shm' \in [Frames -> Data]
    BY <1>8 DEF UnfixSwappingOut, OwnershipInv, TypeOK
  <2>5. SwappedOutData(v, s) \in Data
    BY DEF SwappedOutData, OwnershipInv, TypeOK
  <2>6. swapfile' \in [SwapSlots -> Data]
    BY <2>5 DEF UnfixSwappingOut, OwnershipInv, TypeOK
  <2>7. files' \in [Slots -> Data]
    BY <2>5 DEF UnfixSwappingOut, OwnershipInv, TypeOK
  <2>8. writable' \in SUBSET Slots
    BY <1>0 DEF UnfixSwappingOut, OwnershipInv, TypeOK, UnfixedWritable
  <2>9. used_before' \in SUBSET (Frames \X Frames)
    BY DEF UnfixSwappingOut, OwnershipInv, TypeOK
  <2> QED BY <1>7, <1>8, <2>1, <2>3, <2>4, <2>6, <2>7, <2>8, <2>9
          DEF UnfixSwappingOut, OwnershipInv, TypeOK
<1>10. PageOwnership'
  <2>1. free_pages' \cap used_pages' = {} /\ free_pages' \cup used_pages' = Frames
    BY <1>7 DEF OwnershipInv, PageOwnership
  <2>2. ASSUME NEW q \in used_pages'
        PROVE  /\ page_infos'[q].slot \in RegionSlots'
               /\ ptes'[page_infos'[q].slot] = make_present(q)'
    <3>1. CASE q = v
      <4>1. page_infos'[q].slot = s
        BY SMTT(30), <1>5, <3>1 DEF UnfixedInfo
      <4> QED BY <1>1, <1>4, <3>1, <4>1 DEF make_present
    <3>2. CASE q # v
      <4>1. q \in used_pages /\ q \in Frames
        BY <1>7 DEF OwnershipInv, TypeOK
      <4>2. page_infos[q].slot \in RegionSlots /\ ptes[page_infos[q].slot] = make_present(q)
        BY <4>1 DEF OwnershipInv, PageOwnership
      <4>3. page_infos[q].slot # s
        BY SMTT(30), <1>0, <4>2 DEF is_present, make_present
      <4>4. page_infos[q].slot # out
        BY SMTT(30), <1>2, <3>2, <4>2 DEF make_present
      <4> QED BY <1>0, <1>1, <1>4, <1>5, <3>2, <4>1, <4>2, <4>3, <4>4 DEF make_present
    <3> QED BY <3>1, <3>2
  <2>3. ASSUME NEW t \in Slots, is_present(t)'
        PROVE  ptes'[t].at \in used_pages' /\ page_infos'[ptes'[t].at].slot = t
    <3>1. CASE t = s
      <4>1. ptes'[t].at = v
        BY SMTT(30), <1>4, <3>1 DEF make_present
      <4>2. page_infos'[v].slot = s
        BY SMTT(30), <1>5 DEF UnfixedInfo
      <4> QED BY <1>2, <1>7, <3>1, <4>1, <4>2
    <3>2. CASE t # s
      <4>0. t # out
        BY <1>6, <2>3
      <4>1. is_present(t) /\ ptes'[t] = ptes[t]
        BY <1>4, <1>6, <2>3, <3>2, <4>0
      <4>2. ptes[t].at \in used_pages /\ page_infos[ptes[t].at].slot = t
        BY <4>1 DEF OwnershipInv, PageOwnership
      <4>3. ptes[t].at # v
        BY <1>a, <4>0, <4>2
      <4> QED BY <1>5, <1>7, <4>1, <4>2, <4>3 DEF OwnershipInv, TypeOK
    <3> QED BY <3>1, <3>2
  <2> QED BY <2>1, <2>2, <2>3 DEF PageOwnership
<1>11. SwapOwnership'
  <2>0. ptes'[out].at = ix
    BY SMTT(30), <1>4 DEF make_swap
  <2>1. ASSUME NEW t \in RegionSlots', is_swapped(t)', is_anon(t[1])'
        PROVE  \/ t = out /\ ix \in E
               \/ /\ t \in RegionSlots \ {s, out} /\ is_swapped(t) /\ is_anon(t[1])
                  /\ ptes'[t] = ptes[t] /\ ptes[t].at \in SwapSlots \ E
    <3>1. t \in RegionSlots /\ t \in Slots /\ t # s /\ is_anon(t[1])
      BY <1>0, <1>1, <1>6, <2>1
    <3>2. CASE t = out
      BY <1>3, <3>1, <3>2
    <3>3. CASE t # out
      <4>1. is_swapped(t) /\ ptes'[t] = ptes[t]
        BY <1>4, <1>6, <2>1, <3>1, <3>3
      <4> QED BY <1>0, <3>1, <3>3, <4>1, SwapInFacts
    <3> QED BY <3>2, <3>3
  <2>2. ASSUME NEW t \in RegionSlots', is_swapped(t)', is_anon(t[1])'
        PROVE  /\ ptes'[t].at \in SwapSlots \ free_swap_entries'
               /\ \A u \in RegionSlots' :
                     is_swapped(u)' /\ is_anon(u[1])' /\ ptes'[u].at = ptes'[t].at => u = t
    <3>1. CASE t = out
      <4>1. ix \in E /\ is_anon(out[1])
        BY <1>0, <1>6, <2>1, <2>2, <3>1, <1>2
      <4>2. ptes'[t].at \in SwapSlots \ free_swap_entries'
        BY <1>7, <1>8, <2>0, <3>1, <4>1
      <4> QED BY <2>0, <2>1, <3>1, <4>1, <4>2
    <3>2. CASE t # out
      <4>1. /\ t \in RegionSlots \ {s, out} /\ is_swapped(t) /\ is_anon(t[1])
            /\ ptes'[t] = ptes[t] /\ ptes[t].at \in SwapSlots \ E
        BY <2>1, <2>2, <3>2
      <4>2. ASSUME NEW u \in RegionSlots', is_swapped(u)', is_anon(u[1])', ptes'[u].at = ptes'[t].at
            PROVE  u = t
        <5>1. u # out
          BY <2>0, <2>1, <4>1, <4>2
        <5>2. u \in RegionSlots \ {s, out} /\ is_swapped(u) /\ is_anon(u[1]) /\ ptes'[u] = ptes[u]
          BY <2>1, <4>2, <5>1
        <5> QED BY <4>1, <4>2, <5>2 DEF OwnershipInv, SwapOwnership
      <4> QED BY <1>7, <4>1, <4>2
    <3> QED BY <3>1, <3>2
  <2>3. ASSUME NEW jx \in SwapSlots \ free_swap_entries'
        PROVE  \E t \in RegionSlots' : is_anon(t[1])' /\ ptes'[t] = make_swap(jx)'
    <3>1. CASE jx \in E
      <4>1. is_anon(out[1]) /\ jx = ix
        BY <1>7, <2>3, <3>1
      <4> QED BY <1>1, <1>2, <1>4, <1>6, <4>1 DEF make_swap
    <3>2. CASE jx \notin E
      <4>1. PICK t \in RegionSlots \ {s} : is_anon(t[1]) /\ ptes[t] = make_swap(jx)
        BY <1>0, <3>2, SwapInFacts
      <4>2. t # out
        BY SMTT(30), <1>2, <4>1 DEF make_swap, make_present
      <4> QED BY <1>0, <1>1, <1>4, <1>6, <4>1, <4>2 DEF make_swap
    <3> QED BY <3>1, <3>2
  <2>4. ASSUME NEW t \in RegionSlots', ~is_anon(t[1])'
        PROVE  is_present(t)' \/ ptes'[t] = make_swap(t[2])'
    <3>1. CASE t = out
      BY <1>0, <1>2, <1>3, <1>4, <1>6, <2>4, <3>1 DEF make_swap
    <3>2. CASE t # out
      BY <1>0, <1>1, <1>4, <1>6, <2>4, <3>2 DEF OwnershipInv, SwapOwnership, make_swap
    <3> QED BY <3>1, <3>2
  <2> QED BY <2>2, <2>3, <2>4 DEF SwapOwnership
<1>12. Tidy'
  <2>1. \A t \in Slots : t \notin RegionSlots' => ptes'[t] = region_pte
    BY <1>1, <1>2, <1>4 DEF OwnershipInv, Tidy
  <2>2. \A t \in writable' : is_present(t)'
    BY <1>a, <1>6 DEF OwnershipInv, Tidy, TypeOK, UnfixSwappingOut, UnfixedWritable
  <2> QED BY <1>1, <2>1, <2>2 DEF Tidy, region_pte, OwnershipInv, UnfixSwappingOut, Loaded
<1> QED BY <1>9, <1>10, <1>11, <1>12 DEF OwnershipInv

\* free keeps it: exactly the frames and swap entries of the region go back.
LEMMA FreeOwnership ==
    ASSUME OwnershipInv, NEW id \in Ids, free(id)
    PROVE  OwnershipInv'
<1> DEFINE S == PagesOf(id, nr_pages[id])
           freed == FreedPages(S)
           entries == FreedSwapEntries(S)
<1>1. S = {s \in RegionSlots : s[1] = id} /\ S \subseteq Slots
  <2>1. nr_pages[id] \in 0 .. MaxPages
    BY DEF OwnershipInv, TypeOK
  <2>2. S = {s \in Slots : s[1] = id /\ s[2] < nr_pages[id]}
    BY <2>1, PagesOfARegion
  <2> QED BY <2>2 DEF RegionSlots
<1>2. /\ RegionSlots \subseteq Slots
      /\ RegionSlots' = RegionSlots \ S
  BY SMTT(30), <1>1, SlotParts, PagesAssumption DEF free, RegionSlots, OwnershipInv, TypeOK
<1>3. /\ \A s \in Slots \ S : ptes'[s] = ptes[s]
      /\ \A s \in S : ptes'[s] = region_pte
  BY <1>1 DEF free
<1>4. \A s \in Slots : is_present(s)' <=> is_present(s) /\ s \notin S
  BY SMTT(30), <1>3 DEF is_present, region_pte
<1>5. freed \subseteq used_pages
  BY SMTT(30), <1>1 DEF FreedPages, OwnershipInv, PageOwnership
<1>6. entries \subseteq SwapSlots
  BY <1>1 DEF FreedSwapEntries, OwnershipInv, SwapOwnership
<1>7. TypeOK'
  <2>1. nr_available_pages' \in Nat
    BY SMTT(30), PagesAssumption DEF free, OwnershipInv, TypeOK
  <2>2. ptes' \in [Slots -> [kind : {"none", "present", "swap"}, at : PteTargets]]
    BY SMTT(30), PagesAssumption DEF free, OwnershipInv, TypeOK, region_pte, PteTargets
  <2>3. page_infos' \in [Frames -> [slot : Slots \cup {NoSlot}, dirty : BOOLEAN]]
    BY DEF free, OwnershipInv, TypeOK, page_info
  <2>4. /\ mem' \in [Slots -> Data]
        /\ files' \in [Slots -> Data]
    BY DEF free, OwnershipInv, TypeOK, Data
  <2>5. file_pages' \in [Ids -> NoFile .. MaxPages]
    BY SMTT(30), PagesAssumption DEF free, OwnershipInv, TypeOK, NoFile
  <2>6. nr_pages' \in [Ids -> 0 .. MaxPages]
    BY SMTT(30), PagesAssumption DEF free, OwnershipInv, TypeOK
  <2>7. /\ free_pages' \in SUBSET Frames
        /\ used_pages' \in SUBSET Frames
        /\ used_before' \in SUBSET (Frames \X Frames)
        /\ free_swap_entries' \in SUBSET SwapSlots
    BY <1>5, <1>6 DEF free, OwnershipInv, TypeOK
  <2> QED BY <2>1, <2>2, <2>3, <2>4, <2>5, <2>6, <2>7 DEF free, OwnershipInv, TypeOK
<1>8. PageOwnership'
  <2>1. free_pages' \cap used_pages' = {} /\ free_pages' \cup used_pages' = Frames
    BY <1>5 DEF free, OwnershipInv, PageOwnership
  <2>2. ASSUME NEW p \in used_pages'
        PROVE  /\ page_infos'[p].slot \in RegionSlots'
               /\ ptes'[page_infos'[p].slot] = make_present(p)'
    <3> DEFINE s == page_infos[p].slot
    <3>1. p \in used_pages /\ p \notin freed /\ p \in Frames
      BY DEF free, OwnershipInv, TypeOK
    <3>2. page_infos'[p] = page_infos[p]
      BY <3>1 DEF free
    <3>3. s \in RegionSlots /\ ptes[s] = make_present(p)
      BY <3>1 DEF OwnershipInv, PageOwnership
    <3>4. ASSUME s \in S PROVE FALSE
      <4>1. is_present(s) /\ ptes[s].at = p
        BY SMTT(30), <3>3 DEF is_present, make_present
      <4> QED BY <3>1, <3>4, <4>1 DEF FreedPages
    <3> QED BY <1>2, <1>3, <3>2, <3>3, <3>4 DEF make_present
  <2>3. ASSUME NEW s \in Slots, is_present(s)'
        PROVE  ptes'[s].at \in used_pages' /\ page_infos'[ptes'[s].at].slot = s
    <3>1. is_present(s) /\ s \notin S /\ ptes'[s] = ptes[s]
      BY <1>3, <1>4, <2>3
    <3>2. ptes[s].at \in used_pages /\ page_infos[ptes[s].at].slot = s
      BY <3>1 DEF OwnershipInv, PageOwnership
    <3>3. ptes[s].at \notin freed
      BY SMTT(30), <1>1, <3>1, <3>2 DEF FreedPages, OwnershipInv, PageOwnership
    <3> QED BY <3>1, <3>2, <3>3 DEF free, OwnershipInv, TypeOK
  <2> QED BY <2>1, <2>2, <2>3 DEF PageOwnership
<1>9. \A s \in RegionSlots \ S : /\ is_anon(s[1])' <=> is_anon(s[1])
                                 /\ is_swapped(s)' <=> is_swapped(s)
                                 /\ ptes'[s] = ptes[s]
                                 /\ s \in RegionSlots
  BY <1>1, <1>2, <1>3 DEF is_anon, is_swapped, free
<1>10. SwapOwnership'
  <2>1. ASSUME NEW s \in RegionSlots', is_swapped(s)', is_anon(s[1])'
        PROVE  /\ ptes'[s].at \in SwapSlots \ free_swap_entries'
               /\ \A t \in RegionSlots' :
                     is_swapped(t)' /\ is_anon(t[1])' /\ ptes'[t].at = ptes'[s].at => t = s
    <3>1. s \in RegionSlots \ S /\ is_swapped(s) /\ is_anon(s[1]) /\ ptes'[s] = ptes[s]
      BY <1>2, <1>9, <2>1
    <3>2. ptes[s].at \in SwapSlots \ free_swap_entries
      BY <3>1 DEF OwnershipInv, SwapOwnership
    <3>3. ptes[s].at \notin entries
      BY <1>1, <3>1 DEF FreedSwapEntries, OwnershipInv, SwapOwnership
    <3>4. free_swap_entries' = free_swap_entries \cup entries
      BY DEF free
    <3>5. \A t \in RegionSlots' :
              is_swapped(t)' /\ is_anon(t[1])' /\ ptes'[t].at = ptes'[s].at => t = s
      BY <1>2, <1>9, <3>1 DEF OwnershipInv, SwapOwnership
    <3> QED BY <3>1, <3>2, <3>3, <3>4, <3>5
  <2>2. ASSUME NEW ix \in SwapSlots \ free_swap_entries'
        PROVE  \E s \in RegionSlots' : is_anon(s[1])' /\ ptes'[s] = make_swap(ix)'
    <3>1. ix \notin free_swap_entries /\ ix \notin entries
      BY DEF free
    <3>2. PICK s \in RegionSlots : is_anon(s[1]) /\ ptes[s] = make_swap(ix)
      BY <3>1 DEF OwnershipInv, SwapOwnership
    <3>3. is_swapped(s) /\ ptes[s].at = ix
      BY SMTT(30), <3>2 DEF is_swapped, make_swap
    <3>4. s \notin S
      BY <3>1, <3>2, <3>3 DEF FreedSwapEntries
    <3> QED BY <1>2, <1>9, <3>2, <3>4 DEF make_swap
  <2>3. \A s \in RegionSlots' : ~is_anon(s[1])' => is_present(s)' \/ ptes'[s] = make_swap(s[2])'
    BY <1>2, <1>4, <1>9 DEF OwnershipInv, SwapOwnership, make_swap
  <2> QED BY <2>1, <2>2, <2>3 DEF SwapOwnership
<1>11. Tidy'
  <2>1. \A s \in Slots : s \notin RegionSlots' => ptes'[s] = region_pte
    BY <1>1, <1>2, <1>3 DEF OwnershipInv, Tidy
  <2>2. anchored' \subseteq persistent'
    BY DEF OwnershipInv, Tidy, free, MayFree
  <2>3. \A x \in persistent' : Loaded(x)'
    BY DEF OwnershipInv, Tidy, TypeOK, free, Loaded
  <2>4. \A s \in writable' : is_present(s)'
    BY <1>4 DEF OwnershipInv, Tidy, TypeOK, free
  <2>5. undirtied' \subseteq RegionSlots'
    BY <1>2 DEF OwnershipInv, Tidy, free
  <2> QED BY <2>1, <2>2, <2>3, <2>4, <2>5 DEF Tidy, region_pte
<1> QED BY <1>7, <1>8, <1>10, <1>11 DEF OwnershipInv

\* Every step keeps the invariant.
LEMMA NextOwnership == OwnershipInv /\ [Next]_vars => OwnershipInv'
<1> SUFFICES ASSUME OwnershipInv, [Next]_vars PROVE OwnershipInv'
  OBVIOUS
<1>1. ASSUME NEW id \in Ids, free(id) PROVE OwnershipInv'
  BY <1>1, FreeOwnership
<1>2. ASSUME NEW id \in Ids, NEW n \in Sizes, AllocateAnon(id, n) \/ AllocatePersistent(id, n)
      PROVE  OwnershipInv'
  BY <1>2, AllocateAnonOwnership, AllocatePersistentOwnership
<1>3. ASSUME NEW s \in Slots, NEW write \in BOOLEAN, unfix(s, write) PROVE OwnershipInv'
  <2>0. s \in RegionSlots
    BY <1>3 DEF unfix
  <2>1. ASSUME NEW p \in Frames, UnfixIntoFreePage(s, write, p) PROVE OwnershipInv'
    BY <2>0, <2>1, UnfixIntoFreePageOwnership
  <2>2. ASSUME NEW v \in Frames, NEW ix \in SwapSlots \cup (0 .. MaxPages - 1),
               UnfixSwappingOut(s, write, v, ix)
        PROVE  OwnershipInv'
    BY <2>0, <2>2, UnfixSwappingOutOwnership
  <2>3. ASSUME UnfixPresent(s, write) PROVE OwnershipInv'
    BY <2>0, <2>3, UnfixPresentOwnership
  <2> QED BY <1>3, <2>1, <2>2, <2>3 DEF unfix
<1>4. ASSUME NEW s \in Slots, mark_dirty(s) PROVE OwnershipInv'
  BY <1>4, MarkDirtyOwnership
<1>5. ASSUME NEW s \in Slots, NEW d \in WriteData, ClientWrite(s, d) PROVE OwnershipInv'
  BY <1>5, ClientWriteOwnership
<1>6. ASSUME NEW id \in Ids, NEW off \in 0 .. MaxPages - 1, NEW n \in 1 .. MaxPages,
             persist(id, off, n)
      PROVE  OwnershipInv'
  BY <1>6, PersistOwnership
<1>7. ASSUME NEW id \in Ids, get_anchored_region(id) \/ anchor(id) \/ unanchor(id)
      PROVE  OwnershipInv'
  BY <1>7, GetAnchoredRegionOwnership, AnchorOwnership
<1>8. ASSUME NEW id \in Ids, NEW n \in Sizes, AllocateAnonNoVm(id, n) PROVE OwnershipInv'
  BY <1>8, AllocateAnonNoVmOwnership
<1>9. ASSUME NEW id \in Ids, NEW n \in Sizes \cup {0}, AllocatePersistentFails(id, n)
      PROVE  OwnershipInv'
  BY <1>9, AllocatePersistentFailsOwnership
<1>10. ASSUME CleanRestart \/ Crash PROVE OwnershipInv'
  BY <1>10, RestartOwnership
<1>11. ASSUME UNCHANGED vars PROVE OwnershipInv'
  BY <1>11, UnchangedOwnership
<1> QED
  BY <1>1, <1>2, <1>3, <1>4, <1>5, <1>6, <1>7, <1>8, <1>9, <1>10, <1>11 DEF Next, PagingNext

(***************************************************************************)
(* The ownership invariant holds in every state the buffer manager         *)
(* reaches, whatever the clients call, fault on or write, across failed    *)
(* allocations, clean restarts and crashes.                                *)
(***************************************************************************)
THEOREM OwnershipHolds == Spec => []OwnershipInv
BY InitOwnership, NextOwnership, PTL DEF Spec

\* The manager's state keeps its type.
THEOREM TypeCorrect == Spec => []TypeOK
<1>1. OwnershipInv => TypeOK
  BY DEF OwnershipInv
<1> QED BY <1>1, OwnershipHolds, PTL

\* Each RAM frame is on one of m_free_pages and m_used_pages, and page tables
\* and m_page_infos agree on its owner: unfix, swap_out_page and free never
\* leave two pages in one frame, nor a frame in nobody's hands.
THEOREM FramesAreOwned == Spec => []PageOwnership
<1>1. OwnershipInv => PageOwnership
  BY DEF OwnershipInv
<1> QED BY <1>1, OwnershipHolds, PTL

\* Each swap entry is free or holds one page of one anonymous region, and an
\* absent persistent page is at its own offset of its file: swap_in_page,
\* swap_out_page and free never leak or share an entry.
THEOREM SwapEntriesAreOwned == Spec => []SwapOwnership
<1>1. OwnershipInv => SwapOwnership
  BY DEF OwnershipInv
<1> QED BY <1>1, OwnershipHolds, PTL

(***************************************************************************)
(* The buffer manager implements RegionStore: one step per action again.   *)
(***************************************************************************)
\* An empty manager is an empty store.
LEMMA InitImplements == Init => Store!StoreInit
BY DEF Init, Store!StoreInit, NoFile, Store!NoFile

\* free is the store's free.
LEMMA FreeImplements ==
    ASSUME TypeOK, NEW id \in Ids, free(id)
    PROVE  Store!free(id)
<1>1. Store!Loaded(id) /\ id \notin anchored
  BY DEF free, MayFree, Loaded, Store!Loaded
<1>2. /\ nr_pages' = [x \in Ids |-> IF x \in {id} THEN 0 ELSE nr_pages[x]]
      /\ persistent' = persistent \ {id}
      /\ anchored' = anchored \ {id}
  BY <1>1 DEF free, TypeOK
<1>3. file_pages' = [x \in Ids |-> IF x \in {id} \cap persistent THEN Store!NoFile ELSE file_pages[x]]
  BY DEF free, TypeOK, is_anon, NoFile, Store!NoFile
<1> QED BY <1>1, <1>2, <1>3 DEF Store!free, Store!Drop

\* Both kinds of allocation are the store's allocate.
LEMMA AllocateImplements ==
    ASSUME NEW id \in Ids, NEW n \in Sizes, AllocateAnon(id, n) \/ AllocatePersistent(id, n)
    PROVE  \E pers \in BOOLEAN : Store!allocate(id, n, pers)
<1>1. CASE AllocateAnon(id, n)
  <2>1. Store!allocate(id, n, FALSE)
    BY <1>1 DEF AllocateAnon, MayAllocate, add_region, disk, Loaded, Store!allocate, Store!Loaded
  <2> QED BY <2>1
<1>2. CASE AllocatePersistent(id, n)
  <2>1. Store!allocate(id, n, TRUE)
    BY <1>2 DEF AllocatePersistent, MayAllocate, add_region, Loaded, NoFile,
                Store!allocate, Store!Loaded, Store!NoFile
  <2> QED BY <2>1
<1> QED BY <1>1, <1>2

\* Every step is a step of the store or leaves it unchanged.
LEMMA NextImplements == TypeOK /\ [Next]_vars => [Store!StoreNext]_(Store!store)
<1> SUFFICES ASSUME TypeOK, [Next]_vars
             PROVE  Store!StoreNext \/ UNCHANGED Store!store
  OBVIOUS
<1>1. ASSUME NEW id \in Ids, free(id) PROVE Store!StoreNext
  BY <1>1, FreeImplements DEF Store!StoreNext
<1>2. ASSUME NEW id \in Ids, NEW n \in Sizes, AllocateAnon(id, n) \/ AllocatePersistent(id, n)
      PROVE  Store!StoreNext
  BY <1>2, AllocateImplements DEF Store!StoreNext
<1>3. ASSUME NEW s \in Slots, NEW write \in BOOLEAN, unfix(s, write) PROVE UNCHANGED Store!store
  BY <1>3 DEF unfix, UnfixIntoFreePage, UnfixSwappingOut, UnfixPresent, disk, Store!store
<1>4. ASSUME NEW s \in Slots, mark_dirty(s) PROVE UNCHANGED Store!store
  BY <1>4 DEF mark_dirty, disk, Store!store
<1>5. ASSUME NEW s \in Slots, NEW d \in WriteData, ClientWrite(s, d) PROVE UNCHANGED Store!store
  BY <1>5 DEF ClientWrite, disk, Store!store
<1>6. ASSUME NEW id \in Ids, NEW off \in 0 .. MaxPages - 1, NEW n \in 1 .. MaxPages,
             persist(id, off, n)
      PROVE  UNCHANGED Store!store
  BY <1>6 DEF persist, Store!store
<1>7. ASSUME NEW id \in Ids, get_anchored_region(id) PROVE Store!StoreNext
  <2>1. Store!get_anchored_region(id)
    BY <1>7 DEF get_anchored_region, add_region, disk, Loaded, Store!get_anchored_region, Store!Loaded
  <2> QED BY <2>1 DEF Store!StoreNext
<1>8. ASSUME NEW id \in Ids, anchor(id) \/ unanchor(id) PROVE Store!StoreNext
  <2>1. Store!anchor(id) \/ Store!unanchor(id)
    BY <1>8 DEF anchor, unanchor, disk, Loaded, is_anon, Store!anchor, Store!unanchor, Store!Loaded
  <2> QED BY <2>1 DEF Store!StoreNext
<1>9. ASSUME NEW id \in Ids, NEW n \in Sizes, AllocateAnonNoVm(id, n) PROVE UNCHANGED Store!store
  BY <1>9 DEF AllocateAnonNoVm, disk, Store!store
<1>10. ASSUME NEW id \in Ids, NEW n \in Sizes \cup {0}, AllocatePersistentFails(id, n)
       PROVE  Store!StoreNext
  <2>1. Store!AllocateFails(id, n)
    BY <1>10 DEF AllocatePersistentFails, MayAllocate, Loaded, NoFile,
                 Store!AllocateFails, Store!Loaded, Store!NoFile
  <2> QED BY <2>1 DEF Store!StoreNext
<1>11. ASSUME CleanRestart \/ Crash PROVE Store!StoreNext
  <2>1. Store!Restart
    BY <1>11 DEF CleanRestart, Crash, Restart, Store!Restart
  <2> QED BY <2>1 DEF Store!StoreNext
<1>12. ASSUME UNCHANGED vars PROVE UNCHANGED Store!store
  BY <1>12 DEF vars, disk, Store!store
<1> QED
  BY <1>1, <1>2, <1>3, <1>4, <1>5, <1>6, <1>7, <1>8, <1>9, <1>10, <1>11, <1>12 DEF Next, PagingNext

\* Every behaviour of demo_buffer_manager, seen as which regions are loaded,
\* anchored and on disk, is one of RegionStore; the client manager may
\* therefore be studied over RegionStore alone.
THEOREM ImplementsStore == Spec => ImplementsRegionStore
<1> USE DEF ImplementsRegionStore
<1> QED BY InitImplements, NextImplements, TypeCorrect, PTL DEF Spec, Store!StoreSpec
=============================================================================

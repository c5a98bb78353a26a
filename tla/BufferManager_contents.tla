----------------------- MODULE BufferManager_contents -----------------------
(***************************************************************************)
(* Theorems about what BufferManager keeps, for any number of regions,     *)
(* frames, swap entries and pages: clients read what was written last,     *)
(* clean pages are in their files, persist and shutdown write what is      *)
(* dirty, anchored regions stay.                                           *)
(***************************************************************************)
EXTENDS BufferManager_proofs

\* How long a prover may look for the proof of a leaf.
USE ZenonT(60)

\* A region has its pages as written last, wherever they are.
Remembered == \A s \in RegionSlots \ undirtied : Contents(s) = mem[s]

\* Persistent regions are as large as their files; files have nothing beyond
\* their sizes, and what is not loaded is as the file has it.
FilesInv ==
    /\ \A s \in Slots : s[2] >= file_pages[s[1]] => files[s] = Hole
    /\ \A s \in Slots : s \notin RegionSlots => files[s] = mem[s]
    /\ \A id \in Ids : Loaded(id) /\ ~is_anon(id) => file_pages[id] = nr_pages[id]

\* The inductive invariant, next to OwnershipInv.
ContentsInv == CleanPagesAreSafe /\ Remembered /\ FilesInv /\ AnchoredSurvives

\* Types of the variables that the proofs below use most.
LEMMA RegionTypes ==
    ASSUME OwnershipInv
    PROVE  /\ nr_pages \in [Ids -> 0 .. MaxPages] /\ nr_available_pages \in Nat
           /\ page_infos \in [Frames -> [slot : Slots \cup {NoSlot}, dirty : BOOLEAN]]
BY DEF OwnershipInv, TypeOK

\* Where the page table finds a page.
LEMMA ContentsAre ==
    ASSUME OwnershipInv, NEW s \in RegionSlots
    PROVE  /\ is_present(s) => Contents(s) = shm[ptes[s].at]
           /\ ~is_present(s) /\ ~is_anon(s[1]) => Contents(s) = files[s]
           /\ is_swapped(s) /\ is_anon(s[1]) => Contents(s) = swapfile[ptes[s].at]
           /\ ~is_present(s) /\ ~is_swapped(s) => Contents(s) = "a"
<1>1. s \in Slots
  BY DEF RegionSlots
<1>2. ASSUME ~is_present(s), ~is_anon(s[1]) PROVE Contents(s) = files[s]
  <2>1. ptes[s] = make_swap(s[2])
    BY <1>2 DEF OwnershipInv, SwapOwnership
  <2>2. is_swapped(s) /\ ptes[s].at = s[2]
    BY SMTT(30), <2>1 DEF make_swap, is_swapped
  <2>3. Contents(s) = files[<<s[1], s[2]>>]
    BY <1>2, <2>2 DEF Contents, is_present, is_swapped
  <2> QED BY <1>1, <2>3, SlotParts
<1>3. ASSUME is_swapped(s), is_anon(s[1]) PROVE Contents(s) = swapfile[ptes[s].at]
  BY <1>3 DEF Contents, is_present, is_swapped
<1>4. ASSUME ~is_present(s), ~is_swapped(s) PROVE Contents(s) = "a"
  BY <1>4 DEF Contents
<1>5. ASSUME is_present(s) PROVE Contents(s) = shm[ptes[s].at]
  BY <1>5 DEF Contents, is_present, is_swapped
<1> QED BY <1>2, <1>3, <1>4, <1>5

\* The same after a step.
LEMMA ContentsAreThen ==
    ASSUME OwnershipInv', NEW s \in RegionSlots'
    PROVE  /\ is_present(s)' => Contents(s)' = shm'[ptes'[s].at]
           /\ ~is_present(s)' /\ ~is_anon(s[1])' => Contents(s)' = files'[s]
           /\ is_swapped(s)' /\ is_anon(s[1])' => Contents(s)' = swapfile'[ptes'[s].at]
           /\ ~is_present(s)' /\ ~is_swapped(s)' => Contents(s)' = "a"
<1>1. s \in Slots
  BY DEF RegionSlots
<1>2. ASSUME ~is_present(s)', ~is_anon(s[1])' PROVE Contents(s)' = files'[s]
  <2>1. ptes'[s] = make_swap(s[2])
    BY <1>2 DEF OwnershipInv, SwapOwnership, make_swap
  <2>2. is_swapped(s)' /\ ptes'[s].at = s[2]
    BY SMTT(30), <2>1 DEF make_swap, is_swapped
  <2>3. Contents(s)' = files'[<<s[1], s[2]>>]
    BY <1>2, <2>2 DEF Contents, is_present, is_swapped
  <2> QED BY <1>1, <2>3, SlotParts
<1>3. ASSUME is_swapped(s)', is_anon(s[1])' PROVE Contents(s)' = swapfile'[ptes'[s].at]
  BY <1>3 DEF Contents, is_present, is_swapped
<1>4. ASSUME ~is_present(s)', ~is_swapped(s)' PROVE Contents(s)' = "a"
  BY <1>4 DEF Contents
<1>5. ASSUME is_present(s)' PROVE Contents(s)' = shm'[ptes'[s].at]
  BY <1>5 DEF Contents, is_present, is_swapped
<1> QED BY <1>2, <1>3, <1>4, <1>5

\* Where a persistent page is, its file is up to date or the page is dirty.
LEMMA CleanIsWritten ==
    ASSUME OwnershipInv, ContentsInv, NEW s \in RegionSlots, s \notin undirtied, ~is_anon(s[1])
    PROVE  IF is_present(s) /\ page_infos[ptes[s].at].dirty THEN shm[ptes[s].at] = mem[s]
                                                            ELSE files[s] = mem[s]
<1>1. Contents(s) = mem[s]
  BY DEF ContentsInv, Remembered
<1>2. CASE is_present(s)
  BY <1>1, <1>2, ContentsAre DEF ContentsInv, CleanPagesAreSafe
<1>3. CASE ~is_present(s)
  BY <1>1, <1>3, ContentsAre
<1> QED BY <1>2, <1>3

\* The constructor establishes the invariant.
LEMMA InitContents == Init => ContentsInv
<1> SUFFICES ASSUME Init PROVE ContentsInv
  OBVIOUS
<1>1. \A s \in Slots : s \notin RegionSlots
  BY SMTT(30), SlotParts DEF Init, RegionSlots
<1>2. RegionSlots = {}
  BY <1>1 DEF RegionSlots
<1>3. FilesInv
  BY SMTT(30) DEF Init, FilesInv, Loaded
<1> QED BY <1>2, <1>3 DEF Init, ContentsInv, CleanPagesAreSafe, Remembered, AnchoredSurvives

\* Steps that move no page and change no contents.
LEMMA QuietContents ==
    ASSUME OwnershipInv, ContentsInv,
           UNCHANGED <<nr_pages, persistent, ptes, shm, swapfile, files, mem>>,
           undirtied \subseteq undirtied'
    PROVE  Remembered' /\ RegionSlots' = RegionSlots
<1>1. RegionSlots' = RegionSlots
  BY DEF RegionSlots
<1>2. \A s : Contents(s)' = Contents(s)
  BY DEF Contents, is_present, is_swapped, is_anon
<1> QED BY <1>1, <1>2 DEF ContentsInv, Remembered

\* A step that changes nothing keeps the invariant.
LEMMA UnchangedContents == ASSUME OwnershipInv, ContentsInv, UNCHANGED vars PROVE ContentsInv'
<1>1. Remembered' /\ RegionSlots' = RegionSlots
  BY QuietContents DEF vars, disk
<1>2. CleanPagesAreSafe' /\ FilesInv' /\ AnchoredSurvives'
  BY <1>1 DEF vars, lists, disk, ContentsInv, CleanPagesAreSafe, FilesInv, AnchoredSurvives,
              is_present, is_anon, Loaded
<1> QED BY <1>1, <1>2 DEF ContentsInv

\* anchor, unanchor and the allocations that fail half-way.
LEMMA AnchorContents ==
    ASSUME OwnershipInv, ContentsInv, NEW id \in Ids,
           \/ anchor(id) \/ unanchor(id) \/ \E n \in Sizes : AllocateAnonNoVm(id, n)
    PROVE  ContentsInv'
<1>s. /\ UNCHANGED <<nr_pages, persistent, ptes, shm, swapfile, files, file_pages, mem,
                     page_infos, writable, undirtied>>
      /\ \/ anchored' = anchored /\ promised' = promised
         \/ Loaded(id) /\ ~is_anon(id) /\ anchored' = anchored \cup {id} /\ promised' = promised \cup {id}
         \/ anchored' = anchored \ {id} /\ promised' = promised \ {id}
  BY DEF anchor, unanchor, AllocateAnonNoVm, lists, disk
<1>1. Remembered' /\ RegionSlots' = RegionSlots
  BY <1>s, QuietContents
<1>2. CleanPagesAreSafe' /\ FilesInv'
  BY <1>s, <1>1 DEF ContentsInv, CleanPagesAreSafe, FilesInv, is_present, is_anon, Loaded
<1>3. AnchoredSurvives'
  BY <1>s DEF ContentsInv, FilesInv, AnchoredSurvives, is_anon, Loaded, OwnershipInv, TypeOK
<1> QED BY <1>1, <1>2, <1>3 DEF ContentsInv

\* allocate that fails after creating the file: the file has nothing but holes.
LEMMA AllocatePersistentFailsContents ==
    ASSUME OwnershipInv, ContentsInv, NEW id \in Ids, NEW n \in Sizes \cup {0},
           AllocatePersistentFails(id, n)
    PROVE  ContentsInv'
<1>s. /\ UNCHANGED <<nr_pages, persistent, anchored, ptes, shm, swapfile, files, mem,
                     page_infos, writable, promised, undirtied>>
      /\ ~Loaded(id) /\ file_pages[id] = -1 /\ file_pages' = [file_pages EXCEPT ![id] = n]
  BY DEF AllocatePersistentFails, lists, MayAllocate, NoFile
<1>1. Remembered' /\ RegionSlots' = RegionSlots
  BY <1>s, QuietContents
<1>2. CleanPagesAreSafe'
  BY <1>s, <1>1 DEF ContentsInv, CleanPagesAreSafe, is_present, is_anon
<1>n. n \in Nat
  BY SMTT(30), PagesAssumption
<1>f. \A j \in Ids : file_pages'[j] = IF j = id THEN n ELSE file_pages[j]
  BY <1>s DEF OwnershipInv, TypeOK
<1>3. FilesInv'
  <2>1. \A s \in Slots : s[2] >= file_pages'[s[1]] => files'[s] = Hole
    <3> SUFFICES ASSUME NEW s \in Slots, s[2] >= file_pages'[s[1]] PROVE files[s] = Hole
      BY <1>s DEF Hole
    <3>1. s[1] \in Ids /\ s[2] \in 0 .. MaxPages - 1
      BY SlotParts
    <3>2. s[2] >= file_pages[s[1]]
      BY SMTT(30), <3>1, <1>s, <1>f
    <3> QED BY <3>2 DEF ContentsInv, FilesInv
  <2> QED BY <2>1, <1>s, <1>1, <1>f DEF ContentsInv, FilesInv, is_anon, Loaded, Hole
<1>4. AnchoredSurvives'
  BY SMTT(30), <1>s, <1>f DEF ContentsInv, AnchoredSurvives, Loaded, OwnershipInv, TypeOK
<1> QED BY <1>1, <1>2, <1>3, <1>4 DEF ContentsInv

\* Two pages in RAM are in different frames.
LEMMA FramesDiffer ==
    ASSUME OwnershipInv, NEW s \in Slots, NEW t \in Slots, is_present(s), is_present(t), s # t
    PROVE  ptes[s].at # ptes[t].at
BY DEF OwnershipInv, PageOwnership

\* A client's store reaches the only copy that counts.
LEMMA ClientWriteContents ==
    ASSUME OwnershipInv, OwnershipInv', ContentsInv, NEW s \in Slots, NEW d \in WriteData,
           ClientWrite(s, d)
    PROVE  ContentsInv'
<1>s. /\ s \in RegionSlots /\ s \in writable
      /\ shm' = [shm EXCEPT ![ptes[s].at] = d]
      /\ mem' = [mem EXCEPT ![s] = d]
      /\ UNCHANGED <<nr_pages, persistent, anchored, ptes, page_infos, swapfile, files, file_pages,
                     writable, promised, undirtied>>
  BY DEF ClientWrite, lists, disk
<1>1. is_present(s) /\ ptes[s].at \in Frames
  BY <1>s DEF OwnershipInv, Tidy, PageOwnership, TypeOK
<1>2. RegionSlots' = RegionSlots
  BY <1>s DEF RegionSlots
<1>3. /\ shm'[ptes[s].at] = d /\ mem'[s] = d
      /\ \A p \in Frames : p # ptes[s].at => shm'[p] = shm[p]
      /\ \A t \in Slots : t # s => mem'[t] = mem[t]
  BY <1>s, <1>1 DEF OwnershipInv, TypeOK
<1>4. ASSUME NEW t \in RegionSlots, t # s
      PROVE  Contents(t)' = Contents(t) /\ (is_present(t) => shm'[ptes[t].at] = shm[ptes[t].at])
  <2>1. t \in Slots
    BY DEF RegionSlots
  <2>2. is_present(t) => ptes[t].at # ptes[s].at /\ ptes[t].at \in Frames
    BY <1>1, <1>4, <2>1, FramesDiffer DEF OwnershipInv, PageOwnership, TypeOK
  <2>3. is_present(t) => shm'[ptes[t].at] = shm[ptes[t].at]
    BY <2>2, <1>3
  <2> QED BY <1>s, <2>3 DEF Contents, is_present, is_swapped, is_anon
<1>5. Remembered'
  <2> SUFFICES ASSUME NEW t \in RegionSlots, t \notin undirtied PROVE Contents(t)' = mem'[t]
    BY <1>2, <1>s DEF Remembered
  <2>1. CASE t = s
    <3>1. s \in RegionSlots' /\ is_present(s)'
      BY <1>s, <1>1, <1>2 DEF is_present
    <3>2. Contents(s)' = shm'[ptes'[s].at]
      BY <3>1, ContentsAreThen
    <3> QED BY <2>1, <3>2, <1>3, <1>s
  <2>2. CASE t # s
    BY <2>2, <1>3, <1>4 DEF ContentsInv, Remembered, RegionSlots
  <2> QED BY <2>1, <2>2
<1>6. CleanPagesAreSafe'
  <2> SUFFICES ASSUME NEW t \in RegionSlots, t \notin undirtied, is_present(t), ~is_anon(t[1]),
                      ~page_infos[ptes[t].at].dirty
               PROVE  t \notin writable /\ files[t] = shm'[ptes[t].at]
    BY <1>2, <1>s DEF CleanPagesAreSafe, is_present, is_anon
  <2>1. t \notin writable /\ files[t] = shm[ptes[t].at]
    BY DEF ContentsInv, CleanPagesAreSafe
  <2> QED BY <2>1, <1>4, <1>s
<1>7. FilesInv' /\ AnchoredSurvives'
  BY <1>s, <1>2, <1>3 DEF ContentsInv, FilesInv, AnchoredSurvives, Loaded, is_anon
<1> QED BY <1>5, <1>6, <1>7 DEF ContentsInv

\* mark_dirty and a fault on a page in RAM move no page.
LEMMA DirtyBitContents ==
    ASSUME OwnershipInv, ContentsInv, NEW s \in RegionSlots,
           mark_dirty(s) \/ \E write \in BOOLEAN : UnfixPresent(s, write)
    PROVE  ContentsInv'
<1> DEFINE p == ptes[s].at
<1>0. s \in Slots
  BY DEF RegionSlots
<1>1. is_present(s) /\ p \in Frames
  BY <1>0 DEF mark_dirty, UnfixPresent, OwnershipInv, PageOwnership, TypeOK
<1>s. /\ UNCHANGED <<nr_pages, persistent, anchored, ptes, shm, swapfile, files, file_pages, mem,
                     promised>>
      /\ undirtied \subseteq undirtied'
      /\ writable \subseteq writable' /\ writable' \subseteq writable \cup {s}
  BY DEF mark_dirty, UnfixPresent, disk
<1>2. Remembered' /\ RegionSlots' = RegionSlots
  BY <1>s, QuietContents
<1>3. \A q \in Frames : q # p => page_infos'[q] = page_infos[q]
  BY DEF mark_dirty, UnfixPresent, OwnershipInv, TypeOK
<1>4. page_infos'[p].dirty \/ s \in undirtied' \/ is_anon(s[1])
         \/ (~page_infos[p].dirty /\ writable' = writable)
  <2>1. CASE mark_dirty(s)
    BY <2>1, <1>1 DEF mark_dirty, OwnershipInv, TypeOK
  <2>2. ASSUME NEW write \in BOOLEAN, UnfixPresent(s, write)
        PROVE  page_infos'[p].dirty \/ s \in undirtied' \/ is_anon(s[1])
                 \/ (~page_infos[p].dirty /\ writable' = writable)
    <3>1. page_infos'[p].dirty = write
      BY SMTT(30), <2>2, <1>1, RegionTypes DEF UnfixPresent
    <3> QED BY <2>2, <3>1 DEF UnfixPresent
  <2> QED BY <2>1, <2>2
<1>5. CleanPagesAreSafe'
  <2> SUFFICES ASSUME NEW t \in RegionSlots, t \notin undirtied', is_present(t), ~is_anon(t[1]),
                      ~page_infos'[ptes[t].at].dirty
               PROVE  t \notin writable' /\ files[t] = shm[ptes[t].at]
    BY <1>2, <1>s DEF CleanPagesAreSafe, is_present, is_anon
  <2>1. CASE t = s
    BY <2>1, <1>4, <1>s DEF ContentsInv, CleanPagesAreSafe
  <2>2. CASE t # s
    <3>1. t \in Slots
      BY DEF RegionSlots
    <3>2. ptes[t].at # p /\ ptes[t].at \in Frames
      BY <2>2, <3>1, <1>0, <1>1, FramesDiffer DEF OwnershipInv, PageOwnership, TypeOK
    <3>3. ~page_infos[ptes[t].at].dirty
      BY <3>2, <1>3
    <3> QED BY <2>2, <3>3, <1>s DEF ContentsInv, CleanPagesAreSafe
  <2> QED BY <2>1, <2>2
<1>6. FilesInv' /\ AnchoredSurvives'
  BY <1>s, <1>2 DEF ContentsInv, FilesInv, AnchoredSurvives, Loaded, is_anon
<1> QED BY <1>2, <1>5, <1>6 DEF ContentsInv

\* A page copied into a free frame is what it was.
LEMMA UnfixIntoFreePageContents ==
    ASSUME OwnershipInv, OwnershipInv', ContentsInv, NEW s \in RegionSlots, NEW write \in BOOLEAN,
           NEW p \in Frames, UnfixIntoFreePage(s, write, p)
    PROVE  ContentsInv'
<1>0. s \in Slots /\ ~is_present(s) /\ p \in free_pages
  BY DEF RegionSlots, UnfixIntoFreePage
<1>s. /\ UNCHANGED <<nr_pages, persistent, anchored, swapfile, files, file_pages, mem, promised,
                     undirtied>>
      /\ page_infos' = [page_infos EXCEPT ![p] = UnfixedInfo(s, write)]
      /\ ptes' = [ptes EXCEPT ![s] = make_present(p)]
      /\ shm' = [shm EXCEPT ![p] = Contents(s)]
      /\ writable' = writable \cup UnfixedWritable(s, write)
  BY DEF UnfixIntoFreePage, disk
<1>1. RegionSlots' = RegionSlots
  BY <1>s DEF RegionSlots
<1>2. /\ ptes'[s] = make_present(p) /\ shm'[p] = Contents(s)
      /\ page_infos'[p] = UnfixedInfo(s, write)
      /\ \A q \in Frames : q # p => shm'[q] = shm[q] /\ page_infos'[q] = page_infos[q]
      /\ \A t \in Slots : t # s => ptes'[t] = ptes[t]
  BY <1>s, <1>0 DEF OwnershipInv, TypeOK
<1>3. is_present(s)' /\ ptes'[s].at = p
  BY SMTT(30), <1>2 DEF is_present, make_present
<1>4. ASSUME NEW t \in RegionSlots, t # s
      PROVE  /\ ptes'[t] = ptes[t]
             /\ Contents(t)' = Contents(t)
             /\ is_present(t) => /\ shm'[ptes[t].at] = shm[ptes[t].at]
                                 /\ page_infos'[ptes[t].at] = page_infos[ptes[t].at]
  <2>1. t \in Slots
    BY DEF RegionSlots
  <2>2. is_present(t) => ptes[t].at # p /\ ptes[t].at \in Frames
    BY SMTT(30), <2>1, <1>0 DEF OwnershipInv, PageOwnership, TypeOK
  <2>3. ptes'[t] = ptes[t]
    BY <2>1, <1>2, <1>4
  <2>4. is_present(t) => /\ shm'[ptes[t].at] = shm[ptes[t].at]
                         /\ page_infos'[ptes[t].at] = page_infos[ptes[t].at]
    BY <2>2, <1>2
  <2> QED BY SMTT(30), <1>s, <2>3, <2>4 DEF Contents, is_present, is_swapped, is_anon
<1>5. Remembered'
  <2> SUFFICES ASSUME NEW t \in RegionSlots, t \notin undirtied PROVE Contents(t)' = mem[t]
    BY <1>1, <1>s DEF Remembered
  <2>1. CASE t = s
    <3>1. Contents(s)' = shm'[p]
      BY <1>1, <1>3, ContentsAreThen
    <3> QED BY <2>1, <3>1, <1>2 DEF ContentsInv, Remembered
  <2>2. CASE t # s
    BY <2>2, <1>4 DEF ContentsInv, Remembered
  <2> QED BY <2>1, <2>2
<1>6. CleanPagesAreSafe'
  <2> SUFFICES ASSUME NEW t \in RegionSlots, t \notin undirtied, is_present(t)', ~is_anon(t[1]),
                      ~page_infos'[ptes'[t].at].dirty
               PROVE  t \notin writable' /\ files[t] = shm'[ptes'[t].at]
    BY <1>1, <1>s DEF CleanPagesAreSafe, is_anon
  <2>1. CASE t = s
    <3>1. ~UnfixedInfo(s, write).dirty
      BY <2>1, <1>2, <1>3
    <3>2. s \notin writable'
      BY <3>1, <1>s, <1>0 DEF UnfixedWritable, OwnershipInv, Tidy
    <3> QED BY <2>1, <3>2, <1>0, <1>2, <1>3, ContentsAre
  <2>2. CASE t # s
    <3>1. t \notin writable /\ files[t] = shm[ptes[t].at]
      BY <2>2, <1>4 DEF ContentsInv, CleanPagesAreSafe, is_present
    <3>2. t \notin writable'
      BY <2>2, <3>1, <1>s DEF UnfixedWritable
    <3> QED BY <2>2, <3>1, <3>2, <1>4 DEF is_present
  <2> QED BY <2>1, <2>2
<1>7. FilesInv' /\ AnchoredSurvives'
  BY <1>s, <1>1 DEF ContentsInv, FilesInv, AnchoredSurvives, Loaded, is_anon
<1> QED BY <1>5, <1>6, <1>7 DEF ContentsInv

\* Where the page that is swapped out goes, and what that leaves alone.
LEMMA SwapOutFacts ==
    ASSUME OwnershipInv, NEW s \in RegionSlots, NEW write \in BOOLEAN, NEW v \in Frames,
           NEW ix \in SwapSlots \cup (0 .. MaxPages - 1), UnfixSwappingOut(s, write, v, ix),
           NEW out, out = page_infos[v].slot
    PROVE  /\ out \in RegionSlots /\ out # s /\ ptes[out] = make_present(v)
           /\ IF is_anon(out[1]) THEN ix \in SwapEntriesAfterSwapIn(s) ELSE ix = out[2]
           /\ ptes' = [ptes EXCEPT ![out] = make_swap(ix), ![s] = make_present(v)]
           /\ shm' = [shm EXCEPT ![v] = Contents(s)]
           /\ page_infos' = [page_infos EXCEPT ![v] = UnfixedInfo(s, write)]
           /\ swapfile' = IF is_anon(out[1]) THEN [swapfile EXCEPT ![ix] = shm[v]] ELSE swapfile
           /\ files' = IF ~is_anon(out[1]) /\ page_infos[v].dirty
                       THEN [files EXCEPT ![out] = shm[v]] ELSE files
           /\ writable' = (writable \ {out}) \cup UnfixedWritable(s, write)
           /\ UNCHANGED <<nr_pages, persistent, anchored, file_pages, mem, promised, undirtied>>
<1>1. v \in used_pages /\ ~is_present(s)
  BY DEF UnfixSwappingOut
<1>2. out \in RegionSlots /\ ptes[out] = make_present(v)
  BY <1>1 DEF OwnershipInv, PageOwnership
<1>3. is_present(out)
  BY SMTT(30), <1>2 DEF is_present, make_present
<1>4. find_swappable_page(v, ix, SwapEntriesAfterSwapIn(s))
  BY DEF UnfixSwappingOut
<1>5. IF is_anon(out[1]) THEN ix \in SwapEntriesAfterSwapIn(s) ELSE ix = out[2]
  BY <1>4 DEF find_swappable_page
<1>6. out \in Slots
  BY <1>2 DEF RegionSlots
<1>7. ~is_anon(out[1]) => <<out[1], ix>> = out
  BY <1>5, <1>6, SlotParts
<1>8. files' = IF ~is_anon(out[1]) /\ page_infos[v].dirty
               THEN [files EXCEPT ![out] = shm[v]] ELSE files
  <2>1. files' = IF ~is_anon(out[1]) /\ ~(~is_anon(out[1]) /\ ~page_infos[v].dirty)
                 THEN [files EXCEPT ![<<out[1], ix>>] = shm[v]] ELSE files
    BY DEF UnfixSwappingOut, SkipsWrite, SwappedOutData
  <2> QED BY <2>1, <1>7
<1>9. swapfile' = IF is_anon(out[1]) THEN [swapfile EXCEPT ![ix] = shm[v]] ELSE swapfile
  BY DEF UnfixSwappingOut, SkipsWrite, SwappedOutData
<1>10. /\ ptes' = [ptes EXCEPT ![out] = make_swap(ix), ![s] = make_present(v)]
       /\ shm' = [shm EXCEPT ![v] = Contents(s)]
       /\ page_infos' = [page_infos EXCEPT ![v] = UnfixedInfo(s, write)]
       /\ writable' = (writable \ {out}) \cup UnfixedWritable(s, write)
       /\ UNCHANGED <<nr_pages, persistent, anchored, file_pages, mem, promised, undirtied>>
  BY DEF UnfixSwappingOut
<1>11. out # s
  BY <1>1, <1>3
<1> QED BY <1>2, <1>5, <1>8, <1>9, <1>10, <1>11

\* A page copied into a frame just emptied is what it was, and so is the page
\* that was there, wherever it went.
LEMMA UnfixSwappingOutContents ==
    ASSUME OwnershipInv, OwnershipInv', ContentsInv, NEW s \in RegionSlots, NEW write \in BOOLEAN,
           NEW v \in Frames, NEW ix \in SwapSlots \cup (0 .. MaxPages - 1),
           UnfixSwappingOut(s, write, v, ix)
    PROVE  ContentsInv'
<1>o. PICK out : out = page_infos[v].slot
  OBVIOUS
<1>s. /\ out \in RegionSlots /\ out # s /\ ptes[out] = make_present(v)
      /\ IF is_anon(out[1]) THEN ix \in SwapEntriesAfterSwapIn(s) ELSE ix = out[2]
      /\ ptes' = [ptes EXCEPT ![out] = make_swap(ix), ![s] = make_present(v)]
      /\ shm' = [shm EXCEPT ![v] = Contents(s)]
      /\ page_infos' = [page_infos EXCEPT ![v] = UnfixedInfo(s, write)]
      /\ swapfile' = IF is_anon(out[1]) THEN [swapfile EXCEPT ![ix] = shm[v]] ELSE swapfile
      /\ files' = IF ~is_anon(out[1]) /\ page_infos[v].dirty
                  THEN [files EXCEPT ![out] = shm[v]] ELSE files
      /\ writable' = (writable \ {out}) \cup UnfixedWritable(s, write)
      /\ UNCHANGED <<nr_pages, persistent, anchored, file_pages, mem, promised, undirtied>>
  BY SMTT(30), <1>o, SwapOutFacts
<1>0. s \in Slots /\ out \in Slots /\ ~is_present(s)
  BY <1>s DEF RegionSlots, UnfixSwappingOut
<1>1. RegionSlots' = RegionSlots /\ \A id : is_anon(id)' = is_anon(id)
  BY <1>s DEF RegionSlots, is_anon
<1>2. /\ ptes'[s] = make_present(v) /\ ptes'[out] = make_swap(ix)
      /\ \A t \in Slots : t # s /\ t # out => ptes'[t] = ptes[t]
  BY <1>s, <1>0 DEF OwnershipInv, TypeOK
<1>3. /\ shm'[v] = Contents(s)
      /\ page_infos'[v] = UnfixedInfo(s, write)
      /\ \A q \in Frames : q # v => shm'[q] = shm[q] /\ page_infos'[q] = page_infos[q]
  BY <1>s DEF OwnershipInv, TypeOK
<1>4. \A t \in Slots : files'[t] = IF t = out /\ ~is_anon(out[1]) /\ page_infos[v].dirty
                                   THEN shm[v] ELSE files[t]
  BY <1>s, <1>0 DEF OwnershipInv, TypeOK
<1>5. \A e \in SwapSlots : swapfile'[e] = IF is_anon(out[1]) /\ e = ix THEN shm[v] ELSE swapfile[e]
  BY <1>s DEF OwnershipInv, TypeOK
<1>6. /\ is_present(s)' /\ ptes'[s].at = v
      /\ ~is_present(out)' /\ is_swapped(out)' /\ ptes'[out].at = ix
      /\ is_present(out) /\ ptes[out].at = v
  BY SMTT(30), <1>2, <1>s DEF is_present, is_swapped, make_present, make_swap
<1>7. Contents(s)' = Contents(s)
  BY <1>1, <1>3, <1>6, ContentsAreThen
<1>8. Contents(out) = shm[v]
  BY <1>s, <1>6, ContentsAre
<1>9. ASSUME out \notin undirtied PROVE Contents(out)' = Contents(out)
  <2>1. CASE is_anon(out[1])
    <3>1. ix \in SwapSlots
      BY <2>1, <1>s, <1>0, SwapInFacts
    <3>2. Contents(out)' = swapfile'[ix]
      BY <2>1, <1>1, <1>6, <1>s, ContentsAreThen
    <3> QED BY <2>1, <3>1, <3>2, <1>5, <1>8
  <2>2. CASE ~is_anon(out[1])
    <3>1. Contents(out)' = files'[out]
      BY <2>2, <1>1, <1>6, <1>s, ContentsAreThen
    <3>2. CASE page_infos[v].dirty
      BY <2>2, <3>1, <3>2, <1>0, <1>4, <1>8
    <3>3. CASE ~page_infos[v].dirty
      <4>1. files[out] = shm[v]
        BY <2>2, <3>3, <1>9, <1>6, <1>s DEF ContentsInv, CleanPagesAreSafe
      <4> QED BY <3>1, <3>3, <4>1, <1>0, <1>4, <1>8
    <3> QED BY <3>2, <3>3
  <2> QED BY <2>1, <2>2
<1>10. ASSUME NEW t \in RegionSlots, t # s, t # out
       PROVE  /\ ptes'[t] = ptes[t]
              /\ Contents(t)' = Contents(t)
              /\ is_present(t) => /\ shm'[ptes[t].at] = shm[ptes[t].at]
                                  /\ page_infos'[ptes[t].at] = page_infos[ptes[t].at]
  <2>1. t \in Slots
    BY DEF RegionSlots
  <2>2. ptes'[t] = ptes[t]
    BY <2>1, <1>2, <1>10
  <2>3. is_present(t) => ptes[t].at # v /\ ptes[t].at \in Frames
    <3>1. is_present(t) => ptes[t].at \in Frames
      BY <2>1 DEF OwnershipInv, PageOwnership
    <3> QED BY <3>1, <2>1, <1>0, <1>6, <1>10, FramesDiffer
  <2>4. is_present(t) => /\ shm'[ptes[t].at] = shm[ptes[t].at]
                         /\ page_infos'[ptes[t].at] = page_infos[ptes[t].at]
    BY <2>3, <1>3
  <2>5. is_present(t)' = is_present(t) /\ is_swapped(t)' = is_swapped(t)
    BY <2>2 DEF is_present, is_swapped
  <2>6. CASE is_present(t)
    <3>1. Contents(t) = shm[ptes[t].at]
      BY <2>6, ContentsAre
    <3>2. Contents(t)' = shm'[ptes'[t].at]
      BY <2>5, <2>6, <1>1, ContentsAreThen
    <3> QED BY <2>2, <2>4, <2>6, <3>1, <3>2
  <2>7. CASE ~is_present(t) /\ ~is_anon(t[1])
    <3>1. files'[t] = files[t]
      BY <2>1, <1>4, <1>10
    <3> QED BY <2>2, <2>5, <2>7, <3>1, <1>1, ContentsAre, ContentsAreThen
  <2>8. CASE is_swapped(t) /\ is_anon(t[1])
    <3>1. ptes[t].at \in SwapSlots \ SwapEntriesAfterSwapIn(s)
      BY <2>8, <1>0, <1>10, SwapInFacts
    <3>2. swapfile'[ptes[t].at] = swapfile[ptes[t].at]
      BY SMTT(30), <3>1, <1>5, <1>s
    <3>3. Contents(t) = swapfile[ptes[t].at]
      BY <2>8, ContentsAre
    <3>4. Contents(t)' = swapfile'[ptes'[t].at]
      BY <2>5, <2>8, <1>1, <1>s, ContentsAreThen DEF is_anon
    <3> QED BY <2>2, <2>4, <3>2, <3>3, <3>4
  <2>9. CASE ~is_present(t) /\ ~is_swapped(t)
    BY <2>2, <2>5, <2>9, <1>1, ContentsAre, ContentsAreThen
  <2> QED BY <2>6, <2>7, <2>8, <2>9
<1>11. Remembered'
  BY <1>1, <1>s, <1>7, <1>9, <1>10 DEF ContentsInv, Remembered
<1>12. CleanPagesAreSafe'
  <2> SUFFICES ASSUME NEW t \in RegionSlots, t \notin undirtied, is_present(t)', ~is_anon(t[1]),
                      ~page_infos'[ptes'[t].at].dirty
               PROVE  t \notin writable' /\ files'[t] = shm'[ptes'[t].at]
    BY <1>1, <1>s DEF CleanPagesAreSafe
  <2>0. t \in Slots /\ t # out
    BY <1>6 DEF RegionSlots
  <2>1. CASE t = s
    <3>1. ~UnfixedInfo(s, write).dirty
      BY <2>1, <1>3, <1>6
    <3>2. s \notin writable'
      BY <3>1, <1>s, <1>0 DEF UnfixedWritable, OwnershipInv, Tidy
    <3>3. Contents(s) = files[s]
      BY <2>1, <1>0, ContentsAre
    <3> QED BY <2>0, <2>1, <3>2, <3>3, <1>3, <1>4, <1>6
  <2>2. CASE t # s
    <3>1. t \notin writable /\ files[t] = shm[ptes[t].at]
      BY <2>0, <2>2, <1>10 DEF ContentsInv, CleanPagesAreSafe, is_present
    <3>2. t \notin writable'
      BY <2>2, <3>1, <1>s DEF UnfixedWritable
    <3> QED BY <2>0, <2>2, <3>1, <3>2, <1>4, <1>10 DEF is_present
  <2> QED BY <2>1, <2>2
<1>13. FilesInv'
  <2>1. ~is_anon(out[1]) => out[2] < file_pages[out[1]]
    <3>1. out[2] < nr_pages[out[1]] /\ nr_pages[out[1]] \in Nat /\ out[1] \in Ids /\ out[2] \in Nat
      BY SMTT(30), <1>s, <1>0, SlotParts, RegionTypes DEF RegionSlots
    <3> QED BY SMTT(30), <3>1 DEF ContentsInv, FilesInv, Loaded
  <2>2. \A t \in Slots : t[2] >= file_pages[t[1]] => files'[t] = files[t]
    <3> SUFFICES ASSUME NEW t \in Slots, t[2] >= file_pages[t[1]] PROVE files'[t] = files[t]
      OBVIOUS
    <3>1. t[1] \in Ids /\ t[2] \in Nat /\ file_pages[t[1]] \in Int
      BY SMTT(30), SlotParts, PagesAssumption DEF OwnershipInv, TypeOK, NoFile
    <3>2. t # out \/ is_anon(out[1])
      BY SMTT(30), <2>1, <3>1
    <3> QED BY <3>2, <1>4
  <2>3. \A t \in Slots : t \notin RegionSlots => files'[t] = files[t]
    BY <1>s, <1>4
  <2>4. \A t \in Slots : t[2] >= file_pages'[t[1]] => files'[t] = Hole
    BY <1>s, <2>2 DEF ContentsInv, FilesInv
  <2>5. \A t \in Slots : t \notin RegionSlots' => files'[t] = mem'[t]
    BY <1>s, <1>1, <2>3 DEF ContentsInv, FilesInv
  <2> QED BY <1>s, <1>1, <2>4, <2>5 DEF ContentsInv, FilesInv, Loaded, Hole
<1>14. AnchoredSurvives'
  BY <1>s DEF ContentsInv, AnchoredSurvives, Loaded
<1> QED BY <1>11, <1>12, <1>13, <1>14 DEF ContentsInv

\* add_region: the new pages are where the page table has them, the others stay.
LEMMA AddRegionContents ==
    ASSUME OwnershipInv, OwnershipInv', ContentsInv, NEW id \in Ids, NEW n \in 1 .. MaxPages,
           NEW pers \in BOOLEAN, NEW anch \in BOOLEAN, ~Loaded(id), add_region(id, n, pers, anch),
           UNCHANGED <<page_infos, shm, swapfile, writable, undirtied>>,
           \A t \in PagesOf(id, n) : mem'[t] = IF pers THEN files'[t] ELSE "a",
           \A t \in Slots : t \notin PagesOf(id, n) => files'[t] = files[t] /\ mem'[t] = mem[t]
    PROVE  /\ CleanPagesAreSafe' /\ Remembered'
           /\ RegionSlots' = RegionSlots \cup PagesOf(id, n)
           /\ \A j \in Ids : nr_pages'[j] = IF j = id THEN n ELSE nr_pages[j]
           /\ \A j \in Ids \ {id} : is_anon(j)' = is_anon(j)
           /\ is_anon(id)' = ~pers
<1>1. \A j \in Ids : nr_pages'[j] = IF j = id THEN n ELSE nr_pages[j]
  BY DEF add_region, OwnershipInv, TypeOK
<1>2. PagesOf(id, n) = {s \in Slots : s[1] = id /\ s[2] < n}
  BY SMTT(30), PagesOfARegion
<1>3. nr_pages[id] = 0 /\ id \notin persistent
  BY SMTT(30) DEF OwnershipInv, TypeOK, Tidy, Loaded
<1>4. \A s \in RegionSlots : s[1] # id
  BY SMTT(30), <1>3, SlotParts DEF RegionSlots
<1>5. RegionSlots' = RegionSlots \cup PagesOf(id, n)
  <2>1. \A s \in Slots : s \in RegionSlots' <=> s \in RegionSlots \cup PagesOf(id, n)
    <3> SUFFICES ASSUME NEW s \in Slots PROVE s \in RegionSlots' <=> s \in RegionSlots \cup PagesOf(id, n)
      OBVIOUS
    <3>1. s[1] \in Ids /\ s[2] \in Nat
      BY SMTT(30), SlotParts
    <3> QED BY SMTT(30), <3>1, <1>1, <1>2, <1>3 DEF RegionSlots
  <2> QED BY <2>1, <1>2 DEF RegionSlots
<1>6. (\A j \in Ids \ {id} : is_anon(j)' = is_anon(j)) /\ is_anon(id)' = ~pers
  BY <1>3 DEF add_region, is_anon
<1>7. \A t \in Slots : ptes'[t] = IF t \in PagesOf(id, n) /\ pers THEN make_swap(t[2]) ELSE ptes[t]
  BY DEF add_region
<1>8. \A t \in RegionSlots : /\ t \in Slots /\ t \notin PagesOf(id, n) /\ ptes'[t] = ptes[t]
                             /\ is_anon(t[1])' = is_anon(t[1])
                             /\ files'[t] = files[t] /\ mem'[t] = mem[t]
  <2> SUFFICES ASSUME NEW t \in RegionSlots
               PROVE  /\ t \in Slots /\ t \notin PagesOf(id, n) /\ ptes'[t] = ptes[t]
                      /\ is_anon(t[1])' = is_anon(t[1])
                      /\ files'[t] = files[t] /\ mem'[t] = mem[t]
    BY DEF is_anon
  <2>1. t \in Slots /\ t[1] \in Ids \ {id}
    BY <1>4, SlotParts DEF RegionSlots
  <2>2. t \notin PagesOf(id, n)
    BY <2>1, <1>2
  <2> QED BY <2>1, <2>2, <1>6, <1>7
<1>9. ASSUME NEW t \in PagesOf(id, n)
      PROVE  t \in RegionSlots' /\ ~is_present(t)' /\ Contents(t)' = mem'[t]
  <2>1. t \in RegionSlots' /\ t \in Slots /\ t[1] = id
    BY <1>2, <1>5
  <2>2. t \notin RegionSlots
    BY <2>1, <1>4
  <2>3. ptes[t] = region_pte
    BY <2>1, <2>2 DEF OwnershipInv, Tidy
  <2>4. CASE pers
    <3>1. ptes'[t] = make_swap(t[2])
      BY <2>1, <2>4, <1>7
    <3>2. ~is_present(t)'
      BY SMTT(30), <3>1 DEF is_present, make_swap
    <3>3. ~is_anon(t[1])'
      BY <2>1, <2>4 DEF add_region, is_anon
    <3>4. Contents(t)' = files'[t]
      BY <2>1, <3>2, <3>3, ContentsAreThen
    <3> QED BY <2>1, <2>4, <3>2, <3>4
  <2>5. CASE ~pers
    <3>1. ~is_present(t)' /\ ~is_swapped(t)'
      BY SMTT(30), <2>1, <2>3, <2>5, <1>7 DEF is_present, is_swapped, region_pte
    <3>2. Contents(t)' = "a"
      BY <2>1, <3>1, ContentsAreThen
    <3> QED BY <2>1, <2>5, <3>1, <3>2
  <2> QED BY <2>4, <2>5
<1>10. ASSUME NEW t \in RegionSlots PROVE Contents(t)' = Contents(t)
  <2>1. is_present(t)' = is_present(t) /\ is_swapped(t)' = is_swapped(t) /\ t \in RegionSlots'
    BY <1>5, <1>8 DEF is_present, is_swapped
  <2>2. CASE is_present(t)
    <3>1. Contents(t) = shm[ptes[t].at]
      BY <2>2, ContentsAre
    <3>2. Contents(t)' = shm'[ptes'[t].at]
      BY <2>1, <2>2, ContentsAreThen
    <3> QED BY <3>1, <3>2, <1>8
  <2>3. CASE ~is_present(t) /\ ~is_anon(t[1])
    <3>1. Contents(t) = files[t]
      BY <2>3, ContentsAre
    <3>2. Contents(t)' = files'[t]
      BY <2>1, <2>3, <1>8, ContentsAreThen
    <3> QED BY <3>1, <3>2, <1>8
  <2>4. CASE is_swapped(t) /\ is_anon(t[1])
    <3>1. Contents(t) = swapfile[ptes[t].at]
      BY <2>4, ContentsAre
    <3>2. Contents(t)' = swapfile'[ptes'[t].at]
      BY <2>1, <2>4, <1>8, ContentsAreThen
    <3> QED BY <3>1, <3>2, <1>8
  <2>5. CASE ~is_present(t) /\ ~is_swapped(t)
    BY <2>1, <2>5, <1>8, ContentsAre, ContentsAreThen
  <2> QED BY <2>2, <2>3, <2>4, <2>5
<1>11. Remembered'
  BY <1>5, <1>8, <1>9, <1>10 DEF ContentsInv, Remembered
<1>12. CleanPagesAreSafe'
  BY SMTT(30), <1>5, <1>8, <1>9 DEF ContentsInv, CleanPagesAreSafe, is_present
<1> QED BY <1>1, <1>5, <1>6, <1>11, <1>12

\* allocate of an anonymous region: its pages will read as 'a'.
LEMMA AllocateAnonContents ==
    ASSUME OwnershipInv, OwnershipInv', ContentsInv, NEW id \in Ids, NEW n \in Sizes,
           AllocateAnon(id, n)
    PROVE  ContentsInv'
<1>0. n \in 1 .. MaxPages
  BY PagesAssumption
<1>s. /\ ~Loaded(id) /\ add_region(id, n, FALSE, FALSE)
      /\ mem' = [s \in Slots |-> IF s \in PagesOf(id, n) THEN "a" ELSE mem[s]]
      /\ UNCHANGED <<page_infos, shm, swapfile, files, file_pages, writable, promised, undirtied>>
  BY DEF AllocateAnon, MayAllocate, lists, disk
<1>1. PagesOf(id, n) \subseteq Slots
  BY SMTT(30), <1>0, PagesOfARegion
<1>2. \A t \in PagesOf(id, n) : mem'[t] = "a"
  BY <1>1, <1>s
<1>3. \A t \in Slots : t \notin PagesOf(id, n) => files'[t] = files[t] /\ mem'[t] = mem[t]
  BY <1>s
<1>4. /\ CleanPagesAreSafe' /\ Remembered'
      /\ RegionSlots' = RegionSlots \cup PagesOf(id, n)
      /\ \A j \in Ids : nr_pages'[j] = IF j = id THEN n ELSE nr_pages[j]
      /\ \A j \in Ids \ {id} : is_anon(j)' = is_anon(j)
      /\ is_anon(id)'
  BY <1>0, <1>s, <1>2, <1>3, AddRegionContents
<1>5. FilesInv'
  <2>1. ASSUME NEW j \in Ids, Loaded(j)', ~is_anon(j)' PROVE file_pages[j] = nr_pages'[j]
    <3>1. CASE j = id
      BY <3>1, <2>1, <1>4
    <3>2. CASE j # id
      BY <3>2, <2>1, <1>4 DEF ContentsInv, FilesInv, Loaded
    <3> QED BY <3>1, <3>2
  <2>2. \A t \in Slots : t[2] >= file_pages'[t[1]] => files'[t] = Hole
    BY <1>s DEF ContentsInv, FilesInv
  <2>3. \A t \in Slots : t \notin RegionSlots' => files'[t] = mem'[t]
    BY <1>3, <1>4 DEF ContentsInv, FilesInv
  <2> QED BY <2>1, <2>2, <2>3, <1>s DEF FilesInv, Hole
<1>6. AnchoredSurvives'
  <2> SUFFICES ASSUME NEW j \in promised
               PROVE  /\ file_pages[j] > 0
                      /\ j \in persistent' => j \in anchored' /\ nr_pages'[j] = file_pages[j]
    BY <1>s DEF AnchoredSurvives
  <2>1. j \in Ids /\ file_pages[j] > 0
    BY DEF ContentsInv, AnchoredSurvives, OwnershipInv, TypeOK
  <2>2. CASE j = id
    BY <2>1, <2>2, <1>4 DEF is_anon
  <2>3. CASE j # id
    BY <2>1, <2>3, <1>4, <1>s DEF ContentsInv, AnchoredSurvives, add_region
  <2> QED BY <2>2, <2>3
<1> QED BY <1>4, <1>5, <1>6 DEF ContentsInv

\* allocate of a persistent region: the file is filled with 'A'.
LEMMA AllocatePersistentContents ==
    ASSUME OwnershipInv, OwnershipInv', ContentsInv, NEW id \in Ids, NEW n \in Sizes,
           AllocatePersistent(id, n)
    PROVE  ContentsInv'
<1>0. n \in 1 .. MaxPages
  BY PagesAssumption
<1>s. /\ ~Loaded(id) /\ file_pages[id] = -1 /\ add_region(id, n, TRUE, FALSE)
      /\ file_pages' = [file_pages EXCEPT ![id] = n]
      /\ files' = [s \in Slots |-> IF s \in PagesOf(id, n) THEN "A" ELSE files[s]]
      /\ mem' = [s \in Slots |-> IF s \in PagesOf(id, n) THEN "A" ELSE mem[s]]
      /\ UNCHANGED <<page_infos, shm, swapfile, writable, promised, undirtied>>
  BY DEF AllocatePersistent, MayAllocate, lists, NoFile
<1>1. PagesOf(id, n) = {s \in Slots : s[1] = id /\ s[2] < n}
  BY SMTT(30), <1>0, PagesOfARegion
<1>2. \A t \in PagesOf(id, n) : mem'[t] = files'[t]
  BY <1>1, <1>s
<1>3. \A t \in Slots : t \notin PagesOf(id, n) => files'[t] = files[t] /\ mem'[t] = mem[t]
  BY <1>s
<1>4. /\ CleanPagesAreSafe' /\ Remembered'
      /\ RegionSlots' = RegionSlots \cup PagesOf(id, n)
      /\ \A j \in Ids : nr_pages'[j] = IF j = id THEN n ELSE nr_pages[j]
      /\ \A j \in Ids \ {id} : is_anon(j)' = is_anon(j)
      /\ ~is_anon(id)'
  <2>1. /\ ~Loaded(id) /\ add_region(id, n, TRUE, FALSE)
        /\ UNCHANGED <<page_infos, shm, swapfile, writable, undirtied>>
    BY <1>s
  <2> QED BY <1>0, <1>2, <1>3, <2>1, AddRegionContents
<1>f. \A j \in Ids : file_pages'[j] = IF j = id THEN n ELSE file_pages[j]
  BY <1>s DEF OwnershipInv, TypeOK
<1>5. FilesInv'
  <2>1. ASSUME NEW j \in Ids, Loaded(j)', ~is_anon(j)' PROVE file_pages'[j] = nr_pages'[j]
    <3>1. CASE j = id
      BY <3>1, <1>4, <1>f
    <3>2. CASE j # id
      BY <3>2, <2>1, <1>4, <1>f DEF ContentsInv, FilesInv, Loaded
    <3> QED BY <3>1, <3>2
  <2>2. ASSUME NEW t \in Slots, t[2] >= file_pages'[t[1]] PROVE files'[t] = Hole
    <3>1. t[1] \in Ids /\ t[2] \in Nat
      BY SMTT(30), SlotParts
    <3>2. t \notin PagesOf(id, n)
      BY SMTT(30), <2>2, <3>1, <1>0, <1>1, <1>f
    <3>3. t[2] >= file_pages[t[1]]
      BY SMTT(30), <2>2, <3>1, <1>f, <1>s
    <3> QED BY <3>2, <3>3, <1>3 DEF ContentsInv, FilesInv
  <2>3. \A t \in Slots : t \notin RegionSlots' => files'[t] = mem'[t]
    BY <1>3, <1>4 DEF ContentsInv, FilesInv
  <2> QED BY <2>1, <2>2, <2>3 DEF FilesInv, Hole
<1>6. AnchoredSurvives'
  <2> SUFFICES ASSUME NEW j \in promised
               PROVE  /\ file_pages'[j] > 0
                      /\ j \in persistent' => j \in anchored' /\ nr_pages'[j] = file_pages'[j]
    BY <1>s DEF AnchoredSurvives
  <2>1. j \in Ids /\ file_pages[j] > 0
    BY DEF ContentsInv, AnchoredSurvives, OwnershipInv, TypeOK
  <2>2. j # id
    BY SMTT(30), <2>1, <1>s
  <2> QED BY <2>1, <2>2, <1>4, <1>f, <1>s DEF ContentsInv, AnchoredSurvives, Loaded, add_region
<1> QED BY <1>4, <1>5, <1>6 DEF ContentsInv

\* get_anchored_region: the pages are what the file has.
LEMMA GetAnchoredRegionContents ==
    ASSUME OwnershipInv, OwnershipInv', ContentsInv, NEW id \in Ids, get_anchored_region(id)
    PROVE  ContentsInv'
<1>n. PICK n : n = file_pages[id]
  OBVIOUS
<1>0. n \in 1 .. MaxPages
  BY SMTT(30), <1>n, PagesAssumption DEF get_anchored_region, OwnershipInv, TypeOK, NoFile
<1>s. /\ ~Loaded(id) /\ add_region(id, n, TRUE, TRUE)
      /\ UNCHANGED <<page_infos, shm, swapfile, files, file_pages, writable, mem, promised, undirtied>>
  BY <1>n DEF get_anchored_region, lists, disk
<1>1. PagesOf(id, n) = {s \in Slots : s[1] = id /\ s[2] < n}
  BY SMTT(30), <1>0, PagesOfARegion
<1>2. \A t \in PagesOf(id, n) : mem'[t] = files'[t]
  <2> SUFFICES ASSUME NEW t \in PagesOf(id, n) PROVE mem[t] = files[t]
    BY <1>s
  <2>1. nr_pages[id] = 0
    BY SMTT(30), <1>s DEF Loaded, OwnershipInv, TypeOK
  <2>2. t \in Slots /\ t[1] = id /\ t[2] \in Nat
    BY SMTT(30), <1>1, SlotParts
  <2>3. t \notin RegionSlots
    BY SMTT(30), <2>1, <2>2 DEF RegionSlots
  <2> QED BY <2>2, <2>3 DEF ContentsInv, FilesInv
<1>3. \A t \in Slots : t \notin PagesOf(id, n) => files'[t] = files[t] /\ mem'[t] = mem[t]
  BY <1>s
<1>4. /\ CleanPagesAreSafe' /\ Remembered'
      /\ RegionSlots' = RegionSlots \cup PagesOf(id, n)
      /\ \A j \in Ids : nr_pages'[j] = IF j = id THEN n ELSE nr_pages[j]
      /\ \A j \in Ids \ {id} : is_anon(j)' = is_anon(j)
      /\ ~is_anon(id)'
  BY <1>0, <1>s, <1>2, <1>3, AddRegionContents
<1>5. FilesInv'
  <2>1. ASSUME NEW j \in Ids, Loaded(j)', ~is_anon(j)' PROVE file_pages[j] = nr_pages'[j]
    <3>1. CASE j = id
      BY <3>1, <1>4, <1>n
    <3>2. CASE j # id
      BY <3>2, <2>1, <1>4 DEF ContentsInv, FilesInv, Loaded
    <3> QED BY <3>1, <3>2
  <2>2. \A t \in Slots : t[2] >= file_pages'[t[1]] => files'[t] = Hole
    BY <1>s DEF ContentsInv, FilesInv
  <2>3. \A t \in Slots : t \notin RegionSlots' => files'[t] = mem'[t]
    BY <1>s, <1>4 DEF ContentsInv, FilesInv
  <2> QED BY <2>1, <2>2, <2>3, <1>s DEF FilesInv, Hole
<1>6. AnchoredSurvives'
  <2> SUFFICES ASSUME NEW j \in promised
               PROVE  /\ file_pages[j] > 0
                      /\ j \in persistent' => j \in anchored' /\ nr_pages'[j] = file_pages[j]
    BY <1>s DEF AnchoredSurvives
  <2>1. j \in Ids /\ file_pages[j] > 0
    BY DEF ContentsInv, AnchoredSurvives, OwnershipInv, TypeOK
  <2>2. CASE j = id
    BY <2>1, <2>2, <1>4, <1>n, <1>s DEF add_region
  <2>3. CASE j # id
    BY <2>1, <2>3, <1>4, <1>s DEF ContentsInv, AnchoredSurvives, Loaded, add_region
  <2> QED BY <2>2, <2>3
<1> QED BY <1>4, <1>5, <1>6 DEF ContentsInv

\* free: the other regions stay as they are; nothing of this one is left but
\* the file that lay behind the id of an anonymous one.
LEMMA FreeContents ==
    ASSUME OwnershipInv, OwnershipInv', ContentsInv, NEW id \in Ids, free(id)
    PROVE  ContentsInv'
<1>n. PICK n : n = nr_pages[id]
  OBVIOUS
<1>S. PICK S : S = PagesOf(id, n)
  OBVIOUS
<1>s. /\ Loaded(id) /\ id \notin anchored
      /\ file_pages' = IF is_anon(id) THEN file_pages ELSE [file_pages EXCEPT ![id] = -1]
      /\ files' = IF is_anon(id) THEN files ELSE [s \in Slots |-> IF s \in S THEN Hole ELSE files[s]]
      /\ nr_pages' = [nr_pages EXCEPT ![id] = 0]
      /\ persistent' = persistent \ {id}
      /\ ptes' = [s \in Slots |-> IF s \in S THEN region_pte ELSE ptes[s]]
      /\ mem' = [s \in Slots |-> IF s \in S THEN files'[s] ELSE mem[s]]
      /\ writable' = writable \ S
      /\ undirtied' = undirtied \ S
      /\ UNCHANGED <<anchored, shm, swapfile, promised>>
  BY <1>n, <1>S DEF free, MayFree, NoFile
<1>p. page_infos' = [p \in Frames |-> IF p \in FreedPages(S) THEN page_info ELSE page_infos[p]]
  BY <1>n, <1>S DEF free
<1>0. n \in 1 .. MaxPages
  BY SMTT(30), <1>n, <1>s, RegionTypes DEF Loaded
<1>1. S = {s \in Slots : s[1] = id /\ s[2] < n}
  BY SMTT(30), <1>0, <1>S, PagesOfARegion
<1>2. RegionSlots' = RegionSlots \ S
  <2>1. \A s \in Slots : s \in RegionSlots' <=> s \in RegionSlots /\ s \notin S
    <3> SUFFICES ASSUME NEW s \in Slots PROVE s \in RegionSlots' <=> s \in RegionSlots /\ s \notin S
      OBVIOUS
    <3>1. s[1] \in Ids /\ s[2] \in Nat
      BY SMTT(30), SlotParts
    <3> QED BY SMTT(30), <3>1, <1>1, <1>n, <1>s, RegionTypes DEF RegionSlots
  <2> QED BY <2>1 DEF RegionSlots
<1>3. \A t \in RegionSlots' : /\ t \in Slots /\ t \in RegionSlots /\ t[1] # id
                              /\ ptes'[t] = ptes[t] /\ files'[t] = files[t] /\ mem'[t] = mem[t]
                              /\ is_anon(t[1])' = is_anon(t[1])
  <2> SUFFICES ASSUME NEW t \in RegionSlots'
               PROVE  /\ t \in Slots /\ t \in RegionSlots /\ t[1] # id
                      /\ ptes'[t] = ptes[t] /\ files'[t] = files[t] /\ mem'[t] = mem[t]
                      /\ is_anon(t[1])' = is_anon(t[1])
    BY DEF is_anon
  <2>1. t \in Slots /\ t \in RegionSlots /\ t \notin S
    BY <1>2 DEF RegionSlots
  <2>2. t[1] # id
    BY <2>1, <1>1, <1>n DEF RegionSlots
  <2> QED BY <2>1, <2>2, <1>s DEF is_anon
<1>4. ASSUME NEW t \in RegionSlots' PROVE Contents(t)' = Contents(t)
  <2>1. is_present(t)' = is_present(t) /\ is_swapped(t)' = is_swapped(t)
    BY <1>3 DEF is_present, is_swapped
  <2>2. CASE is_present(t)
    <3>1. Contents(t) = shm[ptes[t].at]
      BY <2>2, <1>3, ContentsAre
    <3>2. Contents(t)' = shm'[ptes'[t].at]
      BY <2>1, <2>2, ContentsAreThen
    <3> QED BY <3>1, <3>2, <1>3, <1>s
  <2>3. CASE ~is_present(t) /\ ~is_anon(t[1])
    <3>1. Contents(t) = files[t]
      BY <2>3, <1>3, ContentsAre
    <3>2. Contents(t)' = files'[t]
      BY <2>1, <2>3, <1>3, ContentsAreThen
    <3> QED BY <3>1, <3>2, <1>3
  <2>4. CASE is_swapped(t) /\ is_anon(t[1])
    <3>1. Contents(t) = swapfile[ptes[t].at]
      BY <2>4, <1>3, ContentsAre
    <3>2. Contents(t)' = swapfile'[ptes'[t].at]
      BY <2>1, <2>4, <1>3, ContentsAreThen
    <3> QED BY <3>1, <3>2, <1>3, <1>s
  <2>5. CASE ~is_present(t) /\ ~is_swapped(t)
    BY <2>1, <2>5, <1>3, ContentsAre, ContentsAreThen
  <2> QED BY <2>2, <2>3, <2>4, <2>5
<1>5. Remembered'
  BY <1>2, <1>3, <1>4, <1>s DEF ContentsInv, Remembered
<1>6. CleanPagesAreSafe'
  <2> SUFFICES ASSUME NEW t \in RegionSlots', t \notin undirtied', is_present(t)', ~is_anon(t[1])',
                      ~page_infos'[ptes'[t].at].dirty
               PROVE  t \notin writable' /\ files'[t] = shm'[ptes'[t].at]
    BY DEF CleanPagesAreSafe, is_anon
  <2>1. t \in Slots /\ t \notin S /\ is_present(t) /\ t \notin undirtied
    BY <1>2, <1>3, <1>s DEF is_present
  <2>2. ptes[t].at \in Frames /\ ptes[t].at \notin FreedPages(S)
    <3>1. ptes[t].at \in Frames
      BY <2>1 DEF OwnershipInv, PageOwnership, TypeOK
    <3>2. \A u \in S : is_present(u) => ptes[u].at # ptes[t].at
      BY <2>1, <1>1, FramesDiffer
    <3> QED BY <3>1, <3>2 DEF FreedPages
  <2>3. ~page_infos[ptes[t].at].dirty
    BY <2>2, <1>3, <1>p
  <2>4. t \notin writable /\ files[t] = shm[ptes[t].at]
    BY <2>1, <2>3, <1>3 DEF ContentsInv, CleanPagesAreSafe
  <2> QED BY <2>4, <1>3, <1>s
<1>7. FilesInv'
  <2>f. \A j \in Ids : file_pages'[j] = IF j = id /\ ~is_anon(id) THEN -1 ELSE file_pages[j]
    BY <1>s DEF OwnershipInv, TypeOK
  <2>g. ~is_anon(id) => file_pages[id] = n
    BY <1>n, <1>s DEF ContentsInv, FilesInv
  <2>1. ASSUME NEW j \in Ids, Loaded(j)', ~is_anon(j)' PROVE file_pages'[j] = nr_pages'[j]
    <3>1. j # id
      BY SMTT(30), <2>1, <1>s, RegionTypes DEF Loaded
    <3>2. nr_pages'[j] = nr_pages[j] /\ is_anon(j)' = is_anon(j) /\ file_pages'[j] = file_pages[j]
      BY <3>1, <2>f, <1>s DEF OwnershipInv, TypeOK, is_anon
    <3> QED BY <3>2, <2>1 DEF ContentsInv, FilesInv, Loaded
  <2>h. ASSUME NEW t \in Slots, t[1] = id, ~is_anon(id) PROVE files'[t] = Hole
    <3>1. t[2] \in 0 .. MaxPages - 1
      BY SMTT(30), SlotParts
    <3>2. t \in S \/ t[2] >= n
      BY SMTT(30), <3>1, <2>h, <1>0, <1>1
    <3>3. CASE t \in S
      BY <3>3, <2>h, <1>s
    <3>4. CASE t \notin S
      <4>1. t[2] >= file_pages[t[1]]
        BY <3>2, <3>4, <2>g, <2>h
      <4> QED BY <4>1, <3>4, <2>h, <1>s DEF ContentsInv, FilesInv
    <3> QED BY <3>3, <3>4
  <2>i. \A t \in Slots : t[1] # id => files'[t] = files[t] /\ mem'[t] = mem[t] /\ t \notin S
    BY <1>1, <1>s
  <2>2. ASSUME NEW t \in Slots, t[2] >= file_pages'[t[1]] PROVE files'[t] = Hole
    <3>1. CASE t[1] = id /\ ~is_anon(id)
      BY <3>1, <2>h
    <3>2. CASE t[1] # id
      BY <3>2, <2>2, <2>f, <2>i, SlotParts DEF ContentsInv, FilesInv
    <3>3. CASE is_anon(id)
      BY <3>3, <2>2, <1>s DEF ContentsInv, FilesInv
    <3> QED BY <3>1, <3>2, <3>3
  <2>3. ASSUME NEW t \in Slots, t \notin RegionSlots' PROVE files'[t] = mem'[t]
    <3>1. CASE t[1] # id
      BY <3>1, <2>3, <2>i, <1>2 DEF ContentsInv, FilesInv
    <3>2. CASE t \in S
      BY <3>2, <1>s
    <3>3. CASE t[1] = id /\ t \notin S
      <4>1. t \notin RegionSlots
        BY <3>3, <1>2, <2>3
      <4>2. files[t] = mem[t] /\ files'[t] = files[t]
        BY <4>1, <3>3, <1>s DEF ContentsInv, FilesInv
      <4> QED BY <3>3, <4>2, <1>s
    <3> QED BY <3>1, <3>2, <3>3
  <2> QED BY <2>1, <2>2, <2>3 DEF FilesInv, Hole
<1>8. AnchoredSurvives'
  <2> SUFFICES ASSUME NEW j \in promised
               PROVE  /\ file_pages'[j] > 0
                      /\ j \in persistent' => j \in anchored' /\ nr_pages'[j] = file_pages'[j]
    BY <1>s DEF AnchoredSurvives
  <2>1. /\ j \in Ids /\ file_pages[j] > 0
        /\ j \in persistent => j \in anchored /\ nr_pages[j] = file_pages[j]
    BY DEF ContentsInv, AnchoredSurvives, OwnershipInv, TypeOK
  <2>2. CASE j = id
    BY <2>1, <2>2, <1>s DEF is_anon
  <2>3. CASE j # id
    <3>1. nr_pages'[j] = nr_pages[j] /\ file_pages'[j] = file_pages[j]
      BY <2>1, <2>3, <1>s DEF OwnershipInv, TypeOK
    <3> QED BY <2>1, <3>1, <1>s
  <2> QED BY <2>2, <2>3
<1> QED BY <1>5, <1>6, <1>7, <1>8 DEF ContentsInv

\* Writing dirty pages back, as persist, the destructor and a crash in the
\* middle of them do, puts into the files what was written last.
LEMMA WriteBackContents ==
    ASSUME OwnershipInv, ContentsInv, NEW S, S \subseteq DirtyIn(RegionSlots), files' = WriteBack(S)
    PROVE  /\ \A t \in Slots : files'[t] = IF t \in S THEN shm[ptes[t].at] ELSE files[t]
           /\ \A t \in S : t \in RegionSlots /\ is_present(t) /\ ~is_anon(t[1])
           /\ \A t \in S \ undirtied : files'[t] = mem[t]
           /\ \A t \in Slots : t[2] >= file_pages[t[1]] => files'[t] = Hole
<1>1. \A t \in Slots : files'[t] = IF t \in S THEN shm[ptes[t].at] ELSE files[t]
  BY DEF WriteBack
<1>2. \A t \in S : t \in RegionSlots /\ is_present(t) /\ ~is_anon(t[1])
  BY DEF DirtyIn
<1>3. ASSUME NEW t \in S, t \notin undirtied PROVE files'[t] = mem[t]
  <2>1. t \in Slots /\ t \in RegionSlots
    BY <1>2 DEF RegionSlots
  <2>2. Contents(t) = shm[ptes[t].at]
    BY <1>2, <2>1, ContentsAre
  <2> QED BY <2>1, <2>2, <1>1, <1>3 DEF ContentsInv, Remembered
<1>4. ASSUME NEW t \in Slots, t[2] >= file_pages[t[1]] PROVE files'[t] = Hole
  <2>1. t \notin S
    <3> SUFFICES ASSUME t \in S PROVE FALSE
      OBVIOUS
    <3>1. t[1] \in Ids /\ t[2] \in Nat /\ t[2] < nr_pages[t[1]] /\ nr_pages[t[1]] \in Nat
      BY SMTT(30), <1>2, SlotParts DEF RegionSlots, OwnershipInv, TypeOK
    <3>2. file_pages[t[1]] = nr_pages[t[1]]
      BY SMTT(30), <3>1, <1>2 DEF ContentsInv, FilesInv, Loaded
    <3> QED BY SMTT(30), <3>1, <3>2, <1>4
  <2> QED BY <2>1, <1>1, <1>4 DEF ContentsInv, FilesInv
<1> QED BY <1>1, <1>2, <1>3, <1>4

\* The dirty pages persist's loop writes.
LEMMA PersistLoopPages ==
    ASSUME OwnershipInv, NEW id \in Ids, NEW off \in 0 .. MaxPages - 1, NEW n \in 1 .. MaxPages,
           persist(id, off, n)
    PROVE  /\ DirtyIn(PersistLoop(id, off, n)) \subseteq DirtyIn(RegionSlots)
           /\ PersistLoop(id, off, n) \subseteq {id} \X (off .. off + n - 1)
<1>1. off + n <= nr_pages[id] /\ nr_pages[id] \in 0 .. MaxPages
  BY DEF persist, can_persist, OwnershipInv, TypeOK
<1>2. PersistLoop(id, off, n) \subseteq {id} \X (off .. off + n - 1)
  BY SMTT(30) DEF PersistLoop
<1>3. {id} \X (off .. off + n - 1) \subseteq RegionSlots
  BY SMTT(30), <1>1, PagesAssumption DEF RegionSlots, Slots
<1> QED BY <1>2, <1>3 DEF DirtyIn

\* persist: what it leaves clean is in the file and write-protected.
LEMMA PersistContents ==
    ASSUME OwnershipInv, OwnershipInv', ContentsInv, NEW id \in Ids,
           NEW off \in 0 .. MaxPages - 1, NEW n \in 1 .. MaxPages, persist(id, off, n)
    PROVE  ContentsInv'
<1>o. PICK out : out = DirtyIn(PersistLoop(id, off, n))
  OBVIOUS
<1>s. /\ files' = WriteBack(out)
      /\ page_infos' = [p \in Frames |-> [page_infos[p] EXCEPT !.dirty =
                            @ /\ page_infos[p].slot \notin out]]
      /\ writable' = writable \ ({id} \X (off .. off + n - 1))
      /\ UNCHANGED <<nr_pages, persistent, anchored, ptes, shm, swapfile, file_pages, mem, promised,
                     undirtied>>
  BY <1>o DEF persist
<1>0. out \subseteq DirtyIn(RegionSlots) /\ out \subseteq {id} \X (off .. off + n - 1)
  BY <1>o, PersistLoopPages DEF DirtyIn
<1>1. RegionSlots' = RegionSlots
  BY <1>s DEF RegionSlots
<1>2. /\ \A t \in Slots : files'[t] = IF t \in out THEN shm[ptes[t].at] ELSE files[t]
      /\ \A t \in out : t \in RegionSlots /\ is_present(t) /\ ~is_anon(t[1])
      /\ \A t \in Slots : t[2] >= file_pages[t[1]] => files'[t] = Hole
  BY <1>0, <1>s, WriteBackContents
<1>3. ASSUME NEW t \in RegionSlots PROVE Contents(t)' = Contents(t)
  <2>1. /\ is_present(t)' = is_present(t) /\ is_swapped(t)' = is_swapped(t)
        /\ is_anon(t[1])' = is_anon(t[1]) /\ t \in Slots
    BY <1>s DEF is_present, is_swapped, is_anon, RegionSlots
  <2>2. CASE ~is_present(t) /\ ~is_anon(t[1])
    <3>1. files'[t] = files[t]
      BY <2>1, <2>2, <1>2
    <3> QED BY <2>1, <2>2, <3>1, <1>1, ContentsAre, ContentsAreThen
  <2>3. CASE is_present(t) \/ is_anon(t[1])
    BY <2>3, <1>s DEF Contents, is_present, is_swapped, is_anon
  <2> QED BY <2>2, <2>3
<1>4. Remembered'
  BY <1>1, <1>3, <1>s DEF ContentsInv, Remembered
<1>5. CleanPagesAreSafe'
  <2> SUFFICES ASSUME NEW t \in RegionSlots, t \notin undirtied, is_present(t), ~is_anon(t[1]),
                      ~page_infos'[ptes[t].at].dirty
               PROVE  t \notin writable' /\ files'[t] = shm[ptes[t].at]
    BY <1>1, <1>s DEF CleanPagesAreSafe, is_present, is_anon
  <2>1. t \in Slots /\ ptes[t].at \in Frames /\ page_infos[ptes[t].at].slot = t
    BY DEF RegionSlots, OwnershipInv, PageOwnership, TypeOK
  <2>2. CASE t \in out
    BY <2>1, <2>2, <1>0, <1>2, <1>s
  <2>3. CASE t \notin out
    <3>1. ~page_infos[ptes[t].at].dirty
      BY SMTT(30), <2>1, <2>3, <1>s, RegionTypes
    <3>2. t \notin writable /\ files[t] = shm[ptes[t].at]
      BY <3>1 DEF ContentsInv, CleanPagesAreSafe
    <3> QED BY <2>1, <2>3, <3>2, <1>2, <1>s
  <2> QED BY <2>2, <2>3
<1>6. FilesInv'
  <2>1. \A t \in Slots : t[2] >= file_pages'[t[1]] => files'[t] = Hole
    BY <1>2, <1>s
  <2>2. \A t \in Slots : t \notin RegionSlots' => files'[t] = mem'[t]
    BY <1>1, <1>2, <1>s DEF ContentsInv, FilesInv
  <2> QED BY <2>1, <2>2, <1>s DEF ContentsInv, FilesInv, Loaded, is_anon, Hole
<1>7. AnchoredSurvives'
  BY <1>s DEF ContentsInv, AnchoredSurvives, Loaded
<1> QED BY <1>4, <1>5, <1>6, <1>7 DEF ContentsInv

\* A new process finds in the files what is to be found there: after a
\* shutdown all that was written, after a crash whatever counts as memory then.
LEMMA RestartContents ==
    ASSUME OwnershipInv, ContentsInv, CleanRestart \/ Crash
    PROVE  ContentsInv'
<1>r. Restart
  BY DEF CleanRestart, Crash
<1>1. \A t \in Slots : t \notin RegionSlots'
  <2> SUFFICES ASSUME NEW t \in Slots PROVE ~(t[2] < nr_pages'[t[1]])
    BY DEF RegionSlots
  <2> QED BY SMTT(30), <1>r, SlotParts DEF Restart
<1>2. RegionSlots' = {}
  BY <1>1 DEF RegionSlots
<1>3. /\ \A t \in Slots : t[2] >= file_pages[t[1]] => files'[t] = Hole
      /\ \A t \in Slots : files'[t] = mem'[t]
  <2>1. CASE Crash
    <3>1. PICK S \in SUBSET DirtyIn(RegionSlots) : files' = WriteBack(S) /\ mem' = files'
      BY <2>1 DEF Crash
    <3>2. S \subseteq DirtyIn(RegionSlots)
      OBVIOUS
    <3> QED BY <3>1, <3>2, WriteBackContents
  <2>2. CASE CleanRestart
    <3>1. /\ \A id \in Ids : Loaded(id) => id \in anchored
          /\ files' = WriteBack(DirtyIn(RegionSlots))
          /\ mem' = [s \in Slots |-> IF s \in undirtied THEN files'[s] ELSE mem[s]]
      BY <2>2 DEF CleanRestart, WrittenAtShutdown
    <3>2. PICK S : S = DirtyIn(RegionSlots)
      OBVIOUS
    <3>3. /\ \A t \in Slots : files'[t] = IF t \in S THEN shm[ptes[t].at] ELSE files[t]
          /\ \A t \in S : t \in RegionSlots
          /\ \A t \in S \ undirtied : files'[t] = mem[t]
          /\ \A t \in Slots : t[2] >= file_pages[t[1]] => files'[t] = Hole
      BY <3>1, <3>2, WriteBackContents
    <3>4. ASSUME NEW t \in Slots, t \notin undirtied PROVE files'[t] = mem[t]
      <4>1. CASE t \in S
        BY <4>1, <3>3, <3>4
      <4>2. CASE t \notin RegionSlots
        BY <4>2, <3>3 DEF ContentsInv, FilesInv
      <4>3. CASE t \in RegionSlots /\ t \notin S
        <5>1. Loaded(t[1]) /\ t[1] \in Ids
          BY SMTT(30), <4>3, SlotParts DEF RegionSlots, Loaded, OwnershipInv, TypeOK
        <5>2. ~is_anon(t[1])
          BY <5>1, <3>1 DEF OwnershipInv, Tidy, is_anon
        <5>3. ~(is_present(t) /\ page_infos[ptes[t].at].dirty)
          BY <4>3, <5>2, <3>2 DEF DirtyIn
        <5>4. files[t] = mem[t]
          BY <4>3, <5>2, <5>3, <3>4, CleanIsWritten
        <5> QED BY <4>3, <5>4, <3>3
      <4> QED BY <4>1, <4>2, <4>3
    <3> QED BY <3>1, <3>3, <3>4
  <2> QED BY <2>1, <2>2
<1>4. \A id \in Ids : ~Loaded(id)'
  BY SMTT(30), <1>r DEF Restart, Loaded
<1>5. FilesInv'
  BY <1>r, <1>3, <1>4 DEF Restart, FilesInv, Hole
<1>6. AnchoredSurvives'
  BY <1>r, <1>4 DEF Restart, ContentsInv, AnchoredSurvives, OwnershipInv, TypeOK
<1> QED BY <1>2, <1>5, <1>6 DEF ContentsInv, CleanPagesAreSafe, Remembered

\* Every step keeps the invariant.
LEMMA NextContents == OwnershipInv /\ ContentsInv /\ [Next]_vars => ContentsInv'
<1> SUFFICES ASSUME OwnershipInv, ContentsInv, [Next]_vars PROVE ContentsInv'
  OBVIOUS
<1>o. OwnershipInv'
  BY NextOwnership
<1>1. ASSUME NEW id \in Ids, free(id) PROVE ContentsInv'
  BY <1>o, <1>1, FreeContents
<1>2. ASSUME NEW id \in Ids, NEW n \in Sizes, AllocateAnon(id, n) \/ AllocatePersistent(id, n)
      PROVE  ContentsInv'
  BY <1>o, <1>2, AllocateAnonContents, AllocatePersistentContents
<1>3. ASSUME NEW s \in Slots, NEW write \in BOOLEAN, unfix(s, write) PROVE ContentsInv'
  <2>0. s \in RegionSlots
    BY <1>3 DEF unfix
  <2>1. ASSUME NEW p \in Frames, UnfixIntoFreePage(s, write, p) PROVE ContentsInv'
    BY <1>o, <2>0, <2>1, UnfixIntoFreePageContents
  <2>2. ASSUME NEW v \in Frames, NEW ix \in SwapSlots \cup (0 .. MaxPages - 1),
               UnfixSwappingOut(s, write, v, ix)
        PROVE  ContentsInv'
    BY <1>o, <2>0, <2>2, UnfixSwappingOutContents
  <2>3. ASSUME UnfixPresent(s, write) PROVE ContentsInv'
    BY <2>0, <2>3, DirtyBitContents
  <2> QED BY <1>3, <2>1, <2>2, <2>3 DEF unfix
<1>4. ASSUME NEW s \in Slots, mark_dirty(s) PROVE ContentsInv'
  <2>1. s \in RegionSlots
    BY <1>4 DEF mark_dirty
  <2> QED BY <1>4, <2>1, DirtyBitContents
<1>5. ASSUME NEW s \in Slots, NEW d \in WriteData, ClientWrite(s, d) PROVE ContentsInv'
  BY <1>o, <1>5, ClientWriteContents
<1>6. ASSUME NEW id \in Ids, NEW off \in 0 .. MaxPages - 1, NEW n \in 1 .. MaxPages,
             persist(id, off, n)
      PROVE  ContentsInv'
  BY <1>o, <1>6, PersistContents
<1>7. ASSUME NEW id \in Ids, get_anchored_region(id) \/ anchor(id) \/ unanchor(id) PROVE ContentsInv'
  BY <1>o, <1>7, GetAnchoredRegionContents, AnchorContents
<1>8. ASSUME NEW id \in Ids, NEW n \in Sizes, AllocateAnonNoVm(id, n) PROVE ContentsInv'
  BY <1>8, AnchorContents
<1>9. ASSUME NEW id \in Ids, NEW n \in Sizes \cup {0}, AllocatePersistentFails(id, n)
      PROVE  ContentsInv'
  BY <1>9, AllocatePersistentFailsContents
<1>10. CASE CleanRestart \/ Crash
  BY <1>10, RestartContents
<1>11. CASE UNCHANGED vars
  BY <1>11, UnchangedContents
<1> QED BY <1>1, <1>2, <1>3, <1>4, <1>5, <1>6, <1>7, <1>8, <1>9, <1>10, <1>11
        DEF Next, PagingNext

\* The invariant of the contents holds in every reachable state.
THEOREM ContentsHold == Spec => [](OwnershipInv /\ ContentsInv)
<1>1. Init => OwnershipInv /\ ContentsInv
  BY InitOwnership, InitContents
<1>2. (OwnershipInv /\ ContentsInv) /\ [Next]_vars => (OwnershipInv /\ ContentsInv)'
  BY NextOwnership, NextContents
<1> QED BY <1>1, <1>2, PTL DEF Spec

\* A client reads what was last written, however often swap_out_page and
\* swap_in_page moved the page and whatever shutdowns came between; pages
\* whose dirty bit a read re-fault cleared (unfix of a present page) excepted.
THEOREM NothingIsLost == Spec => []NoLostWrite
<1>1. OwnershipInv /\ ContentsInv => NoLostWrite
  <2> SUFFICES ASSUME OwnershipInv, ContentsInv PROVE NoLostWrite
    OBVIOUS
  <2>1. ASSUME NEW s \in Slots, ~Loaded(s[1]) PROVE files[s] = mem[s]
    <3>1. s[1] \in Ids /\ s[2] \in Nat /\ nr_pages[s[1]] = 0
      BY SMTT(30), <2>1, SlotParts DEF Loaded, OwnershipInv, TypeOK
    <3>2. s \notin RegionSlots
      BY SMTT(30), <3>1 DEF RegionSlots
    <3> QED BY <3>2 DEF ContentsInv, FilesInv
  <2> QED BY <2>1 DEF ContentsInv, Remembered, NoLostWrite
<1> QED BY <1>1, ContentsHold, PTL

\* A clean persistent page in RAM is write-protected and equals its copy in
\* the file, so that swap_out_page may skip writing it.
THEOREM CleanPagesHold == Spec => []CleanPagesAreSafe
<1>1. OwnershipInv /\ ContentsInv => CleanPagesAreSafe
  BY DEF ContentsInv
<1> QED BY <1>1, ContentsHold, PTL

\* Between anchor and unanchor a region keeps its file at its size, through
\* free, failed allocations, allocations of an anonymous region under its id,
\* shutdowns and crashes.
THEOREM AnchoredRegionsSurvive == Spec => []AnchoredSurvives
<1>1. OwnershipInv /\ ContentsInv => AnchoredSurvives
  BY DEF ContentsInv
<1> QED BY <1>1, ContentsHold, PTL

\* A persist from the start of a region leaves its pages in the file and
\* write-protected.
LEMMA PersistWrites ==
    ASSUME OwnershipInv, ContentsInv, NEW id \in Ids, NEW n \in 1 .. MaxPages, persist(id, 0, n)
    PROVE  PrefixDurable(id, n)
<1>z. 0 \in 0 .. MaxPages - 1
  BY SMTT(30), PagesAssumption
<1>o. PICK out : out = DirtyIn(PagesOf(id, n))
  OBVIOUS
<1>1. PersistLoop(id, 0, n) = PagesOf(id, n)
  BY DEF PersistLoop, PagesOf
<1>s. /\ files' = WriteBack(out) /\ writable' = writable \ ({id} \X (0 .. 0 + n - 1))
      /\ ~is_anon(id) /\ n <= nr_pages[id] /\ nr_pages[id] \in 0 .. MaxPages
  BY SMTT(30), <1>o, <1>1 DEF persist, can_persist, OwnershipInv, TypeOK
<1>2. out \subseteq DirtyIn(RegionSlots)
  BY <1>z, <1>o, <1>1, PersistLoopPages
<1>3. /\ \A t \in Slots : files'[t] = IF t \in out THEN shm[ptes[t].at] ELSE files[t]
      /\ \A t \in out \ undirtied : files'[t] = mem[t]
  BY <1>2, <1>s, WriteBackContents
<1> SUFFICES ASSUME NEW s \in PagesOf(id, n), s \notin undirtied
             PROVE  files'[s] = mem[s] /\ s \notin writable'
  BY DEF PrefixDurable
<1>4. s \in Slots /\ s[1] = id /\ s[2] < n
  BY SMTT(30), PagesOfARegion
<1>5. s \in RegionSlots
  BY SMTT(30), <1>4, <1>s, SlotParts DEF RegionSlots
<1>6. s \notin writable'
  BY SMTT(30), <1>s DEF PagesOf
<1>7. CASE s \in out
  BY <1>3, <1>6, <1>7
<1>8. CASE s \notin out
  <2>1. ~(is_present(s) /\ page_infos[ptes[s].at].dirty)
    BY <1>8, <1>o, <1>4, <1>s DEF DirtyIn
  <2>2. files[s] = mem[s]
    BY <2>1, <1>4, <1>5, <1>s, CleanIsWritten
  <2> QED BY <2>2, <1>3, <1>4, <1>6, <1>8
<1> QED BY <1>7, <1>8

\* Once persist of a prefix returns, the pages are in the file and stay as
\* they are until the next write fault.
THEOREM PersistIsDurable == Spec => PersistPrefixDurable
<1>1. OwnershipInv /\ ContentsInv /\ [Next]_vars =>
          [\A id \in Ids, n \in 1 .. MaxPages : PrefixDurable(id, n) \/ ~persist(id, 0, n)]_vars
  BY PersistWrites
<1> QED BY <1>1, ContentsHold, PTL DEF Spec, PersistPrefixDurable

\* One step's changes to the files.
FileStep == \A s \in Slots \ undirtied : files'[s] # files[s] =>
    \/ NoFile \in {file_pages[s[1]], file_pages'[s[1]]}
    \/ s[1] \in persistent /\ files'[s] = mem[s]

\* swap_out_page, persist, the destructor and a crash write what is in memory;
\* allocate and free create and delete whole files.
LEMMA NextWrites == ASSUME OwnershipInv, ContentsInv, Next PROVE FileStep
<1>0. ASSUME files' = files PROVE FileStep
  BY <1>0 DEF FileStep
<1>w. ASSUME NEW S, S \subseteq DirtyIn(RegionSlots), files' = WriteBack(S) PROVE FileStep
  <2>1. /\ \A t \in Slots : files'[t] = IF t \in S THEN shm[ptes[t].at] ELSE files[t]
        /\ \A t \in S \ undirtied : files'[t] = mem[t]
    BY <1>w, WriteBackContents
  <2>2. \A t \in S : t[1] \in persistent
    BY <1>w DEF DirtyIn, is_anon
  <2> QED BY <2>1, <2>2 DEF FileStep
<1>1. ASSUME NEW id \in Ids, free(id) PROVE FileStep
  <2>1. CASE is_anon(id)
    <3>1. files' = files
      BY <1>1, <2>1 DEF free
    <3> QED BY <3>1, <1>0
  <2>2. CASE ~is_anon(id)
    <3>1. /\ files' = [s \in Slots |-> IF s \in PagesOf(id, nr_pages[id]) THEN Hole ELSE files[s]]
          /\ file_pages' = [file_pages EXCEPT ![id] = NoFile]
      BY <1>1, <2>2 DEF free
    <3>2. file_pages'[id] = NoFile
      BY <3>1 DEF OwnershipInv, TypeOK
    <3>3. \A s \in Slots : files'[s] # files[s] => s[1] = id
      BY <3>1 DEF PagesOf
    <3> QED BY <3>2, <3>3 DEF FileStep
  <2> QED BY <2>1, <2>2
<1>2. ASSUME NEW id \in Ids, NEW n \in Sizes, AllocatePersistent(id, n) PROVE FileStep
  <2>1. /\ files' = [s \in Slots |-> IF s \in PagesOf(id, n) THEN "A" ELSE files[s]]
        /\ file_pages[id] = NoFile
    BY <1>2 DEF AllocatePersistent
  <2>2. \A s \in Slots : files'[s] # files[s] => s[1] = id
    BY <2>1 DEF PagesOf
  <2> QED BY <2>1, <2>2 DEF FileStep
<1>3. ASSUME NEW s \in Slots, NEW write \in BOOLEAN, unfix(s, write) PROVE FileStep
  <2>0. s \in RegionSlots
    BY <1>3 DEF unfix
  <2>1. ASSUME NEW p \in Frames, UnfixIntoFreePage(s, write, p) PROVE FileStep
    BY <1>0, <2>1 DEF UnfixIntoFreePage, disk
  <2>2. ASSUME NEW v \in Frames, NEW ix \in SwapSlots \cup (0 .. MaxPages - 1),
               UnfixSwappingOut(s, write, v, ix)
        PROVE  FileStep
    <3>o. PICK out : out = page_infos[v].slot
      OBVIOUS
    <3>1. /\ out \in RegionSlots /\ ptes[out] = make_present(v)
          /\ files' = IF ~is_anon(out[1]) /\ page_infos[v].dirty
                      THEN [files EXCEPT ![out] = shm[v]] ELSE files
      BY SMTT(30), <2>0, <2>2, <3>o, SwapOutFacts
    <3>2. Contents(out) = shm[v]
      <4>1. is_present(out) /\ ptes[out].at = v
        BY SMTT(30), <3>1 DEF is_present, make_present
      <4> QED BY <3>1, <4>1, ContentsAre
    <3>3. out \in Slots
      BY <3>1 DEF RegionSlots
    <3>4. \A t \in Slots : files'[t] = files[t] \/ (t = out /\ ~is_anon(out[1]) /\ files'[t] = shm[v])
      BY <3>1, <3>3 DEF OwnershipInv, TypeOK
    <3> QED BY <3>1, <3>2, <3>4 DEF ContentsInv, Remembered, FileStep, is_anon
  <2>3. ASSUME UnfixPresent(s, write) PROVE FileStep
    BY <1>0, <2>3 DEF UnfixPresent, disk
  <2> QED BY <1>3, <2>1, <2>2, <2>3 DEF unfix
<1>4. ASSUME NEW id \in Ids, NEW off \in 0 .. MaxPages - 1, NEW n \in 1 .. MaxPages,
             persist(id, off, n)
      PROVE  FileStep
  <2>1. PICK S : S = DirtyIn(PersistLoop(id, off, n))
    OBVIOUS
  <2>2. S \subseteq DirtyIn(RegionSlots) /\ files' = WriteBack(S)
    BY <1>4, <2>1, PersistLoopPages DEF persist
  <2> QED BY <2>2, <1>w
<1>5. CASE CleanRestart
  BY <1>5, <1>w DEF CleanRestart, WrittenAtShutdown
<1>6. CASE Crash
  BY <1>6, <1>w DEF Crash
<1>7. ASSUME NEW id \in Ids, get_anchored_region(id) \/ anchor(id) \/ unanchor(id) PROVE FileStep
  BY <1>0, <1>7 DEF get_anchored_region, anchor, unanchor, disk
<1>8. ASSUME NEW id \in Ids, NEW n, \/ AllocateAnon(id, n) \/ AllocateAnonNoVm(id, n)
                                    \/ AllocatePersistentFails(id, n)
      PROVE  FileStep
  BY <1>0, <1>8 DEF AllocateAnon, AllocateAnonNoVm, AllocatePersistentFails, disk
<1>9. ASSUME NEW s \in Slots, mark_dirty(s) \/ \E d \in WriteData : ClientWrite(s, d) PROVE FileStep
  BY <1>0, <1>9 DEF mark_dirty, ClientWrite, disk
<1> QED BY <1>1, <1>2, <1>3, <1>4, <1>5, <1>6, <1>7, <1>8, <1>9 DEF Next, PagingNext

\* A file is only ever overwritten with the current contents of the very page
\* it backs, never with a page of an anonymous region of the same id; allocate
\* and free create and delete whole files.
THEOREM FilesFollow == Spec => FilesFollowMemory
<1>1. OwnershipInv /\ ContentsInv /\ [Next]_vars => [FileStep]_vars
  BY NextWrites
<1>2. [FileStep]_vars => [\A s \in Slots \ undirtied : files'[s] # files[s] =>
          \/ NoFile \in {file_pages[s[1]], file_pages'[s[1]]}
          \/ s[1] \in persistent /\ files'[s] = mem[s]]_vars
  BY DEF FileStep
<1> QED BY <1>1, <1>2, ContentsHold, PTL DEF Spec, FilesFollowMemory

(***************************************************************************)
(* The page reservation.                                                   *)
(***************************************************************************)
\* There are finitely many pages.
LEMMA SlotsFinite == IsFiniteSet(Slots)
<1>1. IsFiniteSet(0 .. MaxPages - 1)
  BY SMTT(30), PagesAssumption, FS_Interval
<1> QED BY <1>1, IdsAssumption, FS_Product DEF Slots

\* A region of n pages has n pages.
LEMMA PagesCounted ==
    ASSUME NEW id \in Ids, NEW n \in 1 .. MaxPages
    PROVE  IsFiniteSet(PagesOf(id, n)) /\ Cardinality(PagesOf(id, n)) = n
<1>1. IsFiniteSet(0 .. n - 1) /\ Cardinality(0 .. n - 1) = n
  BY SMTT(30), FS_Interval
<1>2. IsFiniteSet({id}) /\ Cardinality({id}) = 1
  BY FS_Singleton
<1>3. IsFiniteSet({id} \X (0 .. n - 1)) /\ Cardinality({id} \X (0 .. n - 1)) = 1 * n
  BY SMTT(30), <1>1, <1>2, FS_Product
<1> QED BY SMTT(30), <1>3 DEF PagesOf

\* Steps that give out no page and create no anonymous region keep the reserve.
LEMMA SameAnonCapacity ==
    ASSUME TypeOK, TypeOK', CapacityReserved, AnonSlots' = AnonSlots,
           nr_available_pages' <= nr_available_pages
    PROVE  CapacityReserved'
<1>1. IsFiniteSet(AnonSlots)
  BY SlotsFinite, FS_Subset DEF AnonSlots, RegionSlots
<1>2. Cardinality(AnonSlots) \in Nat /\ Cardinality(Frames) \in Nat /\ Cardinality(SwapSlots) \in Nat
  BY <1>1, FramesAssumption, SwapAssumption, FS_CardinalityType
<1> QED BY SMTT(30), <1>2 DEF CapacityReserved, TypeOK

\* allocate of an anonymous region takes its pages from m_nr_available_pages.
LEMMA AllocateAnonCapacity ==
    ASSUME OwnershipInv, OwnershipInv', CapacityReserved, NEW id \in Ids, NEW n \in Sizes,
           AllocateAnon(id, n)
    PROVE  CapacityReserved'
<1>0. n \in 1 .. MaxPages
  BY PagesAssumption
<1>1. PagesOf(id, n) = {s \in Slots : s[1] = id /\ s[2] < n}
  BY SMTT(30), <1>0, PagesOfARegion
<1>s. /\ nr_pages' = [nr_pages EXCEPT ![id] = n] /\ persistent' = persistent /\ nr_pages[id] = 0
      /\ id \notin persistent /\ nr_available_pages' = nr_available_pages - n
  <2>1. /\ nr_pages' = [nr_pages EXCEPT ![id] = n] /\ persistent' = persistent /\ ~Loaded(id)
        /\ nr_available_pages' = nr_available_pages - n
    BY DEF AllocateAnon, MayAllocate, add_region
  <2>2. nr_pages[id] = 0
    BY SMTT(30), <2>1, RegionTypes DEF Loaded
  <2> QED BY <2>1, <2>2 DEF OwnershipInv, Tidy
<1>2. AnonSlots' = AnonSlots \cup PagesOf(id, n) /\ AnonSlots \cap PagesOf(id, n) = {}
  <2>1. \A s \in Slots : s \in AnonSlots' <=> s \in AnonSlots \/ s \in PagesOf(id, n)
    <3> SUFFICES ASSUME NEW s \in Slots PROVE s \in AnonSlots' <=> s \in AnonSlots \/ s \in PagesOf(id, n)
      OBVIOUS
    <3>1. s[1] \in Ids /\ s[2] \in Nat
      BY SMTT(30), SlotParts
    <3> QED BY SMTT(30), <3>1, <1>1, <1>s, RegionTypes DEF AnonSlots, RegionSlots, is_anon
  <2>2. \A s \in AnonSlots : s[1] # id
    BY SMTT(30), <1>s, SlotParts DEF AnonSlots, RegionSlots
  <2> QED BY <2>1, <2>2, <1>1 DEF AnonSlots, RegionSlots
<1>3. IsFiniteSet(AnonSlots)
  BY SlotsFinite, FS_Subset DEF AnonSlots, RegionSlots
<1>4. IsFiniteSet(PagesOf(id, n)) /\ Cardinality(PagesOf(id, n)) = n
  BY <1>0, PagesCounted
<1>5. Cardinality(AnonSlots') = Cardinality(AnonSlots) + n
  <2>1. /\ Cardinality(AnonSlots') = Cardinality(AnonSlots) + n - Cardinality(AnonSlots \cap PagesOf(id, n))
        /\ Cardinality(AnonSlots) \in Nat
    BY <1>2, <1>3, <1>4, FS_Union, FS_CardinalityType
  <2>2. Cardinality(AnonSlots \cap PagesOf(id, n)) = 0
    BY <1>2, FS_EmptySet
  <2> QED BY SMTT(30), <2>1, <2>2, <1>0
<1>6. Cardinality(AnonSlots) \in Nat /\ Cardinality(Frames) \in Nat /\ Cardinality(SwapSlots) \in Nat
  BY <1>3, FramesAssumption, SwapAssumption, FS_CardinalityType
<1>7. nr_available_pages' \in Nat /\ nr_available_pages \in Nat
  BY DEF OwnershipInv, TypeOK
<1> QED BY SMTT(30), <1>0, <1>5, <1>6, <1>7, <1>s DEF CapacityReserved

\* free gives them back, no more than the region had.
LEMMA FreeCapacity ==
    ASSUME OwnershipInv, OwnershipInv', CapacityReserved, NEW id \in Ids, free(id)
    PROVE  CapacityReserved'
<1>n. PICK n : n = nr_pages[id]
  OBVIOUS
<1>s. /\ nr_pages' = [nr_pages EXCEPT ![id] = 0] /\ persistent' = persistent \ {id}
      /\ nr_available_pages' = IF is_anon(id) THEN nr_available_pages + n ELSE nr_available_pages
      /\ Loaded(id)
  BY <1>n DEF free, MayFree
<1>0. n \in 1 .. MaxPages
  BY SMTT(30), <1>n, <1>s, RegionTypes DEF Loaded
<1>1. PagesOf(id, n) = {s \in Slots : s[1] = id /\ s[2] < n}
  BY SMTT(30), <1>0, PagesOfARegion
<1>2. AnonSlots' = AnonSlots \ PagesOf(id, n)
  <2>1. \A s \in Slots : s \in AnonSlots' <=> s \in AnonSlots /\ s \notin PagesOf(id, n)
    <3> SUFFICES ASSUME NEW s \in Slots
                 PROVE  s \in AnonSlots' <=> s \in AnonSlots /\ s \notin PagesOf(id, n)
      OBVIOUS
    <3>1. s[1] \in Ids /\ s[2] \in Nat
      BY SMTT(30), SlotParts
    <3> QED BY SMTT(30), <3>1, <1>1, <1>n, <1>s, RegionTypes DEF AnonSlots, RegionSlots, is_anon
  <2> QED BY <2>1 DEF AnonSlots, RegionSlots
<1>3. IsFiniteSet(AnonSlots)
  BY SlotsFinite, FS_Subset DEF AnonSlots, RegionSlots
<1>4. IsFiniteSet(PagesOf(id, n)) /\ Cardinality(PagesOf(id, n)) = n
  BY <1>0, PagesCounted
<1>5. CASE is_anon(id)
  <2>1. PagesOf(id, n) \subseteq AnonSlots
    BY <1>1, <1>5, <1>n DEF AnonSlots, RegionSlots
  <2>2. AnonSlots \cap PagesOf(id, n) = PagesOf(id, n)
    BY <2>1
  <2>3. Cardinality(AnonSlots') = Cardinality(AnonSlots) - n
    BY SMTT(30), <2>2, <1>2, <1>3, <1>4, FS_Difference
  <2>4. Cardinality(AnonSlots) \in Nat /\ Cardinality(Frames) \in Nat /\ Cardinality(SwapSlots) \in Nat
    BY <1>3, FramesAssumption, SwapAssumption, FS_CardinalityType
  <2> QED BY SMTT(30), <2>3, <2>4, <1>0, <1>5, <1>s, RegionTypes DEF CapacityReserved
<1>6. CASE ~is_anon(id)
  <2>1. AnonSlots' = AnonSlots
    BY <1>1, <1>2, <1>6 DEF AnonSlots
  <2>2. nr_available_pages' <= nr_available_pages
    BY SMTT(30), <1>6, <1>s, RegionTypes
  <2> QED BY <2>1, <2>2, SameAnonCapacity DEF OwnershipInv
<1> QED BY <1>5, <1>6

\* A persistent region takes none.
LEMMA PersistentCapacity ==
    ASSUME OwnershipInv, OwnershipInv', CapacityReserved, NEW id \in Ids,
           \/ \E n \in Sizes : AllocatePersistent(id, n)
           \/ get_anchored_region(id)
    PROVE  CapacityReserved'
<1>1. PICK n : /\ nr_pages' = [nr_pages EXCEPT ![id] = n] /\ persistent' = persistent \cup {id}
               /\ ~Loaded(id) /\ nr_available_pages' = nr_available_pages
  BY DEF AllocatePersistent, MayAllocate, get_anchored_region, add_region
<1>2. nr_pages[id] = 0
  BY SMTT(30), <1>1, RegionTypes DEF Loaded
<1>3. \A s \in Slots : s \in AnonSlots' <=> s \in AnonSlots
  <2> SUFFICES ASSUME NEW s \in Slots PROVE s \in AnonSlots' <=> s \in AnonSlots
    OBVIOUS
  <2>1. s[1] \in Ids /\ s[2] \in Nat
    BY SMTT(30), SlotParts
  <2> QED BY SMTT(30), <2>1, <1>1, <1>2, RegionTypes DEF AnonSlots, RegionSlots, is_anon
<1>4. AnonSlots' = AnonSlots
  BY <1>3 DEF AnonSlots, RegionSlots
<1>5. nr_available_pages' <= nr_available_pages
  BY SMTT(30), <1>1, RegionTypes
<1> QED BY <1>4, <1>5, SameAnonCapacity DEF OwnershipInv

\* A new process starts with all pages but one.
LEMMA StartCapacity ==
    /\ Init => CapacityReserved
    /\ Restart => CapacityReserved'
<1>0. Cardinality(Frames) \in Nat /\ Cardinality(Frames) >= 2 /\ Cardinality(SwapSlots) \in Nat
  BY FramesAssumption, SwapAssumption, FS_CardinalityType
<1>1. ASSUME Init PROVE CapacityReserved
  <2>1. \A s \in Slots : s \notin RegionSlots
    BY SMTT(30), <1>1, SlotParts DEF Init, RegionSlots
  <2>2. AnonSlots = {} /\ nr_available_pages = AvailableAtStart
    BY <1>1, <2>1 DEF Init, AnonSlots, RegionSlots
  <2>3. Cardinality(AnonSlots) = 0
    BY <2>2, FS_EmptySet
  <2> QED BY SMTT(30), <2>2, <2>3, <1>0 DEF CapacityReserved, AvailableAtStart
<1>2. ASSUME Restart PROVE CapacityReserved'
  <2>1. \A s \in Slots : s \notin RegionSlots'
    <3> SUFFICES ASSUME NEW s \in Slots PROVE ~(s[2] < nr_pages'[s[1]])
      BY DEF RegionSlots
    <3> QED BY SMTT(30), <1>2, SlotParts DEF Restart
  <2>2. AnonSlots' = {} /\ nr_available_pages' = AvailableAtStart
    BY <1>2, <2>1 DEF Restart, AnonSlots, RegionSlots
  <2>3. Cardinality(AnonSlots') = 0
    BY <2>2, FS_EmptySet
  <2> QED BY SMTT(30), <2>2, <2>3, <1>0 DEF CapacityReserved, AvailableAtStart
<1> QED BY <1>1, <1>2

\* Every step keeps the reserve.
LEMMA NextCapacity == OwnershipInv /\ CapacityReserved /\ [Next]_vars => CapacityReserved'
<1> SUFFICES ASSUME OwnershipInv, CapacityReserved, [Next]_vars PROVE CapacityReserved'
  OBVIOUS
<1>o. OwnershipInv' /\ TypeOK /\ TypeOK'
  BY NextOwnership DEF OwnershipInv
<1>q. ASSUME UNCHANGED <<nr_pages, persistent>>, nr_available_pages' <= nr_available_pages
      PROVE  CapacityReserved'
  BY <1>o, <1>q, SameAnonCapacity DEF AnonSlots, RegionSlots, is_anon
<1>r. nr_available_pages <= nr_available_pages
  BY SMTT(30), <1>o DEF TypeOK
<1>1. ASSUME NEW id \in Ids, free(id) PROVE CapacityReserved'
  BY <1>o, <1>1, FreeCapacity
<1>2. ASSUME NEW id \in Ids, NEW n \in Sizes, AllocateAnon(id, n) \/ AllocatePersistent(id, n)
      PROVE  CapacityReserved'
  BY <1>o, <1>2, AllocateAnonCapacity, PersistentCapacity
<1>3. ASSUME NEW s \in Slots, NEW write \in BOOLEAN, unfix(s, write) PROVE CapacityReserved'
  <2>1. UNCHANGED <<nr_pages, persistent, nr_available_pages>>
    BY <1>3 DEF unfix, UnfixIntoFreePage, UnfixSwappingOut, UnfixPresent
  <2> QED BY <2>1, <1>q, <1>r
<1>4. ASSUME NEW s \in Slots, mark_dirty(s) \/ \E d \in WriteData : ClientWrite(s, d)
      PROVE  CapacityReserved'
  BY <1>4, <1>q, <1>r DEF mark_dirty, ClientWrite
<1>5. ASSUME NEW id, NEW off, NEW n, persist(id, off, n) PROVE CapacityReserved'
  <2>1. UNCHANGED <<nr_pages, persistent, nr_available_pages>>
    BY <1>5 DEF persist
  <2> QED BY <2>1, <1>q, <1>r
<1>6. ASSUME NEW id \in Ids, get_anchored_region(id) PROVE CapacityReserved'
  BY <1>o, <1>6, PersistentCapacity
<1>7. ASSUME NEW id \in Ids, anchor(id) \/ unanchor(id) PROVE CapacityReserved'
  BY <1>7, <1>q, <1>r DEF anchor, unanchor
<1>8. ASSUME NEW id \in Ids, NEW n \in Sizes, AllocateAnonNoVm(id, n) PROVE CapacityReserved'
  <2>1. nr_available_pages' <= nr_available_pages
    BY SMTT(30), <1>8, <1>o, PagesAssumption, RegionTypes DEF AllocateAnonNoVm
  <2> QED BY <1>8, <2>1, <1>q DEF AllocateAnonNoVm
<1>9. ASSUME NEW id \in Ids, NEW n, AllocatePersistentFails(id, n) PROVE CapacityReserved'
  BY <1>9, <1>q, <1>r DEF AllocatePersistentFails
<1>10. CASE CleanRestart \/ Crash
  BY <1>10, StartCapacity DEF CleanRestart, Crash
<1>11. CASE UNCHANGED vars
  BY <1>11, <1>q, <1>r DEF vars
<1> QED BY <1>1, <1>2, <1>3, <1>4, <1>5, <1>6, <1>7, <1>8, <1>9, <1>10, <1>11
        DEF Next, PagingNext

\* The pages promised to anonymous regions and those still to be given out are
\* fewer than RAM and swap hold, whatever allocations fail half-way.
THEOREM ReserveHolds == Spec => []CapacityReserved
<1>1. Init => OwnershipInv /\ CapacityReserved
  BY InitOwnership, StartCapacity
<1>2. (OwnershipInv /\ CapacityReserved) /\ [Next]_vars => (OwnershipInv /\ CapacityReserved)'
  BY NextOwnership, NextCapacity
<1> QED BY <1>1, <1>2, PTL DEF Spec

\* If no page could go, every frame and every swap entry would hold an
\* anonymous page: more of them than the reserve allows.
LEMMA ReserveLeavesAVictim == OwnershipInv /\ CapacityReserved => VictimExists
<1> SUFFICES ASSUME OwnershipInv, CapacityReserved, NEW s \in RegionSlots, ~is_present(s),
                    free_pages = {},
                    \A v \in used_pages : ~Swappable(v, SwapEntriesAfterSwapIn(s))
             PROVE  FALSE
  BY DEF VictimExists
<1>1. used_pages = Frames
  BY DEF OwnershipInv, PageOwnership
<1>2. \A v \in Frames : is_anon(page_infos[v].slot[1]) /\ SwapEntriesAfterSwapIn(s) = {}
  BY <1>1 DEF Swappable
<1>3. Frames # {}
  BY SMTT(30), FramesAssumption, FS_EmptySet
<1>4. SwapEntriesAfterSwapIn(s) = {}
  BY <1>2, <1>3
<1> DEFINE P == {t \in AnonSlots : is_present(t)}
           Q == {t \in AnonSlots : is_swapped(t)}
           f == [v \in Frames |-> page_infos[v].slot]
           g == [ix \in SwapSlots |-> CHOOSE t \in Q : ptes[t].at = ix]
<1>5. IsFiniteSet(AnonSlots) /\ IsFiniteSet(P) /\ IsFiniteSet(Q)
  BY SlotsFinite, FS_Subset DEF AnonSlots, RegionSlots
<1>6. f \in Injection(Frames, P)
  <2>1. \A v \in Frames : page_infos[v].slot \in P /\ ptes[page_infos[v].slot].at = v
    <3> SUFFICES ASSUME NEW v \in Frames
                 PROVE  page_infos[v].slot \in P /\ ptes[page_infos[v].slot].at = v
      OBVIOUS
    <3>1. page_infos[v].slot \in RegionSlots /\ ptes[page_infos[v].slot] = make_present(v)
      BY <1>1 DEF OwnershipInv, PageOwnership
    <3>2. page_infos[v].slot \in AnonSlots
      BY <3>1, <1>2 DEF AnonSlots
    <3> QED BY SMTT(30), <3>1, <3>2 DEF is_present, make_present
  <2> QED BY <2>1 DEF Injection, IsInjective
<1>7. g \in Injection(SwapSlots, Q)
  <2>1. \A ix \in SwapSlots : \E t \in Q : ptes[t].at = ix
    <3> SUFFICES ASSUME NEW ix \in SwapSlots PROVE \E t \in Q : ptes[t].at = ix
      OBVIOUS
    <3>1. PICK t \in RegionSlots : is_anon(t[1]) /\ ptes[t] = make_swap(ix)
      BY <1>4, SwapInFacts
    <3>2. t \in Q /\ ptes[t].at = ix
      BY SMTT(30), <3>1 DEF AnonSlots, is_swapped, make_swap
    <3> QED BY <3>2
  <2>2. \A ix \in SwapSlots : g[ix] \in Q /\ ptes[g[ix]].at = ix
    BY <2>1
  <2>3. g \in [SwapSlots -> Q]
    BY <2>2
  <2> QED BY <2>2, <2>3 DEF Injection, IsInjective
<1>8. Cardinality(Frames) <= Cardinality(P) /\ Cardinality(SwapSlots) <= Cardinality(Q)
  <2> HIDE DEF f, g, P, Q
  <2> QED BY <1>5, <1>6, <1>7, FS_Injection
<1>9. P \cup Q \in SUBSET AnonSlots /\ P \cap Q = {}
  BY DEF is_present, is_swapped
<1>10. Cardinality(P) + Cardinality(Q) <= Cardinality(AnonSlots)
  <2> HIDE DEF P, Q
  <2>1. Cardinality(P \cup Q) = Cardinality(P) + Cardinality(Q) - Cardinality(P \cap Q)
    BY <1>5, FS_Union
  <2>2. Cardinality(P \cup Q) <= Cardinality(AnonSlots)
    BY <1>5, <1>9, FS_Subset
  <2>3. Cardinality(P \cap Q) = 0
    BY <1>9, FS_EmptySet
  <2>4. Cardinality(P) \in Nat /\ Cardinality(Q) \in Nat
    BY <1>5, FS_CardinalityType
  <2> QED BY SMTT(30), <2>1, <2>2, <2>3, <2>4
<1>11. /\ Cardinality(P) \in Nat /\ Cardinality(Q) \in Nat /\ Cardinality(AnonSlots) \in Nat
       /\ Cardinality(Frames) \in Nat /\ Cardinality(SwapSlots) \in Nat /\ nr_available_pages \in Nat
  BY <1>5, FramesAssumption, SwapAssumption, FS_CardinalityType DEF OwnershipInv, TypeOK
<1> QED BY SMTT(30), <1>8, <1>10, <1>11 DEF CapacityReserved

\* find_swappable_page's scan, which has no end test, always ends: whenever
\* unfix runs it, m_used_pages holds a page that can go.
THEOREM AVictimExists == Spec => []VictimExists
BY OwnershipHolds, ReserveHolds, ReserveLeavesAVictim, PTL
=============================================================================

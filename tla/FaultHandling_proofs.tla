------------------------- MODULE FaultHandling_proofs -------------------------
(***************************************************************************)
(* Theorems about FaultHandling for any clients, pages and frames: between *)
(* any two system calls of a fault or a persist, clients see their own     *)
(* pages, their writes are noticed, and clean pages are in their files.    *)
(***************************************************************************)
EXTENDS FaultHandling, MCPageIo, TLAPS

\* How long a prover may look for the proof of a leaf.
USE SMTT(30), ZenonT(60)

Wishes == [page : Pages, write : BOOLEAN, waits : BOOLEAN]
Faults == [client : Clients, msg : Messages]

\* The steps of a fault, and those between finding the page absent and having it.
Replacing  == {"swap_out", "write_out", "mmap", "memcpy"}
Arriving   == {"register", "protect"}
Serving    == {"unfix", "continue", "mark_dirty", "unprotect", "unblock"} \cup Replacing \cup Arriving
Persisting == {"persist_protect", "persist_write", "persist_clean"}

Holders ==
    [pc : {"idle", "block", "wake"} \cup Serving \cup Persisting, msg : Messages \cup {None},
     frame : Frames \cup {None}, victim : Pages \cup {None}, tmp : Values, left : SUBSET Pages]

TypeInv ==
    /\ pte \in [Pages -> Frames \cup {None}] /\ vma \in [Pages -> Frames \cup {None}]
    /\ dirty \in [Frames -> BOOLEAN] /\ data \in [Frames -> Values]
    /\ file \in [Pages -> Values] /\ mem \in [Pages -> Values]
    /\ used \in Seq(Frames) /\ mapped \subseteq Pages
    /\ access \in [Clients -> [Pages -> {"none", "read", "write"}]]
    /\ want \in [Clients -> Wishes \cup {None}]
    /\ queue \in Seq(Faults)
    /\ holder \in Holders
    /\ holder.pc \in {"block", "wake"} \cup Serving => holder.msg \in Messages

\* m_used_pages lists the frames that pages are in, each once; a frame on its way
\* from one page to another is in nobody's hands.
OwnershipInv ==
    /\ \A p, q \in Pages : pte[p] = pte[q] /\ pte[p] # None => p = q
    /\ \A p \in Pages : pte[p] # None => vma[p] = pte[p] /\ \E i \in 1 .. Len(used) : used[i] = pte[p]
    /\ \A i, j \in 1 .. Len(used) : used[i] = used[j] => i = j
    /\ \A i \in 1 .. Len(used) :
          \/ \E p \in Pages : pte[p] = used[i]
          \/ holder.pc = "memcpy" /\ used[i] = holder.frame
    /\ holder.pc \in Replacing => pte[Page] = None
    /\ holder.pc = "swap_out" => Len(used) > 0
    /\ holder.pc \in Replacing \ {"swap_out"} =>
          holder.frame \in Frames /\ \A p \in Pages : pte[p] # holder.frame
    /\ holder.pc \in {"write_out", "mmap"} => \A i \in 1 .. Len(used) : used[i] # holder.frame
    /\ holder.pc = "write_out" =>
          holder.victim \in Pages /\ holder.victim # Page /\ pte[holder.victim] = None
    /\ holder.pc = "memcpy" =>
          vma[Page] = holder.frame /\ \E i \in 1 .. Len(used) : used[i] = holder.frame
    /\ holder.pc \in Arriving => pte[Page] = holder.frame /\ holder.frame # None
    /\ holder.pc \in {"continue", "unprotect"} => pte[Page] # None

\* The manager's page table holds the pages that are in a frame, and clients have
\* theirs from it.  Pages outside a registered VMA are those of a fault that is
\* being served, whose region is blocked.
MappingInv ==
    /\ \A p \in Pages : p \in mapped <=> pte[p] # None
    /\ \A c \in Clients, p \in Pages : access[c][p] # "none" => p \in mapped
    /\ \A c \in Clients, p \in Pages : access[c][p] = "write" => p \notin protected
    /\ \A p \in Pages : p \notin registered => holder.pc \in {"memcpy", "register"} /\ p = Page
    /\ holder.pc \in Serving => RegionOf[Page] \in blocked
    /\ holder.pc \in Arriving => \A c \in Clients : access[c][Page] = "none"

\* Frames hold what clients last wrote; so do the files of pages that are clean,
\* and a page that clients may write to without a fault is not.
ContentsInv ==
    /\ \A p \in Pages : pte[p] # None => data[pte[p]] = mem[p]
    /\ holder.pc = "write_out" => data[holder.frame] = mem[holder.victim]
    /\ holder.pc = "write_out" /\ holder.victim \notin undirtied =>
          dirty[holder.frame] \/ file[holder.victim] = mem[holder.victim]
    /\ holder.pc \in Replacing => holder.tmp = file[Page]
    /\ CleanMeansWritten
    /\ \A p \in mapped \ (protected \cup undirtied) :
          dirty[pte[p]] \/ (holder.pc \in Arriving /\ p = Page)
    /\ holder.pc = "unprotect" => dirty[pte[Page]]

\* While persist writes, the pages it has protected stay protected.
PersistInv ==
    /\ holder.pc = "persist_protect" =>
          \A p \in holder.left : \A q \in mapped \ holder.left :
              RegionOf[q] = RegionOf[p] => q \in protected
    /\ holder.pc \in {"persist_write", "persist_clean"} => holder.left \cap mapped \subseteq protected
    /\ holder.pc = "persist_clean" =>
          /\ holder.victim \in holder.left /\ pte[holder.victim] # None
          /\ file[holder.victim] = mem[holder.victim]

FaultInv == TypeInv /\ OwnershipInv /\ MappingInv /\ ContentsInv /\ PersistInv

USE DEF At, Goto, Page, buffers, kernel, clients, ghosts, Serving, Replacing, Arriving,
        Persisting, Holders

\* At the start nothing is in a frame, and every file holds what clients would read.
LEMMA InitFaults == Init => FaultInv
BY FramesAssumption, ValuesAssumption
   DEF Init, Idle, FaultInv, TypeInv, OwnershipInv, MappingInv, ContentsInv, PersistInv,
       CleanMeansWritten

\* Once a message has been read, its fields are those of a page fault.
LEMMA MessageRead ==
    ASSUME FaultInv, holder.pc \in {"block", "wake"} \cup Serving
    PROVE  /\ holder.msg \in Messages /\ Page \in Pages
           /\ holder.msg.minor \in BOOLEAN /\ holder.msg.wp \in BOOLEAN /\ holder.msg.write \in BOOLEAN
BY DEF FaultInv, TypeInv, Messages

\* A frame holds one page, which the VMA maps to it, and m_used_pages lists it once.
LEMMA PagesOwnFrames ==
    ASSUME FaultInv
    PROVE  /\ \A p, q \in Pages : pte[p] = pte[q] /\ pte[p] # None => p = q
           /\ \A p \in Pages : pte[p] # None =>
                 vma[p] = pte[p] /\ \E i \in 1 .. Len(used) : used[i] = pte[p]
           /\ \A i, j \in 1 .. Len(used) : used[i] = used[j] => i = j
BY DEF FaultInv, OwnershipInv

\* Who has which frame depends on the page table, the VMAs and m_used_pages.
LEMMA SameOwnership ==
    ASSUME OwnershipInv, UNCHANGED <<pte, vma, used, holder>>
    PROVE  OwnershipInv'
BY DEF OwnershipInv

\* What clients may reach depends on the mappings and what userfaultfd protects.
LEMMA SameMapping ==
    ASSUME MappingInv, UNCHANGED <<pte, mapped, registered, protected, access, blocked, holder>>
    PROVE  MappingInv'
BY DEF MappingInv

\* Where contents are depends on the frames, the files and the dirty bits.
LEMMA SameContents ==
    ASSUME ContentsInv,
           UNCHANGED <<pte, data, mem, dirty, file, mapped, protected, undirtied, holder>>
    PROVE  ContentsInv'
BY DEF ContentsInv, CleanMeansWritten

\* What persist has done depends on the mappings, the files and its own steps.
LEMMA SamePersist ==
    ASSUME PersistInv, UNCHANGED <<pte, mapped, protected, file, mem, holder>>
    PROVE  PersistInv'
BY DEF PersistInv

\* Types are kept by a step that leaves all but wishes and messages alone.
LEMMA SameTypes ==
    ASSUME TypeInv, want' \in [Clients -> Wishes \cup {None}], queue' \in Seq(Faults),
           UNCHANGED <<pte, vma, dirty, data, file, mem, used, mapped, access, holder>>
    PROVE  TypeInv'
BY Zenon DEF TypeInv

\* Only what clients want and the messages about it change.
LEMMA OnlyClientsChange ==
    ASSUME FaultInv, want' \in [Clients -> Wishes \cup {None}], queue' \in Seq(Faults),
           UNCHANGED <<buffers, kernel, blocked, holder, ghosts>>
    PROVE  FaultInv'
<1>1. TypeInv' /\ OwnershipInv'
  BY Zenon, SameTypes, SameOwnership DEF FaultInv
<1>2. MappingInv'
  BY Zenon, SameMapping DEF FaultInv
<1>3. ContentsInv'
  BY Zenon, SameContents DEF FaultInv
<1>4. PersistInv'
  BY Zenon, SamePersist DEF FaultInv
<1> QED BY <1>1, <1>2, <1>3, <1>4 DEF FaultInv

\* A client comes to an instruction: nothing but its wish changes.
LEMMA WantsHolds ==
    ASSUME FaultInv, NEW c \in Clients, NEW p \in Pages, NEW w \in BOOLEAN, Wants(c, p, w)
    PROVE  FaultInv'
<1>1. want' \in [Clients -> Wishes \cup {None}] /\ queue' \in Seq(Faults)
  BY DEF FaultInv, TypeInv, Wants, Wishes
<1>2. UNCHANGED <<buffers, kernel, blocked, holder, ghosts>>
  BY DEF Wants
<1> QED BY <1>1, <1>2, OnlyClientsChange

\* A client reads or writes a page it has: the frame is that of the page and no other
\* page's, and if it may write, the page is dirty.
LEMMA AccessHolds ==
    ASSUME FaultInv, NEW c \in Clients, NEW v \in WriteData, Access(c, v)
    PROVE  FaultInv'
<1>1. want' \in [Clients -> Wishes \cup {None}] /\ queue' \in Seq(Faults)
  BY DEF FaultInv, TypeInv, Access
<1>2. UNCHANGED <<pte, dirty, used, file, vma, mapped, registered, protected, access, blocked>>
  BY DEF Access
<1>3. UNCHANGED <<holder, undirtied>> /\ v \in Values
  BY ValuesAssumption DEF Access
<1>4. PICK p \in Pages, write \in BOOLEAN : want[c].page = p /\ want[c].write = write
  BY DEF FaultInv, TypeInv, Wishes, Access, Runs
<1>5. CASE ~write
  <2>1. UNCHANGED <<buffers, kernel, blocked, holder, ghosts>>
    BY <1>2, <1>3, <1>4, <1>5 DEF Access
  <2> QED BY <1>1, <2>1, OnlyClientsChange
<1>6. CASE write
  <2>1. access[c][p] = "write"
    BY <1>4, <1>6 DEF Access, Permits
  <2>2. data' = [data EXCEPT ![vma[p]] = v] /\ mem' = [mem EXCEPT ![p] = v]
    BY <1>4, <1>6 DEF Access
  <2>3. p \in mapped /\ p \notin protected /\ pte[p] # None
    BY <2>1 DEF FaultInv, MappingInv
  <2>4. pte[p] \in Frames /\ vma[p] = pte[p]
    BY <2>3 DEF FaultInv, TypeInv, OwnershipInv
  <2>5. \A q \in Pages : q # p => pte[q] # pte[p]
    BY <2>3 DEF FaultInv, OwnershipInv
  <2>6. p \in undirtied \/ dirty[pte[p]]
    BY <2>1, <2>3 DEF FaultInv, MappingInv, ContentsInv
  <2>7. holder.pc = "write_out" => holder.frame # pte[p] /\ holder.victim # p
    BY <2>3, <2>4 DEF FaultInv, OwnershipInv
  <2>8. OwnershipInv' /\ MappingInv'
    BY Zenon, <1>2, <1>3, SameOwnership, SameMapping DEF FaultInv
  <2>9. data' \in [Frames -> Values] /\ mem' \in [Pages -> Values]
    BY <1>3, <2>2, <2>4 DEF FaultInv, TypeInv
  <2>10. TypeInv'
    BY Zenon, <1>1, <1>2, <1>3, <2>9 DEF FaultInv, TypeInv
  <2>11. ContentsInv'
    <3>1. data'[pte[p]] = v /\ \A f \in Frames : f # pte[p] => data'[f] = data[f]
      BY <2>2, <2>4 DEF FaultInv, TypeInv
    <3>2. mem'[p] = v /\ \A q \in Pages : q # p => mem'[q] = mem[q]
      BY <2>2 DEF FaultInv, TypeInv
    <3>3. \A q \in Pages : pte[q] # None => data'[pte[q]] = mem'[q]
      BY <2>5, <3>1, <3>2 DEF FaultInv, TypeInv, ContentsInv
    <3>4. holder.pc = "write_out" =>
            data'[holder.frame] = data[holder.frame] /\ mem'[holder.victim] = mem[holder.victim]
      BY <2>7, <3>1, <3>2 DEF FaultInv, OwnershipInv
    <3>5. CleanMeansWritten'
      BY <1>2, <1>3, <2>3, <2>6, <3>2 DEF FaultInv, ContentsInv, CleanMeansWritten
    <3> QED BY <1>2, <1>3, <3>3, <3>4, <3>5 DEF FaultInv, ContentsInv
  <2>12. PersistInv'
    BY <1>2, <1>3, <2>2, <2>3 DEF FaultInv, TypeInv, PersistInv
  <2> QED BY <2>8, <2>10, <2>11, <2>12 DEF FaultInv
<1> QED BY <1>5, <1>6

\* A client faults. The kernel maps the page itself only if it is in the manager's
\* page table, as a page of a region that is not blocked.
LEMMA FaultHolds == ASSUME FaultInv, NEW c \in Clients, Fault(c) PROVE FaultInv'
<1> DEFINE p == want[c].page
           m == Message(p, want[c].write)
<1>1. p \in Pages /\ want[c].write \in BOOLEAN /\ want[c] \in Wishes
  BY DEF FaultInv, TypeInv, Wishes, Fault, Runs
<1>2. CASE m = None
  <2>1. ~Blocked(p) /\ mapped' = mapped \cup {p} /\ UNCHANGED <<clients, holder>>
        /\ access' = [access EXCEPT ![c][p] = IF p \in protected THEN "read" ELSE "write"]
    BY <1>2 DEF Fault
  <2>2. p \in registered
    BY <1>1, <2>1 DEF FaultInv, MappingInv, Blocked
  <2>3. p \in mapped
    <3>1. SUFFICES ASSUME p \notin mapped PROVE FALSE
      OBVIOUS
    <3>2. m = [page |-> p, minor |-> vma[p] # None, wp |-> FALSE, write |-> want[c].write]
      BY <2>2, <3>1 DEF Message
    <3>3. m \in Messages
      BY <1>1, <3>2 DEF Messages
    <3> QED BY <1>2, <3>3, MessagesAssumption
  <2>4. mapped' = mapped /\ ~(holder.pc \in Arriving /\ p = Page)
    BY <2>1, <2>3 DEF FaultInv, MappingInv, Blocked
  <2> HIDE DEF p, m
  <2>5. TypeInv'
    BY <1>1, <2>1, <2>4 DEF FaultInv, TypeInv, Fault
  <2>o. OwnershipInv'
    BY <2>1, SameOwnership DEF FaultInv, Fault
  <2>6. MappingInv'
    BY <1>1, <2>1, <2>3, <2>4 DEF FaultInv, TypeInv, MappingInv, Fault
  <2>7. ContentsInv' /\ PersistInv'
    BY <2>1, <2>4 DEF FaultInv, ContentsInv, CleanMeansWritten, PersistInv, Fault
  <2> QED BY <2>5, <2>o, <2>6, <2>7 DEF FaultInv
<1>3. CASE m # None
  <2>1. /\ queue' = Append(queue, [client |-> c, msg |-> m])
        /\ want' = [want EXCEPT ![c].waits = TRUE]
        /\ UNCHANGED <<buffers, kernel, blocked, holder, ghosts>>
    BY <1>3 DEF Fault
  <2>2. m \in Messages
    BY <1>1, <1>3 DEF Message, Messages
  <2>3. [client |-> c, msg |-> m] \in Faults
    BY <2>2 DEF Faults
  <2>4. want' \in [Clients -> Wishes \cup {None}]
    BY ZenonT(60), <1>1, <2>1 DEF FaultInv, TypeInv, Wishes
  <2> HIDE DEF p, m
  <2>5. queue' \in Seq(Faults) /\ UNCHANGED <<buffers, kernel, blocked, holder, ghosts>>
    BY <2>1, <2>3 DEF FaultInv, TypeInv
  <2> QED BY <2>4, <2>5, OnlyClientsChange
<1> QED BY <1>2, <1>3

\* A woken client takes its message back.
LEMMA ResumesHolds == ASSUME FaultInv, NEW c \in Clients, Resumes(c) PROVE FaultInv'
<1>q. queue' \in Seq(Faults)
  <2>1. PICK i \in 1 .. Len(queue) :
            queue' = SubSeq(queue, 1, i - 1) \o SubSeq(queue, i + 1, Len(queue))
    <3>1. DOMAIN queue = 1 .. Len(queue)
      BY DEF FaultInv, TypeInv
    <3> QED BY ZenonT(60), <3>1 DEF Resumes
  <2>2. SubSeq(queue, 1, i - 1) \in Seq(Faults) /\ SubSeq(queue, i + 1, Len(queue)) \in Seq(Faults)
    BY DEF FaultInv, TypeInv
  <2> QED BY <2>1, <2>2
<1>s. UNCHANGED <<buffers, kernel, want, blocked, holder, ghosts>>
  BY DEF Resumes
<1>w. want' \in [Clients -> Wishes \cup {None}]
  BY <1>s DEF FaultInv, TypeInv
<1> QED BY <1>q, <1>s, <1>w, OnlyClientsChange

\* The userfault thread reads a message.
LEMMA ReadUserfaultHolds == ASSUME FaultInv, ReadUserfault PROVE FaultInv'
<1>h. /\ Head(queue).msg \in Messages
      /\ Tail(queue) \in Seq(Faults)
  <2>1. Head(queue) \in Faults /\ Tail(queue) \in Seq(Faults)
    BY DEF FaultInv, TypeInv, ReadUserfault
  <2> QED BY <2>1 DEF Faults
<1>1. TypeInv'
  BY ZenonT(60), <1>h, FramesAssumption, ValuesAssumption DEF FaultInv, TypeInv, ReadUserfault, Idle
<1>2. OwnershipInv'
  BY DEF FaultInv, TypeInv, OwnershipInv, ReadUserfault, Idle
<1>3. MappingInv'
  BY DEF FaultInv, TypeInv, MappingInv, ReadUserfault, Idle
<1>4. ContentsInv'
  BY DEF FaultInv, TypeInv, ContentsInv, CleanMeansWritten, ReadUserfault, Idle
<1>5. PersistInv'
  BY DEF FaultInv, TypeInv, PersistInv, ReadUserfault, Idle
<1> QED BY <1>1, <1>2, <1>3, <1>4, <1>5 DEF FaultInv

\* Page faults of the region are held off.
LEMMA BlockPfsHolds == ASSUME FaultInv, BlockPfs PROVE FaultInv'
<1>1. TypeInv'
  BY ZenonT(60), FramesAssumption DEF FaultInv, TypeInv, BlockPfs
<1>2. OwnershipInv'
  BY DEF FaultInv, TypeInv, OwnershipInv, BlockPfs
<1>3. MappingInv'
  BY DEF FaultInv, TypeInv, MappingInv, BlockPfs
<1>4. ContentsInv'
  BY DEF FaultInv, TypeInv, ContentsInv, CleanMeansWritten, BlockPfs
<1>5. PersistInv'
  BY DEF FaultInv, TypeInv, PersistInv, BlockPfs
<1> QED BY <1>1, <1>2, <1>3, <1>4, <1>5 DEF FaultInv

\* unfix of a page that is present: the dirty bit is set to the kind of the fault.
LEMMA UnfixPresentHolds == ASSUME FaultInv, UnfixPresent PROVE FaultInv'
<1>m. /\ holder.msg \in Messages /\ Page \in Pages
      /\ holder.msg.minor \in BOOLEAN /\ holder.msg.wp \in BOOLEAN /\ holder.msg.write \in BOOLEAN
  BY MessageRead DEF UnfixPresent
<1>1. TypeInv'
  BY ZenonT(60), <1>m, FramesAssumption DEF FaultInv, TypeInv, UnfixPresent
<1>2. OwnershipInv'
  BY DEF FaultInv, TypeInv, OwnershipInv, UnfixPresent
<1>3. MappingInv'
  BY DEF FaultInv, TypeInv, MappingInv, UnfixPresent
<1>4. ContentsInv'
  BY <1>m DEF FaultInv, TypeInv, OwnershipInv, ContentsInv, CleanMeansWritten, UnfixPresent
<1>5. PersistInv'
  BY DEF FaultInv, TypeInv, PersistInv, UnfixPresent
<1> QED BY <1>1, <1>2, <1>3, <1>4, <1>5 DEF FaultInv

\* swap_in_page_data, and a free frame if there is one.
LEMMA SwapInHolds == ASSUME FaultInv, SwapIn PROVE FaultInv'
<1>m. Page \in Pages /\ holder.msg \in Messages
  BY ZenonT(60), MessageRead DEF SwapIn
<1>h. PICK pc \in {"swap_out", "mmap"}, f \in Frames \cup {None} :
        /\ holder' = [holder EXCEPT !.pc = pc, !.tmp = file[Page], !.frame = f]
        /\ pc = "mmap" => f \in Free
        /\ pc = "swap_out" => Len(used) > 0
  <2>1. CASE Free = {}
    <3>1. holder' = [holder EXCEPT !.pc = "swap_out", !.tmp = file[Page], !.frame = holder.frame]
      BY ZenonT(60), <2>1 DEF FaultInv, TypeInv, SwapIn
    <3>2. Len(used) > 0
      BY <2>1, FramesAssumption DEF FaultInv, TypeInv, Free
    <3>3. holder.frame \in Frames \cup {None}
      BY DEF FaultInv, TypeInv
    <3> QED BY ZenonT(60), <3>1, <3>2, <3>3
  <2>2. CASE Free # {}
    BY ZenonT(60), <2>2 DEF SwapIn, Free
  <2> QED BY ZenonT(60), <2>1, <2>2
<1>1. TypeInv'
  BY ZenonT(60), <1>m, <1>h DEF FaultInv, TypeInv, SwapIn
<1>f. f \in Free => (\A i \in 1 .. Len(used) : used[i] # f) /\ (\A p \in Pages : pte[p] # f)
  BY FramesAssumption DEF FaultInv, TypeInv, OwnershipInv, Free
<1>2. OwnershipInv'
  <2>1. holder'.pc = pc /\ holder'.frame = f /\ holder'.msg = holder.msg
    BY <1>h DEF FaultInv, TypeInv
  <2>2. f \in Free => f \in Frames
    BY DEF Free
  <2>3. UNCHANGED <<pte, used, vma>> /\ pte[Page] = None /\ holder.pc = "unfix"
    BY ZenonT(60) DEF SwapIn
  <2>4. Len(used) > 0 \/ pc = "mmap"
    BY <1>h
  <2> QED BY <1>h, <1>f, <2>1, <2>2, <2>3, <2>4 DEF FaultInv, OwnershipInv
<1>3. MappingInv'
  BY ZenonT(60), <1>h DEF FaultInv, TypeInv, MappingInv, SwapIn
<1>4. ContentsInv'
  BY ZenonT(60), <1>h DEF FaultInv, TypeInv, ContentsInv, CleanMeansWritten, SwapIn
<1>5. PersistInv'
  BY ZenonT(60), <1>h DEF FaultInv, TypeInv, PersistInv, SwapIn
<1> QED BY <1>1, <1>2, <1>3, <1>4, <1>5 DEF FaultInv

\* swap_out_page: the first page of m_used_pages loses its frame and its mappings.
LEMMA SwapOutHolds == ASSUME FaultInv, SwapOut PROVE FaultInv'
<1> DEFINE f == Head(used)
           v == Owner(f)
<1>m. Page \in Pages /\ holder.msg \in Messages
  BY MessageRead DEF SwapOut
<1>u. used \in Seq(Frames) /\ Len(used) > 0 /\ f = used[1] /\ f \in Frames
  BY DEF FaultInv, TypeInv, OwnershipInv, SwapOut
<1>v. v \in Pages /\ pte[v] = f
  <2>1. \E p \in Pages : pte[p] = f
    BY <1>u DEF FaultInv, OwnershipInv, SwapOut
  <2> QED BY <2>1 DEF Owner
<1>w. v # Page /\ f # None
  BY <1>m, <1>u, <1>v, FramesAssumption DEF FaultInv, OwnershipInv, SwapOut
<1>t. /\ Tail(used) \in Seq(Frames) /\ Len(Tail(used)) = Len(used) - 1
      /\ \A i \in 1 .. Len(Tail(used)) : i + 1 \in 1 .. Len(used) /\ Tail(used)[i] = used[i + 1]
      /\ \A i \in 1 .. Len(used) :
            i = 1 \/ (i - 1 \in 1 .. Len(Tail(used)) /\ used[i] = Tail(used)[i - 1])
  BY <1>u
<1>s. /\ holder' = [holder EXCEPT !.pc = "write_out", !.frame = f, !.victim = v]
      /\ pte' = [pte EXCEPT ![v] = None] /\ used' = Tail(used)
      /\ mapped' = mapped \ {v} /\ protected' = protected \ {v}
      /\ access' = [c \in Clients |-> [access[c] EXCEPT ![v] = "none"]]
      /\ UNCHANGED <<dirty, data, file, vma, registered, clients, blocked, ghosts>>
  BY DEF SwapOut, Unmapped
<1> HIDE DEF f, v
<1>1. TypeInv'
  BY ZenonT(60), <1>m, <1>u, <1>v, <1>t, <1>s DEF FaultInv, TypeInv
<1>2. OwnershipInv'
  <2>1. \A i \in 1 .. Len(used') : used'[i] # f
    BY <1>u, <1>t, <1>s, PagesOwnFrames
  <2>2. \A i, j \in 1 .. Len(used') : used'[i] = used'[j] => i = j
    BY <1>u, <1>t, <1>s, PagesOwnFrames
  <2>3. \A p \in Pages : pte'[p] # None => p # v /\ pte'[p] = pte[p] /\ pte[p] # f
    BY <1>v, <1>w, <1>s, PagesOwnFrames DEF FaultInv, TypeInv
  <2>4. \A p \in Pages : pte'[p] # None => \E i \in 1 .. Len(used') : used'[i] = pte'[p]
    <3>1. SUFFICES ASSUME NEW p \in Pages, pte'[p] # None
                   PROVE  \E i \in 1 .. Len(used') : used'[i] = pte'[p]
      OBVIOUS
    <3>2. PICK i \in 1 .. Len(used) : used[i] = pte[p]
      BY <2>3, <3>1, PagesOwnFrames
    <3>3. i - 1 \in 1 .. Len(used') /\ used'[i - 1] = pte'[p]
      BY <1>u, <1>t, <1>s, <2>3, <3>1, <3>2
    <3> QED BY <3>3
  <2>5. \A i \in 1 .. Len(used') : \E p \in Pages : pte'[p] = used'[i]
    <3>1. \A i \in 1 .. Len(used) : \E p \in Pages : pte[p] = used[i]
      BY DEF SwapOut, FaultInv, OwnershipInv
    <3>2. \A p \in Pages : pte[p] # f => pte'[p] = pte[p]
      BY <1>v, <1>s DEF FaultInv, TypeInv
    <3> QED BY <1>t, <1>s, <2>1, <3>1, <3>2
  <2>6. holder'.pc = "write_out" /\ holder'.frame = f /\ holder'.victim = v /\ holder'.msg = holder.msg
    BY <1>s DEF FaultInv, TypeInv
  <2> QED
    <3>1. pte'[Page] = None /\ pte'[v] = None /\ Page' = Page /\ UNCHANGED vma
      BY <1>m, <1>v, <1>s, <2>6 DEF SwapOut, FaultInv, TypeInv, OwnershipInv
    <3>2. \A p, q \in Pages : pte'[p] = pte'[q] /\ pte'[p] # None => p = q
      BY <2>3, PagesOwnFrames
    <3>3. \A p \in Pages : pte'[p] # None => vma[p] = pte'[p] /\ pte'[p] # f
      BY <2>3, PagesOwnFrames
    <3> QED
      BY <1>u, <1>v, <1>w, <2>1, <2>2, <2>4, <2>5, <2>6, <3>1, <3>2, <3>3 DEF OwnershipInv
<1>3. MappingInv'
  BY <1>v, <1>w, <1>s DEF FaultInv, TypeInv, MappingInv, SwapOut
<1>4. ContentsInv'
  BY <1>u, <1>v, <1>w, <1>s DEF FaultInv, TypeInv, ContentsInv, CleanMeansWritten, SwapOut
<1>5. PersistInv'
  BY <1>s DEF FaultInv, TypeInv, PersistInv
<1> QED BY <1>1, <1>2, <1>3, <1>4, <1>5 DEF FaultInv

\* swap_out_page_data: nobody has the page any more.
LEMMA WriteOutHolds == ASSUME FaultInv, WriteOut PROVE FaultInv'
<1>f. file' \in [Pages -> Values]
  BY DEF FaultInv, TypeInv, OwnershipInv, WriteOut
<1>1. TypeInv'
  BY ZenonT(60), <1>f DEF FaultInv, TypeInv, WriteOut
<1>2. OwnershipInv'
  BY DEF FaultInv, TypeInv, OwnershipInv, WriteOut
<1>3. MappingInv'
  BY DEF FaultInv, TypeInv, MappingInv, WriteOut
<1>4. ContentsInv'
  BY DEF FaultInv, TypeInv, OwnershipInv, ContentsInv, CleanMeansWritten, WriteOut
<1>5. PersistInv'
  BY DEF FaultInv, TypeInv, PersistInv, WriteOut
<1> QED BY <1>1, <1>2, <1>3, <1>4, <1>5 DEF FaultInv

\* mmap of the frame at the page's address.
LEMMA MmapHolds == ASSUME FaultInv, Mmap PROVE FaultInv'
<1> DEFINE f == holder.frame
<1>m. Page \in Pages /\ holder.msg \in Messages /\ holder.msg.write \in BOOLEAN
  BY MessageRead DEF Mmap
<1>f. f \in Frames /\ (\A p \in Pages : pte[p] # f) /\ (\A i \in 1 .. Len(used) : used[i] # f)
  BY DEF FaultInv, OwnershipInv, Mmap
<1>l. PICK n \in Nat : Len(used) = n
  BY DEF FaultInv, TypeInv
<1>u. /\ used' \in Seq(Frames) /\ Len(used') = n + 1 /\ used'[n + 1] = f
      /\ \A i \in 1 .. n : used'[i] = used[i]
  BY <1>f, <1>l DEF FaultInv, TypeInv, Mmap
<1>h. /\ holder' \in Holders /\ holder'.pc = "memcpy"
      /\ holder'.frame = holder.frame /\ holder'.msg = holder.msg
  BY ZenonT(60), <1>m DEF FaultInv, TypeInv, Mmap
<1>s. /\ vma' = [vma EXCEPT ![Page] = f] /\ registered' = registered \ {Page}
      /\ mapped' = mapped \ {Page} /\ protected' = protected \ {Page}
      /\ access' = [c \in Clients |-> [access[c] EXCEPT ![Page] = "none"]]
      /\ dirty' = [dirty EXCEPT ![f] = holder.msg.write]
      /\ UNCHANGED <<pte, data, file, clients, blocked, ghosts>>
  BY DEF Mmap, Unmapped
<1>p. pte[Page] = None
  BY DEF FaultInv, OwnershipInv, Mmap
<1> HIDE DEF f
<1>1. TypeInv'
  BY <1>m, <1>f, <1>u, <1>h, <1>s DEF FaultInv, TypeInv
<1>2. OwnershipInv'
  <2>a. /\ \A i, j \in 1 .. n : used[i] = used[j] => i = j
        /\ \A p \in Pages : pte[p] # None => vma[p] = pte[p] /\ \E i \in 1 .. n : used[i] = pte[p]
        /\ \A i \in 1 .. n : \E p \in Pages : pte[p] = used[i]
    BY <1>l DEF FaultInv, OwnershipInv, Mmap
  <2>b. n + 1 \in 1 .. n + 1 /\ \A i \in 1 .. n + 1 : i = n + 1 \/ i \in 1 .. n
    OBVIOUS
  <2>c. \A i \in 1 .. n : i \in 1 .. n + 1
    OBVIOUS
  <2>1. \A i, j \in 1 .. n + 1 : used'[i] = used'[j] => i = j
    <3> SUFFICES ASSUME NEW i \in 1 .. n + 1, NEW j \in 1 .. n + 1, used'[i] = used'[j]
                 PROVE  i = j
      OBVIOUS
    <3>1. \A k \in 1 .. n : used[k] # f
      BY <1>f, <1>l
    <3> QED BY <1>u, <2>a, <3>1
  <2>4. vma'[Page] = f /\ \A p \in Pages : p # Page => vma'[p] = vma[p]
    BY <1>m, <1>s DEF FaultInv, TypeInv
  <2>2. \A p \in Pages : pte[p] # None =>
            vma'[p] = pte[p] /\ \E i \in 1 .. n + 1 : used'[i] = pte[p]
    <3> SUFFICES ASSUME NEW p \in Pages, pte[p] # None
                 PROVE  vma'[p] = pte[p] /\ \E i \in 1 .. n + 1 : used'[i] = pte[p]
      OBVIOUS
    <3>1. PICK i \in 1 .. n : used[i] = pte[p]
      BY <2>a
    <3>2. i \in 1 .. n + 1 /\ used'[i] = pte[p]
      BY <1>u, <2>c, <3>1
    <3> QED BY ZenonT(60), <1>p, <2>a, <2>4, <3>2
  <2>3. \A i \in 1 .. n + 1 : used'[i] = f \/ \E p \in Pages : pte[p] = used'[i]
    BY ZenonT(60), <1>u, <2>a, <2>b
  <2>5. \E i \in 1 .. n + 1 : used'[i] = f
    BY ZenonT(60), <1>u, <2>b
  <2>6. \A p, q \in Pages : pte[p] = pte[q] /\ pte[p] # None => p = q
    BY PagesOwnFrames
  <2>7. f = holder'.frame /\ Page' = Page /\ UNCHANGED pte
    BY <1>h, <1>s DEF f
  <2> QED BY <1>f, <1>h, <1>p, <1>u, <2>1, <2>2, <2>3, <2>4, <2>5, <2>6, <2>7 DEF OwnershipInv
<1>3. MappingInv'
  BY <1>h, <1>s, <1>p DEF FaultInv, TypeInv, MappingInv, Mmap
<1>4. ContentsInv'
  <2>1. /\ \A p \in Pages : pte[p] # None => pte[p] # f /\ dirty'[pte[p]] = dirty[pte[p]]
        /\ mapped' = mapped /\ protected' = protected \ {Page} /\ Page \notin mapped
        /\ \A p \in mapped : p \in Pages /\ pte[p] # None
    BY <1>m, <1>f, <1>s, <1>p DEF FaultInv, TypeInv, MappingInv
  <2>2. holder'.tmp = holder.tmp /\ Page' = Page
    BY <1>h DEF FaultInv, TypeInv, Mmap
  <2> QED
    BY <1>h, <1>s, <2>1, <2>2 DEF FaultInv, ContentsInv, CleanMeansWritten, Mmap
<1>5. PersistInv'
  BY <1>h DEF PersistInv
<1> QED BY <1>1, <1>2, <1>3, <1>4, <1>5 DEF FaultInv

\* The page's contents arrive in the frame.
LEMMA MemcpyHolds == ASSUME FaultInv, Memcpy PROVE FaultInv'
<1>m. /\ holder.msg \in Messages /\ Page \in Pages
      /\ holder.msg.minor \in BOOLEAN /\ holder.msg.wp \in BOOLEAN /\ holder.msg.write \in BOOLEAN
  BY MessageRead DEF Memcpy
<1>1. TypeInv'
  BY ZenonT(60), <1>m, FramesAssumption DEF FaultInv, TypeInv, Memcpy
<1>2. OwnershipInv'
  <2>1. /\ holder.frame \in Frames /\ vma[Page] = holder.frame /\ pte[Page] = None
        /\ \A p \in Pages : pte[p] # holder.frame
    BY DEF FaultInv, OwnershipInv, Memcpy
  <2>2. holder'.pc = "register" /\ holder'.frame = holder.frame /\ holder'.msg = holder.msg
    BY DEF FaultInv, TypeInv, Memcpy
  <2>3. pte' = [pte EXCEPT ![Page] = holder.frame] /\ UNCHANGED <<used, vma>>
    BY DEF Memcpy
  <2>4. pte'[Page] = holder.frame /\ \A p \in Pages : p # Page => pte'[p] = pte[p]
    BY <1>m, <2>3 DEF FaultInv, TypeInv
  <2>5. \E i \in 1 .. Len(used) : used[i] = holder.frame
    BY DEF FaultInv, OwnershipInv, Memcpy
  <2>6. \A p, q \in Pages : pte'[p] = pte'[q] /\ pte'[p] # None => p = q
    BY <2>1, <2>4, PagesOwnFrames
  <2>7. \A p \in Pages : pte'[p] # None =>
            vma[p] = pte'[p] /\ \E i \in 1 .. Len(used) : used[i] = pte'[p]
    BY <2>1, <2>4, <2>5, PagesOwnFrames
  <2>8. \A i \in 1 .. Len(used) : \E p \in Pages : pte'[p] = used[i]
    <3> SUFFICES ASSUME NEW i \in 1 .. Len(used) PROVE \E p \in Pages : pte'[p] = used[i]
      OBVIOUS
    <3>1. CASE used[i] = holder.frame
      BY <1>m, <2>4, <3>1
    <3>2. CASE used[i] # holder.frame
      <4>1. PICK p \in Pages : pte[p] = used[i]
        BY ZenonT(60), <3>2 DEF FaultInv, OwnershipInv
      <4>2. used[i] \in Frames
        BY DEF FaultInv, TypeInv
      <4> QED BY <2>1, <2>4, <4>1, <4>2, FramesAssumption
    <3> QED BY <3>1, <3>2
  <2>9. \A i, j \in 1 .. Len(used) : used[i] = used[j] => i = j
    BY PagesOwnFrames
  <2> QED BY <1>m, <2>1, <2>2, <2>3, <2>4, <2>6, <2>7, <2>8, <2>9, FramesAssumption
     DEF OwnershipInv
<1>3. MappingInv'
  BY <1>m DEF FaultInv, TypeInv, OwnershipInv, MappingInv, Memcpy
<1>4. ContentsInv'
  BY DEF FaultInv, TypeInv, OwnershipInv, ContentsInv, CleanMeansWritten, Memcpy
<1>5. PersistInv'
  BY DEF FaultInv, TypeInv, PersistInv, Memcpy
<1> QED BY <1>1, <1>2, <1>3, <1>4, <1>5 DEF FaultInv

\* The new mapping is registered, while the region is still blocked.
LEMMA RegisterHolds == ASSUME FaultInv, Register PROVE FaultInv'
<1>1. TypeInv'
  BY ZenonT(60), FramesAssumption DEF FaultInv, TypeInv, Register
<1>2. OwnershipInv'
  BY DEF FaultInv, TypeInv, OwnershipInv, Register
<1>3. MappingInv'
  BY DEF FaultInv, TypeInv, MappingInv, Register
<1>4. ContentsInv'
  BY DEF FaultInv, TypeInv, OwnershipInv, ContentsInv, CleanMeansWritten, Register
<1>5. PersistInv'
  BY DEF FaultInv, TypeInv, PersistInv, Register
<1> QED BY <1>1, <1>2, <1>3, <1>4, <1>5 DEF FaultInv

\* A page that was brought in for reading is protected before anyone reaches it.
LEMMA ProtectHolds == ASSUME FaultInv, Protect PROVE FaultInv'
<1>m. /\ holder.msg \in Messages /\ Page \in Pages
      /\ holder.msg.minor \in BOOLEAN /\ holder.msg.wp \in BOOLEAN /\ holder.msg.write \in BOOLEAN
  BY MessageRead DEF Protect, writeprotect_userfaultfd
<1>1. TypeInv'
  BY ZenonT(60), <1>m, FramesAssumption DEF FaultInv, TypeInv, Protect, writeprotect_userfaultfd
<1>2. OwnershipInv'
  BY DEF FaultInv, TypeInv, OwnershipInv, Protect, writeprotect_userfaultfd
<1>3. MappingInv'
  BY DEF FaultInv, TypeInv, MappingInv, Protect, writeprotect_userfaultfd
<1>4. ContentsInv'
  BY DEF FaultInv, TypeInv, MappingInv, ContentsInv, CleanMeansWritten, Protect,
         writeprotect_userfaultfd
<1>5. PersistInv'
  BY DEF FaultInv, TypeInv, PersistInv, Protect, writeprotect_userfaultfd
<1> QED BY <1>1, <1>2, <1>3, <1>4, <1>5 DEF FaultInv

\* UFFDIO_CONTINUE of a page that is present.
LEMMA ContinueHolds == ASSUME FaultInv, Continue PROVE FaultInv'
<1>m. /\ holder.msg \in Messages /\ Page \in Pages
      /\ holder.msg.minor \in BOOLEAN /\ holder.msg.wp \in BOOLEAN /\ holder.msg.write \in BOOLEAN
  BY MessageRead DEF Continue
<1>1. TypeInv'
  BY ZenonT(60), <1>m, FramesAssumption DEF FaultInv, TypeInv, Continue
<1>2. OwnershipInv'
  BY DEF FaultInv, TypeInv, OwnershipInv, Continue
<1>3. MappingInv'
  BY DEF FaultInv, TypeInv, OwnershipInv, MappingInv, Continue
<1>4. ContentsInv'
  BY <1>m DEF FaultInv, TypeInv, OwnershipInv, MappingInv, ContentsInv, CleanMeansWritten, Continue
<1>5. PersistInv'
  BY DEF FaultInv, TypeInv, PersistInv, Continue
<1> QED BY <1>1, <1>2, <1>3, <1>4, <1>5 DEF FaultInv

\* mark_dirty, or nothing if the page has gone since the fault.
LEMMA MarkDirtyHolds == ASSUME FaultInv, mark_dirty PROVE FaultInv'
<1>m. Page \in Pages /\ holder.msg \in Messages
  BY MessageRead DEF mark_dirty
<1>h. PICK pc \in {"unprotect", "unblock"} :
        /\ holder' = [holder EXCEPT !.pc = pc]
        /\ pc = "unprotect" => pte[Page] \in Frames /\ dirty' = [dirty EXCEPT ![pte[Page]] = TRUE]
        /\ pc = "unblock" => dirty' = dirty
  BY <1>m DEF FaultInv, TypeInv, mark_dirty
<1>1. TypeInv'
  BY ZenonT(60), <1>h DEF FaultInv, TypeInv, mark_dirty
<1>2. OwnershipInv'
  BY <1>h DEF FaultInv, TypeInv, OwnershipInv, mark_dirty
<1>3. MappingInv'
  BY <1>h DEF FaultInv, TypeInv, MappingInv, mark_dirty
<1>4. ContentsInv'
  <2>1. \A f \in Frames : dirty[f] => dirty'[f]
    BY ZenonT(60), <1>h DEF FaultInv, TypeInv
  <2>2. holder'.pc = pc /\ holder'.msg = holder.msg
    BY <1>h DEF FaultInv, TypeInv
  <2>3. \A p \in Pages : pte[p] # None => pte[p] \in Frames
    BY DEF FaultInv, TypeInv
  <2>4. pc = "unprotect" => dirty'[pte[Page]]
    BY <1>h DEF FaultInv, TypeInv
  <2> QED BY <1>h, <2>1, <2>2, <2>3, <2>4
     DEF FaultInv, TypeInv, MappingInv, ContentsInv, CleanMeansWritten, mark_dirty
<1>5. PersistInv'
  BY <1>h DEF FaultInv, TypeInv, PersistInv, mark_dirty
<1> QED BY <1>1, <1>2, <1>3, <1>4, <1>5 DEF FaultInv

\* The protection is lifted from a page that is dirty now.
LEMMA UnprotectHolds == ASSUME FaultInv, Unprotect PROVE FaultInv'
<1>1. TypeInv'
  BY ZenonT(60), FramesAssumption DEF FaultInv, TypeInv, Unprotect
<1>2. OwnershipInv'
  BY DEF FaultInv, TypeInv, OwnershipInv, Unprotect
<1>3. MappingInv'
  BY DEF FaultInv, TypeInv, MappingInv, Unprotect
<1>4. ContentsInv'
  BY DEF FaultInv, TypeInv, ContentsInv, CleanMeansWritten, Unprotect
<1>5. PersistInv'
  BY DEF FaultInv, TypeInv, PersistInv, Unprotect
<1> QED BY <1>1, <1>2, <1>3, <1>4, <1>5 DEF FaultInv

\* Page faults of the region go on.
LEMMA UnblockPfsHolds == ASSUME FaultInv, UnblockPfs PROVE FaultInv'
<1>1. TypeInv'
  BY ZenonT(60), FramesAssumption DEF FaultInv, TypeInv, UnblockPfs
<1>2. OwnershipInv'
  BY DEF FaultInv, TypeInv, OwnershipInv, UnblockPfs
<1>3. MappingInv'
  BY DEF FaultInv, TypeInv, MappingInv, UnblockPfs
<1>4. ContentsInv'
  BY DEF FaultInv, TypeInv, ContentsInv, CleanMeansWritten, UnblockPfs
<1>5. PersistInv'
  BY DEF FaultInv, TypeInv, PersistInv, UnblockPfs
<1> QED BY <1>1, <1>2, <1>3, <1>4, <1>5 DEF FaultInv

\* Clients that wait for the page are woken, and m_mutex is released.
LEMMA WakeHolds == ASSUME FaultInv, Wake PROVE FaultInv'
<1>w. want' \in [Clients -> Wishes \cup {None}]
  BY ZenonT(60) DEF FaultInv, TypeInv, Wishes, Wake, Woken
<1>1. TypeInv'
  BY <1>w, FramesAssumption, ValuesAssumption DEF FaultInv, TypeInv, Wake, Idle
<1>2. OwnershipInv'
  BY DEF FaultInv, TypeInv, OwnershipInv, Wake, Idle, Woken
<1>3. MappingInv'
  BY DEF FaultInv, TypeInv, MappingInv, Wake, Idle, Woken
<1>4. ContentsInv'
  BY DEF FaultInv, TypeInv, ContentsInv, CleanMeansWritten, Wake, Idle, Woken
<1>5. PersistInv'
  BY DEF FaultInv, TypeInv, PersistInv, Wake, Idle, Woken
<1> QED BY <1>1, <1>2, <1>3, <1>4, <1>5 DEF FaultInv

\* persist takes m_mutex.
LEMMA PersistHolds == ASSUME FaultInv, NEW p \in Pages, Persist(RegionOf[p]) PROVE FaultInv'
<1>1. TypeInv'
  BY ZenonT(60), ValuesAssumption DEF FaultInv, TypeInv, Persist, Idle
<1>2. OwnershipInv'
  BY DEF FaultInv, TypeInv, OwnershipInv, Persist, Idle
<1>3. MappingInv'
  BY DEF FaultInv, TypeInv, MappingInv, Persist, Idle
<1>4. ContentsInv'
  BY DEF FaultInv, TypeInv, ContentsInv, CleanMeansWritten, Persist, Idle
<1>5. PersistInv'
  BY DEF FaultInv, TypeInv, PersistInv, Persist, Idle
<1> QED BY <1>1, <1>2, <1>3, <1>4, <1>5 DEF FaultInv

\* persist protects one page after the other.
LEMMA PersistProtectHolds == ASSUME FaultInv, NEW p \in Pages, PersistProtect(p) PROVE FaultInv'
<1>1. TypeInv'
  BY ZenonT(60) DEF FaultInv, TypeInv, PersistProtect, Persisted, writeprotect_userfaultfd
<1>2. OwnershipInv'
  BY DEF FaultInv, TypeInv, OwnershipInv, PersistProtect, Persisted, writeprotect_userfaultfd
<1>3. MappingInv'
  BY DEF FaultInv, TypeInv, MappingInv, PersistProtect, Persisted, writeprotect_userfaultfd
<1>4. ContentsInv'
  BY DEF FaultInv, TypeInv, ContentsInv, CleanMeansWritten, PersistProtect, Persisted,
         writeprotect_userfaultfd
<1>5. PersistInv'
  BY DEF FaultInv, TypeInv, MappingInv, PersistInv, PersistProtect, Persisted,
         writeprotect_userfaultfd
<1> QED BY <1>1, <1>2, <1>3, <1>4, <1>5 DEF FaultInv

\* persist writes a dirty page that is protected.
LEMMA PersistWriteHolds == ASSUME FaultInv, NEW p \in Pages, PersistWrite(p) PROVE FaultInv'
<1>1. CASE pte[p] # None /\ dirty[pte[p]]
  <2>1. /\ file' = [file EXCEPT ![p] = data[pte[p]]]
        /\ holder' = [holder EXCEPT !.pc = "persist_clean", !.victim = p]
    BY <1>1 DEF PersistWrite
  <2>2. TypeInv'
    BY ZenonT(60), <1>1, <2>1 DEF FaultInv, TypeInv, PersistWrite
  <2>3. OwnershipInv'
    BY <2>1 DEF FaultInv, TypeInv, OwnershipInv, PersistWrite
  <2>4. MappingInv'
    BY <2>1 DEF FaultInv, TypeInv, MappingInv, PersistWrite
  <2>5. ContentsInv'
    BY <1>1, <2>1 DEF FaultInv, TypeInv, ContentsInv, CleanMeansWritten, PersistWrite
  <2>6. PersistInv'
    BY <1>1, <2>1 DEF FaultInv, TypeInv, ContentsInv, PersistInv, PersistWrite
  <2> QED BY <2>2, <2>3, <2>4, <2>5, <2>6 DEF FaultInv
<1>2. CASE ~(pte[p] # None /\ dirty[pte[p]])
  <2>1. holder' = [holder EXCEPT !.left = holder.left \ {p}] /\ file' = file
    BY <1>2 DEF PersistWrite
  <2>2. TypeInv'
    BY ZenonT(60), <2>1 DEF FaultInv, TypeInv, PersistWrite
  <2>3. OwnershipInv'
    BY <2>1 DEF FaultInv, TypeInv, OwnershipInv, PersistWrite
  <2>4. MappingInv'
    BY <2>1 DEF FaultInv, TypeInv, MappingInv, PersistWrite
  <2>5. ContentsInv'
    BY <2>1 DEF FaultInv, TypeInv, ContentsInv, CleanMeansWritten, PersistWrite
  <2>6. PersistInv'
    BY <2>1 DEF FaultInv, TypeInv, PersistInv, PersistWrite
  <2> QED BY <2>2, <2>3, <2>4, <2>5, <2>6 DEF FaultInv
<1> QED BY <1>1, <1>2

\* The page is clean then: it was protected all the time.
LEMMA PersistCleanHolds == ASSUME FaultInv, PersistClean PROVE FaultInv'
<1>1. TypeInv'
  BY ZenonT(60) DEF FaultInv, TypeInv, PersistClean
<1>2. OwnershipInv'
  BY DEF FaultInv, TypeInv, OwnershipInv, PersistClean
<1>3. MappingInv'
  BY DEF FaultInv, TypeInv, MappingInv, PersistClean
<1>4. ContentsInv'
  BY DEF FaultInv, TypeInv, OwnershipInv, ContentsInv, CleanMeansWritten, PersistInv, PersistClean
<1>5. PersistInv'
  BY DEF FaultInv, TypeInv, PersistInv, PersistClean
<1> QED BY <1>1, <1>2, <1>3, <1>4, <1>5 DEF FaultInv

\* persist returns.
LEMMA PersistEndsHolds == ASSUME FaultInv, PersistEnds PROVE FaultInv'
<1>1. TypeInv'
  BY ZenonT(60), ValuesAssumption DEF FaultInv, TypeInv, PersistEnds, Idle
<1>p. holder.pc = "persist_write" /\ holder'.pc = "idle" /\ UNCHANGED <<pte, vma, used>>
  BY DEF PersistEnds, Idle
<1>2. OwnershipInv'
  <2>1. /\ \A p, q \in Pages : pte[p] = pte[q] /\ pte[p] # None => p = q
        /\ \A p \in Pages : pte[p] # None =>
              vma[p] = pte[p] /\ \E i \in 1 .. Len(used) : used[i] = pte[p]
        /\ \A i, j \in 1 .. Len(used) : used[i] = used[j] => i = j
        /\ \A i \in 1 .. Len(used) : \E p \in Pages : pte[p] = used[i]
    BY <1>p DEF FaultInv, OwnershipInv
  <2> QED BY <1>p, <2>1 DEF OwnershipInv
<1>3. MappingInv'
  BY ZenonT(60) DEF FaultInv, TypeInv, MappingInv, PersistEnds, Idle
<1>4. ContentsInv'
  BY ZenonT(60) DEF FaultInv, TypeInv, ContentsInv, CleanMeansWritten, PersistEnds, Idle
<1>5. PersistInv'
  BY ZenonT(60) DEF FaultInv, TypeInv, PersistInv, PersistEnds, Idle
<1> QED BY <1>1, <1>2, <1>3, <1>4, <1>5 DEF FaultInv

\* Every step of clients, userfault thread and persist.
LEMMA NextFaults == FaultInv /\ [Next]_vars => FaultInv'
<1> SUFFICES ASSUME FaultInv, [Next]_vars PROVE FaultInv'
  OBVIOUS
<1>1. ASSUME UNCHANGED vars PROVE FaultInv'
  <2>1. want' \in [Clients -> Wishes \cup {None}] /\ queue' \in Seq(Faults)
    BY <1>1 DEF vars, FaultInv, TypeInv
  <2>2. UNCHANGED <<buffers, kernel, blocked, holder, ghosts>>
    BY <1>1 DEF vars
  <2> QED BY <2>1, <2>2, OnlyClientsChange
<1>2. ASSUME HandleStep PROVE FaultInv'
  BY <1>2, BlockPfsHolds, UnfixPresentHolds, SwapInHolds, SwapOutHolds, WriteOutHolds, MmapHolds,
     MemcpyHolds, RegisterHolds, ProtectHolds, ContinueHolds, MarkDirtyHolds, UnprotectHolds,
     UnblockPfsHolds, WakeHolds DEF HandleStep
<1>3. ASSUME PersistStep PROVE FaultInv'
  BY <1>3, PersistProtectHolds, PersistWriteHolds, PersistCleanHolds, PersistEndsHolds
     DEF PersistStep
<1> QED
  BY <1>1, <1>2, <1>3, WantsHolds, AccessHolds, FaultHolds, ResumesHolds, ReadUserfaultHolds,
     PersistHolds DEF Next

\* The invariant holds between any two system calls of the manager.
THEOREM FaultsHold == Spec => []FaultInv
BY InitFaults, NextFaults, PTL DEF Spec

\* Clients only reach the frame that holds their page, and find in it what was last
\* written, at every point of handle_userfault and persist.
THEOREM PagesAreSeen == Spec => []ClientsSeeTheirPages
<1>1. FaultInv => ClientsSeeTheirPages
  BY ZenonT(60) DEF FaultInv, OwnershipInv, MappingInv, ContentsInv, ClientsSeeTheirPages
<1> QED BY <1>1, FaultsHold, PTL

\* A page that a client can write to without a fault has its dirty bit set, by unfix
\* or mark_dirty, unless a repeated read fault cleared it.
THEOREM WritesAreSeen == Spec => []WritesAreNoticed
<1>1. FaultInv => WritesAreNoticed
  BY ZenonT(60) DEF FaultInv, MappingInv, ContentsInv, WritesAreNoticed
<1> QED BY <1>1, FaultsHold, PTL

\* A clean page can be dropped by swap_out_page: its file has its contents, with
\* clients running during persist.
THEOREM CleanPagesAreWritten == Spec => []CleanMeansWritten
<1>1. FaultInv => CleanMeansWritten
  BY DEF FaultInv, ContentsInv
<1> QED BY <1>1, FaultsHold, PTL

(***************************************************************************)
(* The loops that move a page to and from its file: PageIo, as Io.         *)
(***************************************************************************)

\* Where byte j of page p is in the file.
Place(p, j) == p * PageSize + j

\* Loops with an index in I.
Loops(I) == [kind : {"none", "init", "out", "in"}, page : Io!Pages, v : Io!Versions, i : I,
             failed : BOOLEAN, short : BOOLEAN]

\* Loops in which no call has failed have written what lies behind them, or read
\* nothing yet; the loop that ended before this one was about an earlier page.
IoTypes ==
    /\ DOMAIN io_file = 0..(NPages * PageSize - 1) /\ room \in [Io!Pages -> 0..PageSize]
    /\ op \in Loops(Io!Offsets) /\ last \in Loops({0})
BehindIndex ==
    /\ op.kind \in {"init", "out"} /\ ~op.failed =>
           \A j \in Io!Offsets : j < op.i => io_file[Place(op.page, j)] = [v |-> op.v, j |-> j]
    /\ op.kind = "in" /\ ~op.short => op.i = 0
LastIsOver ==
    /\ op.kind \in {"out", "in"} => last.kind = "none"
    /\ op.kind = "init" => last.kind = "none" \/ (last.kind = "init" /\ last.page < op.page)
IoInv == IoTypes /\ Io!WrittenInPlace /\ BehindIndex /\ LastIsOver /\ Io!CompleteUnlessFailed

\* Remainders are unique.
LEMMA Remainders ==
    ASSUME NEW b \in Nat \ {0}, NEW q \in Int, NEW p \in Int, NEW r \in 0..(b - 1), NEW s \in 0..(b - 1),
           q * b + r = p * b + s
    PROVE  q = p /\ r = s
<1>1. ASSUME NEW x \in Int, NEW y \in Int, x < y PROVE x * b + b <= y * b
  <2>1. PICK d \in Nat : y = x + 1 + d
    BY <1>1
  <2>2. y * b = x * b + b + d * b /\ d * b >= 0
    BY <2>1
  <2> QED BY <2>2
<1>2. ~(q < p)
  BY <1>1
<1>3. ~(p < q)
  BY <1>1
<1> QED BY <1>2, <1>3

\* The remainder of what is a multiple and a rest.
LEMMA RemainderOf ==
    ASSUME NEW b \in Nat \ {0}, NEW p \in Int, NEW s \in 0..(b - 1)
    PROVE  (p * b + s) % b = s
<1>1. PICK a \in Int : a = p * b + s
  OBVIOUS
<1>2. a = (a \div b) * b + (a % b) /\ a \div b \in Int /\ a % b \in 0..(b - 1)
  BY <1>1
<1>3. PICK q \in Int, r \in 0..(b - 1) : q = a \div b /\ r = a % b
  BY <1>2
<1>4. q * b + r = p * b + s
  BY <1>1, <1>2, <1>3
<1>5. r = s
  BY <1>4, Remainders, SMTT(30)
<1> QED BY <1>1, <1>3, <1>5

\* Places in the file are apart, and their remainder is the place in the page.
LEMMA Places ==
    ASSUME Io!Sized, NEW p \in Io!Pages, NEW j \in Io!Offsets
    PROVE  /\ Place(p, j) \in 0..(NPages * PageSize - 1) /\ Place(p, j) % PageSize = j
           /\ \A r \in Io!Pages, k \in Io!Offsets : Place(r, k) = Place(p, j) => r = p /\ k = j
<1>1. PageSize \in Nat \ {0} /\ NPages \in Nat /\ p \in 0..(NPages - 1) /\ j \in 0..(PageSize - 1)
  BY DEF Io!Sized, Io!Pages, Io!Offsets
<1>2. Place(p, j) \in 0..(NPages * PageSize - 1)
  <2>1. PICK d \in Nat : NPages = p + 1 + d
    BY <1>1
  <2>2. NPages * PageSize = p * PageSize + PageSize + d * PageSize /\ d * PageSize \in Nat /\ p * PageSize \in Nat
    BY <1>1, <2>1
  <2> QED BY <1>1, <2>2 DEF Place
<1>3. Place(p, j) % PageSize = j
  BY <1>1, RemainderOf DEF Place
<1>4. ASSUME NEW r \in Io!Pages, NEW k \in Io!Offsets, Place(r, k) = Place(p, j) PROVE r = p /\ k = j
  <2>1. r \in Int /\ p \in Int /\ k \in 0..(PageSize - 1)
    BY <1>1 DEF Io!Pages, Io!Offsets
  <2> QED BY <1>1, <1>4, <2>1, Remainders DEF Place
<1> QED BY <1>2, <1>3, <1>4

\* The index after a call that wrote, and after one that failed.
LEMMA Indices ==
    ASSUME Io!Sized, NEW i \in Io!Offsets
    PROVE  /\ \A n \in 1..(PageSize - i) : (i + n) % 2^Width = i + n
           /\ IF i = 0 THEN Io!AfterError(i) >= PageSize ELSE Io!AfterError(i) = i - 1
<1> DEFINE W == 2^Width
<1>1. W \in Nat \ {0} /\ PageSize < W /\ PageSize \in Nat /\ i \in 0..(PageSize - 1)
  BY DEF Io!Sized, Io!Offsets
<1>2. Io!AfterError(i) = (i - 1) % W
  BY DEF Io!AfterError
<1> HIDE DEF W
<1>3. ASSUME NEW n \in 1..(PageSize - i) PROVE (i + n) % W = i + n
  <2>1. i + n \in 0..(W - 1) /\ 0 * W + (i + n) = i + n
    BY <1>1
  <2> QED BY <1>1, <2>1, RemainderOf
<1>4. i # 0 => (i - 1) % W = i - 1
  <2>1. i # 0 => i - 1 \in 0..(W - 1) /\ 0 * W + (i - 1) = i - 1
    BY <1>1
  <2> QED BY <1>1, <2>1, RemainderOf
<1>5. i = 0 => (i - 1) % W = W - 1
  <2>1. W - 1 \in 0..(W - 1) /\ (-1) * W + (W - 1) = 0 - 1
    BY <1>1
  <2>2. ((-1) * W + (W - 1)) % W = W - 1
    BY <1>1, <2>1, RemainderOf
  <2> QED BY <2>1, <2>2
<1> QED BY <1>1, <1>2, <1>3, <1>4, <1>5 DEF W

\* What pwrite leaves in the file.
LEMMA WrittenAt ==
    ASSUME Io!Sized, IoTypes, NEW n \in 1..(PageSize - op.i)
    PROVE  /\ DOMAIN Io!Written(n) = DOMAIN io_file
           /\ \A q \in DOMAIN io_file :
                  \/ Io!Written(n)[q] = io_file[q]
                  \/ \E j \in Io!Offsets : q = Place(op.page, j) /\ Io!Written(n)[q] = [v |-> op.v, j |-> j]
           /\ \A j \in Io!Offsets : op.i <= j /\ j < op.i + n =>
                  Io!Written(n)[Place(op.page, j)] = [v |-> op.v, j |-> j]
           /\ \A r \in Io!Pages, j \in Io!Offsets : r # op.page \/ j < op.i =>
                  Io!Written(n)[Place(r, j)] = io_file[Place(r, j)]
<1> DEFINE new == Io!Written(n)
           b == Place(op.page, 0)
<1>1. /\ PageSize \in Nat \ {0} /\ op.i \in 0..(PageSize - 1) /\ op.page \in Io!Pages
      /\ 0 \in Io!Offsets /\ DOMAIN io_file = 0..(NPages * PageSize - 1)
  <2>1. op.i \in Io!Offsets /\ op.page \in Io!Pages /\ DOMAIN io_file = 0..(NPages * PageSize - 1)
    BY ZenonT(60) DEF IoTypes, Loops
  <2> QED BY SMTT(30), <2>1 DEF Io!Sized, Io!Offsets
<1>2. b \in Int /\ \A j : Place(op.page, j) = b + j
  <2>1. op.page * PageSize \in Int
    BY <1>1 DEF Io!Pages, Io!Sized
  <2>2. \A x \in Int : \A j : x + j = x + 0 + j
    OBVIOUS
  <2> QED BY <2>1, <2>2 DEF Place
<1>3. DOMAIN new = DOMAIN io_file /\ \A q \in DOMAIN io_file :
          new[q] = IF q - (b + op.i) \in 0..(n - 1) THEN [v |-> op.v, j |-> op.i + (q - (b + op.i))]
                   ELSE io_file[q]
  BY <1>1, <1>2 DEF Io!Written, Place
<1> HIDE DEF new, b
<1>4. ASSUME NEW q \in DOMAIN io_file
      PROVE  \/ new[q] = io_file[q]
             \/ \E j \in Io!Offsets : q = Place(op.page, j) /\ new[q] = [v |-> op.v, j |-> j]
  <2>1. CASE q - (b + op.i) \in 0..(n - 1)
    <3>0. PICK x \in 0..(n - 1) : q = b + op.i + x
      BY <1>1, <1>2, <2>1
    <3>1. q - b \in Io!Offsets /\ b + (q - b) = q /\ op.i + (q - (b + op.i)) = q - b
      BY <1>1, <1>2, <3>0 DEF Io!Offsets
    <3>2. q = Place(op.page, q - b)
      BY <1>2, <3>1
    <3> QED BY <1>3, <2>1, <3>1, <3>2
  <2>2. CASE q - (b + op.i) \notin 0..(n - 1)
    BY <1>3, <2>2
  <2> QED BY <2>1, <2>2, ZenonT(60)
<1>5. ASSUME NEW j \in Io!Offsets, op.i <= j, j < op.i + n
      PROVE  new[Place(op.page, j)] = [v |-> op.v, j |-> j]
  <2>1. PICK q \in DOMAIN io_file : q = Place(op.page, j) /\ q = b + j
    BY <1>1, <1>2, Places
  <2>2. q - (b + op.i) \in 0..(n - 1) /\ op.i + (q - (b + op.i)) = j
    BY <1>1, <1>2, <1>5, <2>1 DEF Io!Offsets
  <2>3. new[q] = [v |-> op.v, j |-> j]
    BY <1>3, <2>2, ZenonT(60)
  <2> QED BY <2>1, <2>3, ZenonT(60)
<1>6. ASSUME NEW r \in Io!Pages, NEW j \in Io!Offsets, r # op.page \/ j < op.i
      PROVE  new[Place(r, j)] = io_file[Place(r, j)]
  <2>1. Place(r, j) \in DOMAIN io_file
    BY <1>1, Places
  <2>2. Place(r, j) - (b + op.i) \notin 0..(n - 1)
    <3>1. SUFFICES ASSUME Place(r, j) - (b + op.i) \in 0..(n - 1) PROVE FALSE
      OBVIOUS
    <3>2. Place(r, j) \in Int
      BY <1>1, <2>1
    <3>x. PICK x \in 0..(n - 1) : Place(r, j) = b + op.i + x
      BY <1>1, <1>2, <3>1, <3>2
    <3>3. Place(r, j) - b \in Io!Offsets /\ Place(r, j) - b >= op.i /\ Place(r, j) = b + (Place(r, j) - b)
      BY <1>1, <1>2, <3>x DEF Io!Offsets
    <3>4. Place(r, j) = Place(op.page, Place(r, j) - b)
      BY <1>2, <3>3
    <3>5. r = op.page /\ j = Place(r, j) - b
      BY <1>1, <3>3, <3>4, Places
    <3> QED BY <1>1, <1>6, <3>3, <3>5 DEF Io!Offsets
  <2> QED BY <1>3, <2>1, <2>2
<1> QED BY <1>3, <1>4, <1>5, <1>6 DEF new

\* What a call leaves behind when it moves the loop on to o: what it wrote is in
\* place, the last call of a read that was never short has read the page.
Moves(o) ==
    /\ DOMAIN io_file' = DOMAIN io_file /\ Io!WrittenInPlace' /\ room' = room
    /\ op.kind # "none" /\ o.kind = op.kind /\ o.page = op.page /\ o \in Loops(Nat)
    /\ o.kind \in {"init", "out"} /\ ~o.failed =>
           \A j \in Io!Offsets : j < o.i => io_file'[Place(o.page, j)] = [v |-> o.v, j |-> j]
    /\ o.kind = "in" /\ ~o.short =>
           o.i = 0 \/ (o.i >= PageSize /\ m_tmp_page' = Io!PageAt(o.page, io_file'))
    /\ \A r \in Io!Pages : r # op.page => Io!PageAt(r, io_file') = Io!PageAt(r, io_file)

\* Idle is a loop that has not begun.
LEMMA IdleLoop ==
    ASSUME Io!Sized
    PROVE  /\ 0 \in Io!Pages /\ 0 \in Io!Offsets /\ Io!Idle \in Loops({0}) /\ Io!Idle \in Loops(Io!Offsets)
           /\ Io!Idle.kind = "none" /\ Io!Idle.i = 0 /\ ~Io!Idle.failed
<1>1. 0 \in Io!Pages /\ 0 \in Io!Offsets
  BY SMTT(30) DEF Io!Sized, Io!Pages, Io!Offsets
<1> QED BY <1>1, ZenonT(60) DEF Loops, Io!Idle, Io!Versions

\* The loop goes on, or ends and the next one begins.
LEMMA ContinueKeeps ==
    ASSUME Io!Sized, IoInv, NEW o, Moves(o), Io!Continue(o)
    PROVE  IoInv'
<1>0. /\ o \in Loops(Nat) /\ o.i \in Nat /\ PageSize \in Nat \ {0} /\ o.page \in Io!Pages
      /\ op.kind \in {"none", "init", "out", "in"}
  BY ZenonT(60) DEF Moves, Loops, Io!Sized, IoInv, IoTypes
<1>1. CASE o.i < PageSize
  <2>1. op' = o /\ last' = last
    BY <1>1 DEF Io!Continue
  <2>2. o.i \in Io!Offsets /\ ~(o.i >= PageSize)
    BY SMTT(30), <1>0, <1>1 DEF Io!Offsets
  <2>3. IoTypes'
    <3>1. o \in Loops(Io!Offsets)
      BY <1>0, <2>2, ZenonT(60) DEF Loops
    <3> QED BY <2>1, <3>1, ZenonT(60) DEF Moves, IoInv, IoTypes
  <2>4. BehindIndex'
    BY <2>1, <2>2, ZenonT(60) DEF Moves, BehindIndex
  <2>5. LastIsOver'
    BY <2>1, ZenonT(60) DEF Moves, IoInv, LastIsOver
  <2>6. Io!CompleteUnlessFailed'
    <3>1. last.kind = "none" \/ (last.kind = "init" /\ last.page < op.page)
      BY <1>0, ZenonT(60) DEF Moves, IoInv, LastIsOver
    <3>2. CASE last.kind = "none"
      BY <2>1, <3>2, ZenonT(60) DEF Io!CompleteUnlessFailed
    <3>3. CASE last.kind = "init" /\ last.page < op.page
      <4>1. last.page # op.page /\ last.page \in Io!Pages
        BY SMTT(30), <3>3 DEF IoInv, IoTypes, Loops, Io!Pages
      <4>2. Io!PageAt(last.page, io_file') = Io!PageAt(last.page, io_file)
        BY <4>1, ZenonT(60) DEF Moves
      <4> QED BY <2>1, <3>3, <4>2, ZenonT(60) DEF IoInv, Io!CompleteUnlessFailed
    <3> QED BY <3>1, <3>2, <3>3, ZenonT(60)
  <2> QED BY <2>3, <2>4, <2>5, <2>6, ZenonT(60) DEF Moves, IoInv
<1>2. CASE ~(o.i < PageSize)
  <2> DEFINE next == [Io!Idle EXCEPT !.kind = "init", !.page = o.page + 1]
  <2>1. /\ last' = [o EXCEPT !.i = 0]
        /\ (op' = next /\ o.kind = "init" /\ o.page + 1 < NPages) \/ op' = Io!Idle
    BY <1>2, ZenonT(60) DEF Io!Continue
  <2>2. /\ last' \in Loops({0}) /\ last'.kind = o.kind /\ last'.page = o.page /\ last'.v = o.v
        /\ last'.failed = o.failed /\ last'.short = o.short
    BY <1>0, <2>1, ZenonT(60) DEF Loops
  <2>3. o.page + 1 < NPages => o.page + 1 \in Io!Pages /\ o.page < o.page + 1
    BY SMTT(30), <1>0 DEF Io!Pages, Io!Sized
  <2>4. /\ next.kind = "init" /\ next.page = o.page + 1 /\ next.i = 0
        /\ o.page + 1 < NPages => next \in Loops(Io!Offsets)
    BY <2>3, IdleLoop, ZenonT(60) DEF Loops, Io!Idle, Io!Versions
  <2> HIDE DEF next
  <2>5. op' \in Loops(Io!Offsets) /\ op'.i = 0
    BY <2>1, <2>4, IdleLoop, ZenonT(60)
  <2>6. IoTypes'
    BY <2>2, <2>5, ZenonT(60) DEF Moves, IoInv, IoTypes
  <2>7. BehindIndex'
    <3>1. \A j \in Io!Offsets : ~(j < 0)
      BY SMTT(30), <1>0 DEF Io!Offsets
    <3> QED BY <2>5, <3>1, ZenonT(60) DEF BehindIndex
  <2>8. LastIsOver'
    <3>1. op'.kind = "none" \/ (op'.kind = "init" /\ last'.kind = "init" /\ last'.page < op'.page)
      BY <2>1, <2>2, <2>3, <2>4, IdleLoop, ZenonT(60)
    <3> QED BY <3>1, ZenonT(60) DEF LastIsOver
  <2>9. Io!CompleteUnlessFailed'
    <3>1. ASSUME ~o.failed, o.kind \in {"init", "out"} PROVE Io!PageAt(o.page, io_file') = Io!Of(o.v)
      <4>1. \A j \in Io!Offsets : j < o.i
        BY SMTT(30), <1>0, <1>2 DEF Io!Offsets
      <4>2. \A j \in Io!Offsets : io_file'[Place(o.page, j)] = [v |-> o.v, j |-> j]
        BY <3>1, <4>1, ZenonT(60) DEF Moves
      <4> QED BY <4>2, ZenonT(60) DEF Io!PageAt, Io!Of, Place
    <3>2. ASSUME o.kind = "in", ~o.short PROVE m_tmp_page' = Io!PageAt(o.page, io_file')
      <4>1. o.i # 0
        BY SMTT(30), <1>0, <1>2
      <4> QED BY <3>2, <4>1, ZenonT(60) DEF Moves
    <3> QED BY <2>2, <3>1, <3>2, ZenonT(60) DEF Io!CompleteUnlessFailed
  <2> QED BY <2>6, <2>7, <2>8, <2>9, ZenonT(60) DEF Moves, IoInv
<1> QED BY <1>1, <1>2

\* pwrite, also after calls that failed.
LEMMA PwriteKeeps == ASSUME Io!Sized, IoInv, NEW n, Io!pwrite(n) PROVE IoInv'
<1> DEFINE o == [op EXCEPT !.i = (@ + n) % 2^Width]
<1>1. /\ op.kind \in {"init", "out"} /\ n \in 1..(room[op.page] - op.i) /\ io_file' = Io!Written(n)
      /\ Io!Continue(o) /\ UNCHANGED <<m_tmp_page, room, broken>>
  BY ZenonT(60) DEF Io!pwrite, Io!Writing
<1>2. op \in Loops(Io!Offsets) /\ op.i \in Io!Offsets /\ op.page \in Io!Pages /\ room[op.page] \in 0..PageSize
  BY ZenonT(60) DEF IoInv, IoTypes, Loops
<1>3. n \in 1..(PageSize - op.i) /\ op.i + n \in Nat
  <2>1. PICK r \in 0..PageSize : r = room[op.page]
    BY <1>2, ZenonT(60)
  <2>2. PICK i \in Io!Offsets : i = op.i
    BY <1>2, ZenonT(60)
  <2>3. n \in 1..(r - i)
    BY <1>1, <2>1, <2>2, ZenonT(60)
  <2>4. n \in 1..(PageSize - i) /\ i + n \in Nat
    BY SMTT(30), <2>3 DEF Io!Offsets, Io!Sized
  <2> QED BY <2>2, <2>4, ZenonT(60)
<1>4. (op.i + n) % 2^Width = op.i + n
  BY <1>2, <1>3, Indices, ZenonT(60)
<1>5. /\ o \in Loops(Nat) /\ o.i = op.i + n /\ o.kind = op.kind /\ o.page = op.page /\ o.v = op.v
      /\ o.failed = op.failed
  BY <1>2, <1>3, <1>4, ZenonT(60) DEF Loops
<1> HIDE DEF o
<1>6. IoTypes /\ Io!WrittenInPlace /\ BehindIndex /\ DOMAIN io_file = 0..(NPages * PageSize - 1)
  BY ZenonT(60) DEF IoInv, IoTypes
<1>7. DOMAIN io_file' = DOMAIN io_file /\ Io!WrittenInPlace'
  <2>1. DOMAIN io_file' = DOMAIN io_file
    BY <1>1, <1>3, <1>6, WrittenAt, ZenonT(60)
  <2>2. ASSUME NEW q \in DOMAIN io_file PROVE io_file'[q].j = q % PageSize
    <3>1. CASE io_file'[q] = io_file[q]
      BY <1>6, <3>1, ZenonT(60) DEF Io!WrittenInPlace
    <3>2. ASSUME NEW j \in Io!Offsets, q = Place(op.page, j), io_file'[q] = [v |-> op.v, j |-> j]
          PROVE  io_file'[q].j = q % PageSize
      <4>1. q % PageSize = j
        BY <1>2, <3>2, Places, ZenonT(60)
      <4> QED BY SMTT(30), <3>2, <4>1
    <3> QED BY <1>1, <1>3, <1>6, <3>1, <3>2, WrittenAt, ZenonT(60)
  <2> QED BY <2>1, <2>2, ZenonT(60) DEF Io!WrittenInPlace
<1>8. ASSUME ~op.failed, NEW j \in Io!Offsets, j < op.i + n
      PROVE  io_file'[Place(op.page, j)] = [v |-> op.v, j |-> j]
  <2>1. CASE j < op.i
    <3>1. io_file[Place(op.page, j)] = [v |-> op.v, j |-> j]
      BY <1>1, <1>6, <1>8, <2>1, ZenonT(60) DEF BehindIndex
    <3> QED BY <1>1, <1>2, <1>3, <1>6, <2>1, <3>1, WrittenAt, ZenonT(60)
  <2>2. CASE op.i <= j
    BY <1>1, <1>3, <1>6, <1>8, <2>2, WrittenAt, ZenonT(60)
  <2>3. j < op.i \/ op.i <= j
    BY SMTT(30), <1>2 DEF Io!Offsets, Io!Sized
  <2> QED BY <2>1, <2>2, <2>3
<1>9. ASSUME NEW r \in Io!Pages, r # op.page PROVE Io!PageAt(r, io_file') = Io!PageAt(r, io_file)
  <2>1. \A j \in Io!Offsets : io_file'[Place(r, j)] = io_file[Place(r, j)]
    BY <1>1, <1>3, <1>6, <1>9, WrittenAt, ZenonT(60)
  <2> QED BY <2>1, ZenonT(60) DEF Io!PageAt, Place
<1>10. Moves(o)
  BY <1>1, <1>5, <1>7, <1>8, <1>9, ZenonT(60) DEF Moves
<1> QED BY <1>1, <1>10, ContinueKeeps, ZenonT(60)

\* A call that fails moves the index back, or ends the loop.
LEMMA PwriteFailsKeeps == ASSUME Io!Sized, IoInv, Io!PwriteFails PROVE IoInv'
<1> DEFINE o == [op EXCEPT !.i = Io!AfterError(@), !.failed = TRUE]
<1>1. /\ op.kind \in {"init", "out"} /\ Io!Continue(o) /\ UNCHANGED <<io_file, m_tmp_page, room, broken>>
  BY ZenonT(60) DEF Io!PwriteFails, Io!Writing
<1>2. op \in Loops(Io!Offsets) /\ op.i \in Io!Offsets
  BY ZenonT(60) DEF IoInv, IoTypes, Loops
<1>3. Io!AfterError(op.i) \in Nat
  <2>1. op.i # 0 => op.i - 1 \in Nat
    BY SMTT(30), <1>2 DEF Io!Offsets, Io!Sized
  <2>2. op.i = 0 => Io!AfterError(op.i) \in Nat
    BY SMTT(30), <1>2 DEF Io!AfterError, Io!Sized
  <2> QED BY <1>2, <2>1, <2>2, Indices, ZenonT(60)
<1>4. o \in Loops(Nat) /\ o.kind = op.kind /\ o.page = op.page /\ o.failed
  BY <1>2, <1>3, ZenonT(60) DEF Loops
<1> HIDE DEF o
<1>5. Moves(o)
  BY <1>1, <1>4, ZenonT(60) DEF Moves, IoInv, Io!WrittenInPlace
<1> QED BY <1>1, <1>5, ContinueKeeps, ZenonT(60)

\* pread: only a read in one call need be right.
LEMMA PreadKeeps == ASSUME Io!Sized, IoInv, NEW n, Io!pread(n) PROVE IoInv'
<1> DEFINE o == [op EXCEPT !.i = @ + n, !.short = @ \/ n < PageSize - op.i]
<1>1. /\ op.kind = "in" /\ n \in 1..(PageSize - op.i) /\ m_tmp_page' = Io!ReadInto(n)
      /\ Io!Continue(o) /\ UNCHANGED <<io_file, room, broken>>
  BY ZenonT(60) DEF Io!pread
<1>2. /\ op \in Loops(Io!Offsets) /\ op.i \in Io!Offsets /\ op.page \in Io!Pages
      /\ ~op.short => op.i = 0
  BY <1>1, ZenonT(60) DEF IoInv, IoTypes, Loops, BehindIndex
<1>3. op.i + n \in Nat
  BY SMTT(30), <1>1, <1>2 DEF Io!Offsets, Io!Sized
<1>4. /\ o \in Loops(Nat) /\ o.i = op.i + n /\ o.kind = op.kind /\ o.page = op.page
      /\ o.short = (op.short \/ n < PageSize - op.i)
  BY <1>2, <1>3, ZenonT(60) DEF Loops
<1> HIDE DEF o
<1>5. ASSUME ~o.short PROVE o.i >= PageSize /\ m_tmp_page' = Io!PageAt(o.page, io_file')
  <2>1. op.i = 0 /\ ~(n < PageSize - op.i)
    BY <1>2, <1>4, <1>5, ZenonT(60)
  <2>2. n = PageSize /\ o.i >= PageSize /\ \A j \in Io!Offsets : j < n
    BY SMTT(30), <1>1, <1>4, <2>1 DEF Io!Sized, Io!Offsets
  <2>3. op.page * PageSize \in Int
    BY SMTT(30), <1>2 DEF Io!Pages, Io!Sized
  <2>4. \A j \in Io!Offsets : op.page * PageSize + op.i + j = op.page * PageSize + j
    BY SMTT(30), <2>1, <2>3 DEF Io!Offsets
  <2>5. Io!ReadInto(n) = Io!PageAt(op.page, io_file)
    BY <2>2, <2>4, ZenonT(60) DEF Io!ReadInto, Io!PageAt
  <2> QED BY <1>1, <1>4, <2>2, <2>5, ZenonT(60)
<1>6. Moves(o)
  BY <1>1, <1>4, <1>5, ZenonT(60) DEF Moves, IoInv, Io!WrittenInPlace
<1> QED BY <1>1, <1>6, ContinueKeeps, ZenonT(60)

\* The steps that transfer nothing.
LEMMA OtherIo ==
    ASSUME Io!Sized, IoInv,
           \/ Io!PreadFails \/ Io!DeviceChanges \/ UNCHANGED Io!vars
           \/ \E p \in Io!Pages : \/ \E v \in Contents : Io!SwapOut(p, v)
                                  \/ Io!SwapIn(p)
                                  \/ \E n \in 0..PageSize : Io!RoomChanges(p, n)
    PROVE  IoInv'
<1>1. CASE Io!PreadFails
  <2>1. /\ last' = [op EXCEPT !.i = 0, !.failed = TRUE] /\ op' = Io!Idle
        /\ UNCHANGED <<io_file, m_tmp_page, room, broken>>
    BY <1>1, ZenonT(60) DEF Io!PreadFails
  <2>2. last' \in Loops({0}) /\ last'.failed /\ op' \in Loops(Io!Offsets) /\ op'.kind = "none"
    BY <2>1, IdleLoop, ZenonT(60) DEF IoInv, IoTypes, Loops
  <2> QED BY <2>1, <2>2, ZenonT(60)
       DEF IoInv, IoTypes, Io!WrittenInPlace, BehindIndex, LastIsOver, Io!CompleteUnlessFailed
<1>2. CASE Io!DeviceChanges \/ UNCHANGED Io!vars
  <2>1. UNCHANGED <<io_file, m_tmp_page, room, op, last>>
    BY <1>2, ZenonT(60) DEF Io!DeviceChanges, Io!vars
  <2> QED BY <2>1, ZenonT(60)
       DEF IoInv, IoTypes, Io!WrittenInPlace, BehindIndex, LastIsOver, Io!CompleteUnlessFailed
<1>3. ASSUME NEW p \in Io!Pages, (\E v \in Contents : Io!SwapOut(p, v)) \/ Io!SwapIn(p) PROVE IoInv'
  <2>1. last' = Io!Idle /\ UNCHANGED <<io_file, m_tmp_page, room, broken>>
    BY <1>3, ZenonT(60) DEF Io!SwapOut, Io!SwapIn
  <2>2. ASSUME NEW v \in Contents, Io!SwapOut(p, v) PROVE op' \in Loops(Io!Offsets) /\ op'.i = 0
    BY <2>2, IdleLoop, ZenonT(60) DEF Io!SwapOut, Loops, Io!Idle, Io!Versions
  <2>3. op' \in Loops(Io!Offsets) /\ op'.i = 0
    <3>1. CASE Io!SwapIn(p)
      BY <3>1, IdleLoop, ZenonT(60) DEF Io!SwapIn, Loops, Io!Idle, Io!Versions
    <3> QED BY <1>3, <2>2, <3>1, ZenonT(60)
  <2>4. last' \in Loops({0}) /\ last'.kind = "none"
    BY <2>1, IdleLoop, ZenonT(60)
  <2>5. \A j \in Io!Offsets : ~(j < 0)
    BY SMTT(30) DEF Io!Offsets, Io!Sized
  <2> QED BY <2>1, <2>3, <2>4, <2>5, ZenonT(60)
       DEF IoInv, IoTypes, Io!WrittenInPlace, BehindIndex, LastIsOver, Io!CompleteUnlessFailed
<1>4. ASSUME NEW p \in Io!Pages, NEW n \in 0..PageSize, Io!RoomChanges(p, n) PROVE IoInv'
  <2>1. room' \in [Io!Pages -> 0..PageSize] /\ UNCHANGED <<io_file, m_tmp_page, op, last>>
    BY <1>4, ZenonT(60) DEF Io!RoomChanges, IoInv, IoTypes
  <2> QED BY <2>1, ZenonT(60)
       DEF IoInv, IoTypes, Io!WrittenInPlace, BehindIndex, LastIsOver, Io!CompleteUnlessFailed
<1> QED BY <1>1, <1>2, <1>3, <1>4, ZenonT(60)

\* init_file starts with a file of holes.
LEMMA InitIo == ASSUME Io!Sized, Io!Init PROVE IoInv
<1>1. op \in Loops(Io!Offsets) /\ op.i = 0 /\ last \in Loops({0}) /\ last.kind = "none"
  BY IdleLoop, ZenonT(60) DEF Io!Init, Loops, Io!Idle
<1>2. \A j \in Io!Offsets : ~(j < 0)
  BY SMTT(30) DEF Io!Offsets, Io!Sized
<1> QED BY <1>1, <1>2, ZenonT(60)
     DEF Io!Init, IoInv, IoTypes, Io!WrittenInPlace, BehindIndex, LastIsOver, Io!CompleteUnlessFailed

\* However calls are cut short or fail, every loop of the page transfers keeps what
\* IoInv says of file and index.
THEOREM IoHolds == Io!Spec => []IoInv
<1>1. Io!Init => IoInv
  BY InitIo, SizesAssumption
<1>2. IoInv /\ [Io!Next]_Io!vars => IoInv'
  BY PwriteKeeps, PwriteFailsKeeps, PreadKeeps, OtherIo, SizesAssumption, ZenonT(60) DEF Io!Next, Io!Transfer
<1> QED BY <1>1, <1>2, PTL DEF Io!Spec

\* For any number and size of pages, a byte of a page is only written to its own place.
THEOREM BytesStayInPlace == Io!Spec => []WrittenInPlace
<1>1. IoInv => WrittenInPlace
  BY DEF IoInv, WrittenInPlace
<1> QED BY <1>1, IoHolds, PTL

\* For any number and size of pages, a write loop in which no call failed has
\* written its page, and a read in one call has read it.
THEOREM TransfersAreComplete == Io!Spec => []CompleteUnlessFailed
<1>1. IoInv => CompleteUnlessFailed
  BY DEF IoInv, CompleteUnlessFailed
<1> QED BY <1>1, IoHolds, PTL
===============================================================================

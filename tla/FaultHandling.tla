---------------------------- MODULE FaultHandling ----------------------------
(***************************************************************************)
(* Page faults and persist at the level of their system calls.  In         *)
(* BufferManager a fault is one step; here clients run between any two of  *)
(* its ioctls, and what keeps them from writing unnoticed is the blocking  *)
(* of page faults, the order of the calls and write protection.            *)
(*                                                                         *)
(* Pages are those of persistent regions.  m_mutex is held from the first  *)
(* to the last step of a fault and of a persist, so one variable, `holder',*)
(* says where its holder is.                                               *)
(*                                                                         *)
(* External: the page tables of manager and clients, userfaultfd and XPMEM.*)
(* A client's fault on an attached page is resolved in the manager's       *)
(* address space; taking a page out of that, or protecting it there, takes *)
(* effect for clients at once (mmu notifiers).                             *)
(***************************************************************************)
EXTENDS Integers, Sequences, FiniteSets

CONSTANTS
    Clients,
    Pages,
    RegionOf,  \* region of each page
    Frames,
    Values,    \* contents of a page
    Zero,      \* what a file holds at first
    WriteData, \* what clients write
    MaxQueue,  \* bound on the messages in the userfaultfd
    None

ASSUME FramesAssumption == Frames # {} /\ IsFiniteSet(Frames) /\ None \notin Frames
ASSUME ValuesAssumption == Zero \in Values /\ WriteData \subseteq Values

\* What the kernel reports of a fault: the flags of a uffd_msg, and its page.
Messages == [page : Pages, minor : BOOLEAN, wp : BOOLEAN, write : BOOLEAN]
ASSUME MessagesAssumption == None \notin Messages

VARIABLES
    pte,        \* frame of each present page in the buffer manager
    dirty,      \* page_info.dirty of each frame
    used,       \* m_used_pages
    data,       \* contents of frames (m_shm)
    file,       \* contents of region files
    vma,        \* frame mmapped at each page's address
    mapped,     \* pages in the manager's page table
    registered, \* pages of VMAs registered with the userfaultfd
    protected,  \* pages write-protected by userfaultfd
    access,     \* how each client has a page in its page table
    want,       \* the access each client is trying to make
    queue,      \* faults in the userfaultfd: the client and its message
    blocked,    \* regions whose page faults XPMEM holds off
    holder,     \* what the holder of m_mutex is doing
    mem,        \* ghost: what clients last wrote
    undirtied   \* ghost: pages whose dirty bit a repeated fault cleared

buffers == <<pte, dirty, used, data, file>>
kernel  == <<vma, mapped, registered, protected, access>>
clients == <<want, queue>>
ghosts  == <<mem, undirtied>>
vars    == <<buffers, kernel, clients, blocked, holder, ghosts>>

Idle == [pc |-> "idle", msg |-> None, frame |-> None, victim |-> None, tmp |-> Zero, left |-> {}]

Init ==
    /\ pte = [p \in Pages |-> None] /\ vma = [p \in Pages |-> None]
    /\ dirty = [f \in Frames |-> FALSE] /\ data = [f \in Frames |-> Zero]
    /\ used = << >> /\ file = [p \in Pages |-> Zero]
    /\ mapped = {} /\ registered = Pages /\ protected = {}
    /\ access = [c \in Clients |-> [p \in Pages |-> "none"]]
    /\ want = [c \in Clients |-> None] /\ queue = << >>
    /\ blocked = {} /\ holder = Idle
    /\ mem = [p \in Pages |-> Zero] /\ undirtied = {}

(***************************************************************************)
(* Clients and the kernel.                                                 *)
(***************************************************************************)
Wants(c, p, write) ==
    /\ want[c] = None
    /\ want' = [want EXCEPT ![c] = [page |-> p, write |-> write, waits |-> FALSE]]
    /\ UNCHANGED <<buffers, kernel, queue, blocked, holder, ghosts>>

Permits(c, w) == access[c][w.page] = "write" \/ (~w.write /\ access[c][w.page] = "read")

Queued(c) == \E i \in DOMAIN queue : queue[i].client = c
Runs(c) == want[c] # None /\ ~want[c].waits /\ ~Queued(c)

\* The instruction is executed.
Access(c, v) ==
    /\ Runs(c)
    /\ Permits(c, want[c])
    /\ want' = [want EXCEPT ![c] = None]
    /\ LET p == want[c].page
       IN  IF want[c].write
           THEN data' = [data EXCEPT ![vma[p]] = v] /\ mem' = [mem EXCEPT ![p] = v]
           ELSE UNCHANGED <<data, mem>>
    /\ UNCHANGED <<pte, dirty, used, file, kernel, queue, blocked, holder, undirtied>>

\* The message a fault on page p sends, or None if the kernel resolves it itself.
\* The pages of a mapped file are found in the page cache: a minor fault.
Message(p, write) ==
    CASE p \in registered \ mapped ->
           [page |-> p, minor |-> vma[p] # None, wp |-> FALSE, write |-> write]
      [] p \in registered \cap mapped \cap protected /\ write ->
           [page |-> p, minor |-> FALSE, wp |-> TRUE, write |-> TRUE]
      [] OTHER -> None

Blocked(p) == RegionOf[p] \in blocked

Fault(c) ==
    /\ Runs(c)
    /\ ~Permits(c, want[c])
    /\ LET p == want[c].page
           m == Message(p, want[c].write)
       IN  /\ ~Blocked(p) /\ Len(queue) < MaxQueue
           /\ IF m = None
              THEN /\ mapped' = mapped \cup {p}
                   /\ access' = [access EXCEPT ![c][p] =
                                    IF p \in protected THEN "read" ELSE "write"]
                   /\ UNCHANGED clients
              ELSE /\ queue' = Append(queue, [client |-> c, msg |-> m])
                   /\ want' = [want EXCEPT ![c].waits = TRUE]
                   /\ UNCHANGED <<mapped, access>>
    /\ UNCHANGED <<buffers, vma, registered, protected, blocked, holder, ghosts>>

\* A client that was woken before its message was read takes the message back when
\* it runs; until then the message can still be read: "this can happen when two
\* major PFs trigger before we had time to resolve it" (client_manager.cc:255).
Resumes(c) ==
    /\ want[c] # None /\ ~want[c].waits
    /\ \E i \in DOMAIN queue :
          /\ queue[i].client = c
          /\ queue' = SubSeq(queue, 1, i - 1) \o SubSeq(queue, i + 1, Len(queue))
    /\ UNCHANGED <<buffers, kernel, want, blocked, holder, ghosts>>

\* A page leaves the manager's page table (madvise, mmap over it).
Unmapped(p) ==
    /\ mapped' = mapped \ {p} /\ protected' = protected \ {p}
    /\ access' = [c \in Clients |-> [access[c] EXCEPT ![p] = "none"]]

\* UFFDIO_WRITEPROTECT: protection is kept in page table entries.
writeprotect_userfaultfd(p) ==
    /\ protected' = IF p \in mapped /\ p \in registered THEN protected \cup {p} ELSE protected
    /\ access' = [c \in Clients |-> [access[c] EXCEPT ![p] =
                     IF p \in protected' /\ @ = "write" THEN "read" ELSE @]]

(***************************************************************************)
(* handle_userfault, with unfix and mark_dirty of demo_buffer_manager.     *)
(***************************************************************************)
At(pc) == holder.pc = pc
Goto(pc) == holder' = [holder EXCEPT !.pc = pc]
Page == holder.msg.page

ReadUserfault ==
    /\ At("idle") /\ queue # << >>
    /\ holder' = [Idle EXCEPT !.pc = "block", !.msg = Head(queue).msg]
    /\ queue' = Tail(queue)
    /\ UNCHANGED <<buffers, kernel, want, blocked, ghosts>>

BlockPfs_Skipped ==
    /\ At("block") /\ Goto(IF holder.msg.wp THEN "mark_dirty" ELSE "unfix")
    /\ UNCHANGED <<buffers, kernel, clients, blocked, ghosts>>
BlockPfs ==
    /\ At("block") /\ Goto(IF holder.msg.wp THEN "mark_dirty" ELSE "unfix")
    /\ blocked' = blocked \cup {RegionOf[Page]}
    /\ UNCHANGED <<buffers, kernel, clients, ghosts>>

UnfixPresent ==
    /\ At("unfix") /\ pte[Page] # None
    /\ dirty' = [dirty EXCEPT ![pte[Page]] = holder.msg.write]
    /\ undirtied' = IF dirty[pte[Page]] /\ ~holder.msg.write
                    THEN undirtied \cup {Page} ELSE undirtied
    /\ Goto(IF holder.msg.minor THEN "continue" ELSE "unblock")
    /\ UNCHANGED <<pte, used, data, file, kernel, clients, blocked, mem>>

Free == Frames \ {used[i] : i \in DOMAIN used}

SwapIn ==
    /\ At("unfix") /\ pte[Page] = None
    /\ IF Free = {}
       THEN holder' = [holder EXCEPT !.pc = "swap_out", !.tmp = file[Page]]
       ELSE \E f \in Free :
                holder' = [holder EXCEPT !.pc = "mmap", !.tmp = file[Page], !.frame = f]
    /\ UNCHANGED <<buffers, kernel, clients, blocked, ghosts>>

\* swap_out_page: every page here is persistent, so the first can go.
Owner(f) == CHOOSE p \in Pages : pte[p] = f

SwapOut ==
    /\ At("swap_out")
    /\ holder' = [holder EXCEPT !.pc = "write_out", !.frame = Head(used),
                                !.victim = Owner(Head(used))]
    /\ pte' = [pte EXCEPT ![Owner(Head(used))] = None]
    /\ used' = Tail(used)
    /\ Unmapped(Owner(Head(used)))
    /\ UNCHANGED <<dirty, data, file, vma, registered, clients, blocked, ghosts>>

\* swap_out_page_data, after madvise has taken the page from the clients.
WriteOut_Never ==
    /\ At("write_out") /\ Goto("mmap")
    /\ UNCHANGED <<buffers, kernel, clients, blocked, ghosts>>
WriteOut ==
    /\ At("write_out") /\ Goto("mmap")
    /\ file' = IF dirty[holder.frame]
               THEN [file EXCEPT ![holder.victim] = data[holder.frame]] ELSE file
    /\ UNCHANGED <<pte, dirty, used, data, kernel, clients, blocked, ghosts>>

\* The new VMA is not registered with the userfaultfd.
Mmap ==
    /\ At("mmap") /\ Goto("memcpy")
    /\ vma' = [vma EXCEPT ![Page] = holder.frame]
    /\ registered' = registered \ {Page}
    /\ Unmapped(Page)
    /\ used' = Append(used, holder.frame)
    /\ dirty' = [dirty EXCEPT ![holder.frame] = holder.msg.write]
    /\ UNCHANGED <<pte, data, file, clients, blocked, ghosts>>

Memcpy ==
    /\ At("memcpy") /\ Goto("register")
    /\ data' = [data EXCEPT ![holder.frame] = holder.tmp]
    /\ mapped' = mapped \cup {Page}
    /\ pte' = [pte EXCEPT ![Page] = holder.frame]
    /\ undirtied' = undirtied \ {Page}
    /\ mem' = IF Page \in undirtied THEN [mem EXCEPT ![Page] = holder.tmp] ELSE mem
    /\ UNCHANGED <<dirty, used, file, vma, registered, protected, access, clients, blocked>>

Register ==
    /\ At("register") /\ Goto(IF dirty[holder.frame] THEN "unblock" ELSE "protect")
    /\ registered' = registered \cup {Page}
    /\ UNCHANGED <<buffers, vma, mapped, protected, access, clients, blocked, ghosts>>

Protect ==
    /\ At("protect") /\ Goto("unblock")
    /\ writeprotect_userfaultfd(Page)
    /\ UNCHANGED <<buffers, vma, mapped, registered, clients, blocked, ghosts>>

\* UFFDIO_CONTINUE fails if the page is in the page table already.
Continue ==
    /\ At("continue") /\ Goto("unblock")
    /\ mapped' = mapped \cup {Page}
    /\ UNCHANGED <<buffers, vma, registered, protected, access, clients, blocked, ghosts>>

mark_dirty ==
    /\ At("mark_dirty")
    /\ IF pte[Page] # None
       THEN dirty' = [dirty EXCEPT ![pte[Page]] = TRUE] /\ Goto("unprotect")
       ELSE Goto("unblock") /\ UNCHANGED dirty
    /\ UNCHANGED <<pte, used, data, file, kernel, clients, blocked, ghosts>>

Unprotect ==
    /\ At("unprotect") /\ Goto("unblock")
    /\ protected' = protected \ {Page}
    /\ UNCHANGED <<buffers, vma, mapped, registered, access, clients, blocked, ghosts>>

UnblockPfs ==
    /\ At("unblock") /\ Goto("wake")
    /\ blocked' = blocked \ {RegionOf[Page]}
    /\ UNCHANGED <<buffers, kernel, clients, ghosts>>

\* Everyone who waits for the page tries again; the mutex is released.
Woken_NotIfPresent(w) == w # None /\ w.page = Page /\ holder.frame # None
Woken(w) == w # None /\ w.page = Page

Wake ==
    /\ At("wake") /\ holder' = Idle
    /\ want' = [c \in Clients |-> IF Woken(want[c]) THEN [want[c] EXCEPT !.waits = FALSE]
                                                    ELSE want[c]]
    /\ UNCHANGED <<buffers, kernel, queue, blocked, ghosts>>

(***************************************************************************)
(* client_manager::persist of a whole region.  It blocks the page faults   *)
(* of segment `id', which is no segment's id: nothing is blocked.          *)
(***************************************************************************)
Persist(r) ==
    /\ At("idle")
    /\ holder' = [Idle EXCEPT !.pc = "persist_protect",
                              !.left = {p \in Pages : RegionOf[p] = r}]
    /\ UNCHANGED <<buffers, kernel, clients, blocked, ghosts>>

\* What is left to be written once the loop over the pages has protected them.
Persisted(p) == {q \in Pages : RegionOf[q] = RegionOf[p]}

PersistProtect_Skipped(p) ==
    /\ At("persist_protect") /\ p \in holder.left
    /\ holder' = IF holder.left = {p}
                 THEN [holder EXCEPT !.pc = "persist_write", !.left = Persisted(p)]
                 ELSE [holder EXCEPT !.left = @ \ {p}]
    /\ UNCHANGED <<buffers, kernel, clients, blocked, ghosts>>
PersistProtect(p) ==
    /\ At("persist_protect") /\ p \in holder.left
    /\ holder' = IF holder.left = {p}
                 THEN [holder EXCEPT !.pc = "persist_write", !.left = Persisted(p)]
                 ELSE [holder EXCEPT !.left = @ \ {p}]
    /\ writeprotect_userfaultfd(p)
    /\ UNCHANGED <<buffers, vma, mapped, registered, clients, blocked, ghosts>>

\* swap_out_page_data and page.dirty = false, with clients running in between.
PersistWrite(p) ==
    /\ At("persist_write") /\ p \in holder.left
    /\ IF pte[p] # None /\ dirty[pte[p]]
       THEN /\ file' = [file EXCEPT ![p] = data[pte[p]]]
            /\ holder' = [holder EXCEPT !.pc = "persist_clean", !.victim = p]
       ELSE /\ holder' = [holder EXCEPT !.left = @ \ {p}]
            /\ UNCHANGED file
    /\ UNCHANGED <<pte, dirty, used, data, kernel, clients, blocked, ghosts>>

PersistClean ==
    /\ At("persist_clean")
    /\ dirty' = [dirty EXCEPT ![pte[holder.victim]] = FALSE]
    /\ holder' = [holder EXCEPT !.pc = "persist_write", !.left = @ \ {holder.victim},
                                !.victim = None]
    /\ UNCHANGED <<pte, used, data, file, kernel, clients, blocked, ghosts>>

PersistEnds ==
    /\ At("persist_write") /\ holder.left = {}
    /\ holder' = Idle
    /\ UNCHANGED <<buffers, kernel, clients, blocked, ghosts>>

HandleStep ==
    \/ BlockPfs \/ UnfixPresent \/ SwapIn \/ SwapOut \/ WriteOut \/ Mmap \/ Memcpy
    \/ Register \/ Protect \/ Continue \/ mark_dirty \/ Unprotect \/ UnblockPfs \/ Wake
PersistStep ==
    \/ \E p \in Pages : PersistProtect(p) \/ PersistWrite(p)
    \/ PersistClean \/ PersistEnds

Next ==
    \/ \E c \in Clients, p \in Pages, w \in BOOLEAN : Wants(c, p, w)
    \/ \E c \in Clients, v \in WriteData : Access(c, v)
    \/ \E c \in Clients : Fault(c) \/ Resumes(c)
    \/ ReadUserfault \/ HandleStep
    \/ \E p \in Pages : Persist(RegionOf[p])
    \/ PersistStep

Spec == Init /\ [][Next]_vars

\* The threads of the manager run, and the userfault thread gets the mutex in turn.
FairSpec == Spec /\ SF_vars(ReadUserfault) /\ WF_vars(HandleStep) /\ WF_vars(PersistStep)

(***************************************************************************)
(* Properties.                                                             *)
(***************************************************************************)

\* Type invariant.
TypeOK ==
    /\ pte \in [Pages -> Frames \cup {None}] /\ vma \in [Pages -> Frames \cup {None}]
    /\ dirty \in [Frames -> BOOLEAN] /\ data \in [Frames -> Values]
    /\ file \in [Pages -> Values] /\ mem \in [Pages -> Values]
    /\ Len(used) <= Cardinality(Frames) /\ \A i \in DOMAIN used : used[i] \in Frames
    /\ protected \subseteq mapped /\ mapped \subseteq Pages /\ registered \subseteq Pages
    /\ access \in [Clients -> [Pages -> {"none", "read", "write"}]]
    /\ Len(queue) <= MaxQueue

\* Between any two ioctls of a fault or a persist: a client that has a page in its
\* page table has it in the frame the buffer manager gave the page, never in one
\* that passed to another page, and reads what was last written.
ClientsSeeTheirPages ==
    \A c \in Clients, p \in Pages :
        access[c][p] # "none" => vma[p] = pte[p] /\ data[vma[p]] = mem[p]

\* A client can write without a fault only to a page whose dirty bit is set.
WritesAreNoticed ==
    \A c \in Clients, p \in Pages :
        access[c][p] = "write" /\ p \notin undirtied => dirty[pte[p]]

\* A page that is not dirty can be dropped: its file has its contents, although
\* persist holds off no page faults while it writes.
CleanMeansWritten ==
    \A p \in Pages \ undirtied :
        IF pte[p] # None THEN dirty[pte[p]] \/ file[p] = mem[p]
        ELSE (holder.pc = "write_out" /\ holder.victim = p) \/ file[p] = mem[p]

\* Every client that waits for a userfault is woken, whatever became of the page.
FaultsAreAnswered ==
    \A c \in Clients :
        (want[c] # None /\ want[c].waits) ~> (want[c] = None \/ ~want[c].waits)
=============================================================================

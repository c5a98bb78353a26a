# A TLA+ model of DASim

DASim simulates disaggregated memory on one machine. A manager process
(`damanager`) owns regions of memory; client processes link the `damemory`
library, ask the manager for regions over a SEQPACKET socket and attach them
with XPMEM. Page faults of clients reach the manager through userfaultfd, and a
buffer manager decides which page of which region is in RAM, in a swap file or
in a file of its own.

This directory holds TLA+ modules for the manager, the library, the SQLite file
layers, the quicksort demo, the benchmark and the two kernel tests; TLC
configurations that check them on small instances; and TLAPS proofs for instances of
any size: every safety property of the passing runs is also a theorem.

## The system's parts

| Part | State | Operations | What makes it hard |
|---|---|---|---|
| `demo_buffer_manager` | regions and their page tables, `m_page_infos`, lists of free and used frames, free swap entries, `m_nr_available_pages`, RAM, swap and region files | allocate, free, get_anchored_region, anchor, unanchor, unfix, mark_dirty, persist, constructor, destructor | frames and swap entries move between regions; dirty tracking by write protection; repeated faults of one page; allocations that fail half-way; crashes |
| `buffer_manager` | none (interface) | as above | what it promises to the client manager |
| `client_manager` | `m_regions`, `m_region_map`, `m_clients` | accept_client, allocate, anchor, unanchor, get_size, map, unmap, persist, handle_userfault | one map count for many clients; faults that wait while regions come and go; XPMEM calls that fail |
| client threads (`client.cc`) | `m_mappings`, the socket | one handler per call, cleanup at the end | a process may die between any two steps |
| `damemory` library | the connection; handles held by the program | init, close, alloc, map, unmap, anchor, unanchor, get_size, persist, advise | `map` is two calls to the manager and an attach |
| threads and shutdown (`util.cc`, `main.cc`) | shutdown eventfd, signalfd | poll_or_shutdown, shutdown_manager, joins in the destructors | every thread has to notice |
| SQLite VFS (`damemorydemovfs.h`) | files as persistent anchored regions with a header | open, read, write, sync, close, delete | the process or the manager ends between alloc, anchor and the first size |
| SQLite VFS (`demovfs.h`) | an operating system file and a write buffer | open, read, write, truncate, sync, close, delete | failing writes, crashes, gaps in sequential writes |
| benchmark | two pipes, shared memory, client threads | server, page fault handler, client program | messages in step, phases apart, one waiting for the other |
| `xpmem-uffd-pf-test`, `xpmem-uffd-mm-test` | a page table, userfaultfd, XPMEM blocking | page out, page in, exchange of a frame under a running client | the client may access the page between any two system calls |
| quicksort demo | an array in a region | `quicksort` | - |
| command line, tests, experiments, logging | - | - | not modelled |

Every operation of the manager runs under `client_manager::m_mutex`, taken by a
client thread for one call, for its cleanup, and by the userfault thread for one
fault. Calls of one process are serialised by `damanager_mutex`. What interleaves
is therefore: whole operations of several processes; the two calls and the attach
inside one `damemory_map`; faults that were raised but not yet read; the death of
a process, and the shutdown or crash of the manager, at any point.

What correctness means for the modelled parts:

* a frame or swap entry has one owner, and both sides agree on who it is;
* a client reads what was last written, wherever the page has been since;
* swapping out always finds a page, and reservations are never overcommitted;
* `persist` leaves the data in the file, and anchored regions outlive restarts;
* map counts are exact: no region goes while it is mapped, none stays for ever;
* a page fault is resolved in the region it happened in, and whoever waits for one
  goes on;
* between the system calls of a fault or of `persist`, a client never reaches a
  frame of another page and never writes unnoticed;
* threads end when they are told to and no thread uses what main has destroyed;
* the library returns what the manager answered to this very call;
* the VFS keep what SQLite wrote and, across crashes, what it synced.

`PROJECT.json` lists the hazards behind these, each at its line, with the
properties that cover it.

## Modules

| Module | Models |
|---|---|
| `RegionStore` | what a buffer manager shows to the outside: which regions are loaded, their sizes, which are anchored, which files exist |
| `BufferManager` | `demo_buffer_manager`: page tables, frames, swap entries, files and dirty bits, one step per operation |
| `BufferManager_proofs` | theorems about who owns frames and swap entries, and that `BufferManager` implements `RegionStore` |
| `BufferManager_contents` | theorems about what pages and files hold, and about numbers of pages |
| `PageIo` | the loops of `pread` and `pwrite` that `BufferManager` takes as one step |
| `FaultHandling` | `handle_userfault`, `unfix` and `persist` one system call at a time, with clients in between |
| `FaultHandling_proofs` | theorems about `FaultHandling` and `PageIo` |
| `ClientManager`, `ClientManager_proofs` | `client_manager`, the client threads and the library, over `RegionStore`; theorems about them |
| `ManagerThreads` | main, accept, userfault and client threads, eventfd, mutex, destructors |
| `DamemoryApi` | the library in a process with several threads: steps, results, `errno` |
| `Threads_proofs` | theorems about `DamemoryApi` and `ManagerThreads` |
| `DemoVfs` | files as regions (`damemorydemovfs.h`), over `RegionStore` |
| `JournalFile`, `PlainFile` | files with a write buffer (`demovfs.h`), and the plain file they implement |
| `Sqlite_proofs` | theorems about both VFS |
| `Benchmark` | the latency benchmark's server and client |
| `PfTest`, `MmTest` | the two tests of XPMEM with userfaultfd |
| `Xpmem_proofs` | theorems about the benchmark and the two tests |
| `Quicksort`, `Quicksort_proofs` | the sort of the quicksort demo and its proof |
| `MCBufferManager`, `MCClientManager`, `MCFaultHandling`, `MCQuicksort` | constants, symmetry and views for TLC |
| `MCSqlite`, `MCXpmem` | joint instances: the two VFS; the benchmark and the two tests |
| `MCPageIo`, `MCThreads` | `PageIo` and `ManagerThreads` as `Io` and `M`, under names that leave room for the module proved next to them |

### BufferManager

One action per operation, one step each because of `m_mutex`. `unfix` has three
cases, as in the code: a free frame (`UnfixIntoFreePage`), no free frame
(`UnfixSwappingOut`, which includes `swap_in_page`, `find_swappable_page` and
`swap_out_page`), page already present (`UnfixPresent`).

* `m_free_pages` is a set, since any free frame is as good as another.
  `m_used_pages` is a set and its order (`used_before`), since swapping out takes
  the first page that can go.
* `writable` is the state of userfaultfd write protection. The client manager
  applies the results of `unfix`, `mark_dirty` and `persist` under the same hold
  of the mutex, so they are part of the actions.
* Page contents are a few values: a hole, the `'a'` and `'A'` that fresh pages are
  filled with, and what clients write.
* `allocate` can fail after its reservation or after creating the file
  (`AllocateAnonNoVm`, `AllocatePersistentFails`) and leaves what it did.
* `client_manager::allocate` tries `get_anchored_region` first and goes on to
  `allocate` whatever the reason that failed, a file that is there included. A
  persistent region cannot be made over the file, an anonymous one can be put under the
  id (`MayAllocate`); the file is then no part of it.
* `Crash` may happen while any set of dirty pages has been written. A page's write
  is atomic; torn pages are not modelled.
* Ghosts: `mem` (what clients last wrote), `promised` (ids a client anchored),
  `undirtied` (pages whose dirty bit a read re-fault cleared, see the findings).
  No guard reads a ghost.

`ClientWrite` needs only that the page is mapped unprotected: the model does not
ask whether some process still holds the region, which allows more writes than
the program does.

### ClientManager

State of the manager (`regions`, `region_map`, `mappings`, `thread`), of the
buffer manager as `RegionStore` has it (plus `addr`, where it mapped each
region), and of the processes (`proc`, `lib`, `handles`, `fault`).

Sending a call and handling it are one step. What a process does between calls is
kept in `lib`: `sized` between `get_size` and `map` of `damemory_map`, `granted`
between the manager's answer and the attach, `released` between the answer to
unmap and the detach. A process can die in each of them.

* XPMEM is external: a segment lives from `add_region` to `unmap`, ids are not
  reused, `xpmem_attach` accepts at most the segment's size, `xpmem_remove` may
  fail. A failed `xpmem_make` undoes what came before and changes nothing.
* `mmap` in the manager is external: any place where the region fits.
* `Restart` is the next start of the manager, after a shutdown or a crash.
* A call that only returns an error changes nothing and is not an action.
* `AllocateNew` follows a `get_anchored_region` that failed for any reason, so it
  needs only that the region is not loaded.

### PageIo

One step is one `pread` or `pwrite`, which may move fewer bytes than asked for or
fail. A byte is `[v, j]`, the contents it belongs to and its offset in the page, so
a byte in the wrong place shows. The index is a `size_t` of `Width` bits, since the
code adds the -1 of a failed call to it.

### FaultHandling

`holder` says where the holder of `m_mutex` is inside a fault or a `persist`;
clients read, write and fault between any two of its steps. The kernel supports
minor faults; pages are those of persistent regions, and there is one frame in the
run, so that every fault replaces a page. `persist` passes the region id to
`xpmem_block_pfs` where a segment id is expected, so it blocks nothing; in the
model too. What keeps it safe is its order: protect, write, mark clean. A client that
is woken while its own message is still unread takes the message back when it runs
again (`Resumes`); the userfault thread may read it before that. As in
`BufferManager`, pages whose dirty bit a read re-fault cleared (`undirtied`) are
excepted.

### ManagerThreads

A step is what a thread does between two points that can hold it up: a poll, a
blocking read, a lock, a join. `shutdown_manager` writes four bytes to an eventfd,
which takes only eight, so its write fails and leaves the counter; in the model
too, and only the destructor's write tells the threads. The write of an answer to a
process that has died fails with `EPIPE`, and the thread leaves its loop and cleans up
(`AnswerFails`). A `poll` may fail in any thread: the accept, userfault and client
threads leave their loops, main, which ignores the result, goes on to shut down
(`PollFails`). `broken` has the threads whose poll has failed.

### DamemoryApi

The functions of the library in a process with several threads: the lock, the checks
of the connection and the arguments, reserve, request, answer, attach, unlock. `told` is a ghost, the
manager's answer to each thread's own last request. An `int` has `IntBits` bits.

### DemoVfs and JournalFile

`DemoVfs` counts sizes in slots of the size of the file header. A call to the
manager is a step, and the process or the manager may end between any two;
SQLite closes a file before it deletes it. A failing `anchor` and a failing
`xpmem_remove` are left to `ClientManager`.

`JournalFile` uses `PlainFile` twice, for the file of the operating system and as
the specification it implements. The refinement mapping puts the write buffer over
the file. An `fsync` of the file is assumed to make its directory entry durable.

### Benchmark, PfTest, MmTest

`Benchmark` runs with one or two client threads (`main` sets one, the code is
written for any number), `stepsize = vpagesize`, and a shared memory file that is
new or completely filled. Half of the sum is left unread in the pipe at the end
and goes when both programs have closed it, which the scripts give them a second
for before the next run; a run starts with empty pipes. In `PfTest` the two programs
have a terminal each, and the user presses the buttons of one without regard to the
other, (2) while the client is still in its first round included; only (6) waits for
the client's (5). The ghost `overlapped` says that the page-out met a fault that was
being handled, or was raised before main had blocked page faults. A
`UFFDIO_WRITEPROTECT` of memory that main has mapped anew and not yet registered fails,
and `DOERR` ends the server (`Abort`). In `MmTest` sleeps decide nothing.

### Quicksort

One step is a call, a round of `partition`'s loop, or its end with the two recursive
calls, which go on an explicit stack.

## Runs

Counts are distinct states.

| Run | Instance | Checks |
|---|---|---|
| `buffer_paging` | 2 regions of 1-2 pages, 2 frames, 1 swap entry; 68 661 | `PageOwnership`, `SwapOwnership`, `VictimExists`, `CleanPagesAreSafe`, `NoLostWrite`, `PersistPrefixDurable`, `FilesFollowMemory` |
| `buffer_restart` | 1 region of 1-3 pages, 2 frames, no swap, failures, shutdowns, crashes; 120 518 | `CapacityReserved`, `NoLostWrite`, `AnchoredSurvives`, `ImplementsRegionStore` |
| `client_sharing` | 1 id, 2 processes with a window each, 2 pages of address space, fairness; 14 257 | `HandlesBacked`, `NoOrphanRegion`, `AbandonedIsReclaimed` (liveness) |
| `client_faults` | 2 ids, 1 process, 2 windows, regions of 1-2 pages, 3 pages of address space, faults; about 215 000 | `FaultFindsRegion`, `MapcountExact` |
| `fault_steps` | 2 clients, a page of each of 2 regions, 1 frame, fairness; 266 024 | `ClientsSeeTheirPages`, `WritesAreNoticed`, `CleanMeansWritten`, `FaultsAreAnswered` (liveness) |
| `page_io` | 2 pages of 3 units, 3-bit index, short and failing calls, full file system; 444 334 | `WrittenInPlace`, `CompleteUnlessFailed`, `LoopsEnd` (liveness) |
| `manager_threads` | 2 connections, of two clients or with one pid, failing polls, SIGINT, fairness; 88 100 | `NothingOutlivesMain`, `PidReuseStartsClean`, `ShutdownEnds`, `WaitsEnd` (liveness) |
| `library` | 2 threads, 2 windows, sizes 1-2, 2-bit `int`; 196 258 | `ResultsReflectAnswers`, `WindowsAgree` |
| `sqlite_vfs` | 1 file of 3 slots; 1 file of 2 bytes with a buffer of 2; 24 219 | `ContentKept`, `SyncedSurvives`, `ImplementsPlainFile` (refinement) |
| `xpmem_programs` | benchmark with 4 pages and 1-2 client threads; tests with 4 pages, 30 increments; 28 002 | `NoMisread`, `PhasesApart`, `ClientReachesFile`, `NoIncrementLost`, `ProgramsFinish` (liveness) |
| `quicksort` | all arrays of 5 elements with 3 values; 4 648 | `Sorted`, `OnlyPermuted`, `SortEnds` (liveness) |

`MCSqlite` and `MCXpmem` put programs together that share nothing; a behaviour is a
run of one of them, and the state space is the sum of theirs.

Bounds. Two frames are the least `main.cc` accepts, and with four pages of two
regions they make every kind of replacement happen: anonymous for persistent, the
reverse, within a region, and the reuse of the swap entry just read.
`buffer_restart` has a region larger than RAM. In `client_sharing` two
processes map one region, which each of them may have created, and either may be the
last to go. `client_faults` needs two regions side by side and room for one to move; its
process can also map one region twice. In `fault_steps` a message being handled and
one in the queue are the faults of both clients. Three units per page are the least
with a first, a middle and a last call. The eventfd in `manager_threads` counts to
`MaxCount = 1`: the code only ever tells zero from not zero. Besides main,
one thread's poll fails (`MaxBroken = 1`; a new client thread starts with a working one); without the bound TLC
takes longer than five minutes (244 896 states) and finds the same. A 2-bit `int` next to
sizes of 2 makes `get_size` overflow. In `sqlite_vfs` a write can continue the buffer,
fill it or start anew; that it is copied in two parts takes `MaxSize = 3`, which TLC checks
in four minutes (140 135 states) with the same result, and the proof covers every size. `MmTest` and `PfTest` have the programs' own
numbers.

Symmetry is used in the runs of `BufferManager` and in `client_faults`, whose
properties are symmetric in the sets it permutes, and in no run with liveness. The
views leave out what is overwritten before it is read: contents of free frames and
free swap entries, the dirty bit of an anonymous page, the ghost `mem` of a page in
`undirtied`, which the properties of these runs except, contents of files and regions that do not
exist; and they normalise segment ids that only matter up to renaming. TLC applies the symmetry
before the view, so the count of `client_faults` varies a little with the order of
exploration.

Each module states its type as `TypeOK`. For `BufferManager` and `Quicksort` it is
part of the proved invariants; the other proofs state types without the bounds of an
instance (`TypeInv`, `VTypes`, `BTypes`).

Deadlock is checked except in `manager_threads`, `library`, `xpmem_programs` and
`quicksort`, whose programs end.

Fairness. No run assumes that a client calls, faults, dies, or that anyone sends
SIGINT.

* `client_sharing`: weak fairness of the end of each client thread. The thread polls
  its socket and the shutdown eventfd; once either is ready it stays ready, and
  the cleanup then needs only `m_mutex`, which no thread keeps.
* `fault_steps`: weak fairness of the steps of a fault and of a `persist`, which hold
  the mutex, and strong fairness of taking a message, which competes with `persist`
  for it.
* `manager_threads`: weak fairness of main and the accept thread, which wait for
  conditions that stay; strong fairness of the userfault thread and each client
  thread, which compete for the mutex; and that a process which has connected goes on
  to write its pid, as `damemory_init` does in the next statement, or dies. The last is
  an assumption about clients that `ShutdownEnds` needs: the accept thread reads the
  pid without a timeout, and a process stopped in between keeps the manager from
  ending (`client_manager.cc:173`). The mutex is a `std::mutex`, which promises no more than that someone
  gets it; strong fairness is what the kernel's scheduling gives in practice.
* `page_io`: the loop goes on. `LoopsEnd` itself says what it asks of the device.
* `xpmem_programs`: every thread runs, and in `PfTest` the user presses the buttons
  that a program asks for.
* `quicksort`: the program runs.

### Where the code and its documentation differ

Run `buffer_refault` ends in a counterexample to `NoLostWriteEver`: `unfix` of a
present page sets `dirty = write`, so a read fault served after a write fault of
the same page clears the bit, and the write is dropped at the next replacement.
`buffer_manager.h` asks buffer managers to "expect this and gracefully handle" such
faults. `NoLostWrite`, `CleanPagesAreSafe`, `PersistPrefixDurable`,
`FilesFollowMemory` and the properties of `FaultHandling` except the pages in
`undirtied`, so that they say what holds apart from this.

The modules state more formulas that a comment or a documentation line suggests
and that do not hold. TLC gives a counterexample to each at the instance named; they
are not in the runs. The properties that are keep clear of them:
`PersistPrefixDurable` speaks of offset 0, `ResultsReflectAnswers` of sizes that an
`int` holds and of `errno` for `persist`, `LoopsEnd` leaves out a file system that
stays full, `FaultFindsRegion` speaks of faults whose segment lives,
`AbandonedIsReclaimed` lets a region stay whose `xpmem_remove` failed,
`ClientReachesFile` and `TestEnds` except a page-out that meets a fault, `sqlite_vfs`
has one file.

| Formula | What happens | Instance |
|---|---|---|
| `BufferManager!PersistDurable` | the loop of `persist` runs from `poff` to `nr_pages` instead of `poff + nr_pages`; with an offset the end of the range is not written (`demo_buffer_manager.cc:559`) | `MCPaging.cfg`, `PagingSpec` |
| `BufferManager!OnlyAnchoredReturn` | after a crash any region file counts as an anchored region (`:519`) | `MCPaging.cfg`, `Spec` |
| `BufferManager!FreePageInRamOrSwap` | the page in reserve (`:198`) can be used up by persistent pages; what holds is `VictimExists` | `MCPaging.cfg`, `PagingSpec` |
| `BufferManager!NothingReservedInVain` | `allocate` reserves its pages and does not give them back when `add_region` fails (`:262`) | `MCRestart.cfg`, `Spec` |
| `BufferManager!AnchoredNotShadowed` | `get_anchored_region` fails, `allocate` goes on and puts an anonymous region under the id; as long as it is there the anchored one cannot be reached (`client_manager.cc:357`) | `MCRestart.cfg`, `Spec` |
| `PageIo!SwapInReturnsPage` | after a short `pread` the rest of the page goes to the start of the buffer (`:312`) | constants of `MCPageIo.cfg`, `Spec` |
| `PageIo!SwapOutWritesPage` | a failing first `pwrite` wraps the index, the loop ends with nothing written and the page counts as clean (`:372`) | constants of `MCPageIo.cfg`, `Spec` |
| `PageIo!LoopsEndAlways` | on a file system that stays full in the middle of a page `init_file` writes one unit, fails, steps back and writes it again (`:32`) | one page, `FairSpec` |
| `ClientManager!AttachFits` | the region is replaced by a smaller one between `get_size` and `map`; the attach, which should never fail, ends the process (`damemory.cc:250`) | 1 id, 2 processes, 1 window, sizes 1-2, `SharingSpec` |
| `ClientManager!FaultStaysInRegion` | a fault of a region that was unmapped meanwhile is looked up without regard to size and resolved in the region below (`client_manager.cc:209`) | 2 ids, 1 process, size 1, 2 pages of address space |
| `ClientManager!UnmappedIsGone` | `xpmem_remove` fails in the last unmap, and the region stays with a map count of 0 (`client_manager.cc:456`) | `MCSharing.cfg` |
| `DamemoryApi!PersistReportsErrors` | `persist` returns 0 when the manager refused; only `errno` tells (`damemory.cc:295`) | 1 thread |
| `DamemoryApi!SizeIsTheRegions` | a size of 2 GiB or more comes back cut to an `int` (`damemory.cc:160`) | sizes 1, 2, 4 |
| `DamemoryApi!InitReadies` | `init` after `close` does nothing (`damemory.cc:84`) | 1 thread |
| `DemoVfs!FileStays` | an id is the first 8 bytes of the path: a file and its journal share a region, and deleting one deletes both (`damemorydemovfs.h:237`) | `Paths <- SharedPrefix`, 2 slots |
| `DemoVfs!SizeFits` | the manager dies between the anchoring of a new file and its first size; the size is then made of fill bytes (`:316`) | 1 file, 2 slots |
| `DemoVfs!AccessInRegion` | the access check ignores the header, so the last bytes of a full region are taken beyond its end (`:99`) | 1 file, 2 slots |
| `DemoVfs!DeleteFindsFile` | `unanchor` knows loaded regions only; after a restart of the manager a file that exists cannot be deleted (`:337`) | 1 file, 2 slots |
| `JournalFile!DeleteIsDurable` | a synced delete of a file that an unsynced one removed returns before the deletion is durable (`demovfs.h:472`) | file of 1 byte, buffer of 1 |
| `PfTest!ClientAlwaysReachesFile` | (2) is pressed while the handler is between its `mmap` and its unblock; the unblock undoes main's, and the client reaches anonymous memory that is not registered yet (`server.c:48`) | 4 pages, `Spec` |

## Proofs

`BufferManager_proofs` proves, for any finite sets of ids, frames (at least two)
and swap entries, any page bound and any client data:

* `OwnershipHolds`: `Spec => []OwnershipInv`;
* `TypeCorrect`: `Spec => []TypeOK`;
* `FramesAreOwned`, `SwapEntriesAreOwned`: the invariants `PageOwnership` and
  `SwapOwnership` of run `buffer_paging`;
* `ImplementsStore`: `Spec => ImplementsRegionStore`, the property of
  `buffer_restart` that lets `ClientManager` be built over `RegionStore`.

`OwnershipInv` is `TypeOK /\ PageOwnership /\ SwapOwnership /\ Tidy`. The first
three are not inductive: `free` of a region clears the page table of its own pages
only, so one has to know that nothing beyond a region's size, or of a region that
is not loaded, has an entry; that an unloaded id is neither persistent nor
anchored; and that only present pages are writable. That is `Tidy`. The proof has one
lemma per action; the long one is `UnfixSwappingOut`, where two pages and one frame
change hands and the swap entry of one may pass to the other.

`BufferManager_contents` proves, on top of `OwnershipInv` and under the same
assumptions:

* `ContentsHold`: `Spec => [](OwnershipInv /\ ContentsInv)`;
* `NothingIsLost`, `CleanPagesHold`, `AnchoredRegionsSurvive`, `ReserveHolds`,
  `AVictimExists`: the invariants `NoLostWrite`, `CleanPagesAreSafe`,
  `AnchoredSurvives`, `CapacityReserved` and `VictimExists` of the two runs;
* `PersistIsDurable`, `FilesFollow`: their action properties `PersistPrefixDurable` and
  `FilesFollowMemory`.

`ContentsInv` is `CleanPagesAreSafe /\ Remembered /\ FilesInv /\ AnchoredSurvives`.
That a page can be read back (`Remembered`) after it was dropped without being written
rests on its being clean and then equal to its file (`CleanPagesAreSafe`). `FilesInv` ties
files to persistent regions: as large as their region, nothing beyond, and what is not
loaded is in the file, an anonymous region that is loaded under the file's id
notwithstanding; a region that is loaded again finds its pages through it. The numbers are
counted: `CapacityReserved` adds the pages of whole regions, which are disjoint sets of
`n` pages each, and a step of `allocate` or `free` moves as many between the two sides.
`VictimExists` follows from it without an induction of its own: if no page could go,
every frame and every swap entry would hold a different anonymous page, by two
injections, which is one page more than were given out.

The assumptions of both are those on the constants in `BufferManager`: finite sets, two
frames, sizes between 1 and the page bound.

`Quicksort_proofs` proves, for an array of any length `N` and any integers:

* `SortInvariant`: `Spec => []SortInv`;
* `QuicksortSorts`, `QuicksortPermutes`: the invariants `Sorted` and `OnlyPermuted` of
  run `quicksort`;
* `CallsStayIndependent`: `Spec => []CallsAreIndependent`.

`SortInv` is `TypeOK /\ OnlyPermuted /\ CallsAreIndependent /\ Partitioned /\
DisorderIsPending`. That the array is in order at the end says nothing about the
way there. `DisorderIsPending` does: two elements in the wrong order lie in the range
of one call that is still to be made or under way. A partition must not bring
disorder between ranges, for which one has to know that ranges do not meet and that
no element has to move from one to another (`CallsAreIndependent`), and what the loop
has established so far (`Partitioned`). The assumptions are `N \in Nat` and integer
values.

`FaultHandling_proofs` proves of `FaultHandling`, for any clients, pages, regions and frames:

* `FaultsHold`: `Spec => []FaultInv`;
* `PagesAreSeen`, `WritesAreSeen`, `CleanPagesAreWritten`: the invariants
  `ClientsSeeTheirPages`, `WritesAreNoticed` and `CleanMeansWritten` of run
  `fault_steps`.

`FaultInv` says for each position of the holder of the mutex what it relies on.
`OwnershipInv`: a frame is that of one page, and one on its way from a page to another
is nobody's. `MappingInv`: clients have their access from the manager's page table,
which has exactly the pages in frames, and while a page is outside a registered range
its region is blocked and nobody has access. `ContentsInv`: a page in a frame has what
clients wrote last, a clean or absent one has it in the file. `PersistInv`: what
`persist` has protected and written so far. The invariants of the run say nothing of
the middle of a replacement, where the frame's contents belong to neither page. The
assumptions are a finite set of frames that is not empty, and that `None` is neither a
frame nor a message.

Of `PageIo`, for any number and size of pages, it proves:

* `IoHolds`: `Io!Spec => []IoInv`;
* `BytesStayInPlace`, `TransfersAreComplete`: the invariants `WrittenInPlace` and
  `CompleteUnlessFailed` of run `page_io`.

A loop that has ended says nothing of how it got there, so `IoInv` adds what the one under
way has done: unless a call failed, all units behind its index are in the file
(`BehindIndex`), and the loop that ended before it was about another page, which its writes do
not reach (`LastIsOver`). The latter, and that each unit goes to its own place, rest on
arithmetic: different pages and offsets have different places in the file (`Places`), and
the remainder of a place by the page size is the offset (`Remainders`, `RemainderOf`). The
assumptions are that there are pages, that they are not empty and that a `size_t` holds
an index into one.

`Threads_proofs` proves of `ManagerThreads`, for any set of clients:

* `ThreadsHold`, `RejoinHolds`: `M!Spec => []ThreadInv`, `M!Spec => []RejoinInv`;
* `NothingIsLeft`, `ReusedPidsAreClean`: `NothingOutlivesMain` and
  `PidReuseStartsClean` of run `manager_threads`;

and of `DamemoryApi`, for any threads, windows, sizes and widths:

* `ApiHolds`: `Spec => []ApiInv`;
* `ResultsReflected`, `WindowsMatch`: `ResultsReflectAnswers` and `WindowsAgree` of run
  `library`.

`ThreadInv` says what each join of the destructors has established when main is past
it, and that only running threads have mappings; `RejoinInv` the same of the join in
`accept_client`.

`ApiInv` says of each thread what is left of its call (`Plans`) and what it has been
told, and that the one past the lock holds the mutex. From this follows that the socket
never has more than that thread's request or the answer to it (`SocketOk`), and so that
no thread reads another's answer. `WindowsAgree` speaks of the time between calls; within
one, a window that the manager has granted is not yet attached, and one it gave up is
still attached (`Granted`, `Released`), each only for the holder of the mutex (`MapsOk`).
The assumptions are the widths, `None` apart from everything else, and what powers of two
are, which the provers do not compute (`PowersAssumption`; TLC evaluates it).

`ClientManager_proofs` proves, for any ids, sizes and address space and any finite
sets of clients and windows:

* `ClientsHold`: `Spec => []ClientInv`;
* `HandlesAreBacked`, `NoRegionIsLost`: the invariants of run `client_sharing`, here
  with page faults as well;
* `MapcountHolds`, `FaultsFindTheirRegion`: the invariants `MapcountExact` and
  `FaultFindsRegion` of run `client_faults`.

`ClientInv` is `ShareInv /\ PlacesInv /\ SegmentInv`. That a free window has no mapping
is known only of a process that makes calls: one that died keeps its mappings until
its thread ends, and one between the answer and the attach has a mapping and no handle
yet (`MappingInv`). `PlacesInv` says that loaded regions do not overlap and that
`m_region_map` has exactly the known ones, without which the search for the region of
an address finds another. `SegmentInv` says that a segment id still held by a handle, an
attach under way or a fault is the id of that region or of none, although regions are
replaced meanwhile. Counting is by cardinality of the set of mappings (`Maps`): one
more, one less, or all of one client at once at the end of its thread. The assumptions
are those on the constants: finite sets of clients and windows, sizes from 1 to
`MaxPages`, and `None` apart from everything else.

`Sqlite_proofs` proves, for files of any size and any bytes:

* `ContentIsKept`, `SyncedDataSurvives`: `ContentKept` and `SyncedSurvives` of run
  `sqlite_vfs`, for any number of files whose ids differ (`DistinctIds`);
* `JournalIsPlainFile`: `J!Spec => ImplementsPlainFile`, that `JournalFile` implements
  `PlainFile`, for any size of the write buffer.

`DistinctIds` says that no two paths agree in what `path_to_id` keeps of them. It is
needed: of two that do, one overwrites the other (`FileStays` in the table above). With one
file, as in the run, it holds. The invariant of the first two is `VInv`: regions of
existing files are anchored and have their whole file, what an operation has done before
its next call (`OperationInv`), and what a sync promised is in the region's file
(`Promises`).

The invariant of the third is `JInv`: what the operating system keeps (`OsInv`), the
buffer (`BufferInv`), and what the handle says about both (`HandleInv`). The file that
SQLite sees has three layers: the file of the operating system, the write buffer over
it, and over both the rest of a write that is still being copied. A step that copies
bytes to the buffer, or writes the buffer to the file, moves bytes from one layer to the
next and changes nothing that can be seen (lemmas `CopyLayers`, `FlushLayers` and
`QuietLayers`); what may survive a crash is the union of what the layers hold. A crash
then takes the upper two layers away, for which one has to know that behind every end
which the file may have after it there is nothing (the last conjunct of `OsInv`). Each
action has a lemma that it is a step of `PlainFile` or a stutter. The assumptions are
sizes above zero, at least two slots for a file of `DemoVfs`, and a zero byte.

`Xpmem_proofs` proves, for any number of pages, client threads and increments and any
length of the configuration:

* `MessagesApart`, `PhasesKeptApart`: `NoMisread` and `PhasesApart` of run
  `xpmem_programs`;
* `PagesReachFile`, `IncrementsKept`: its invariants `ClientReachesFile` and
  `NoIncrementLost`.

The benchmark's invariant, `BInv`, sees the pipe to the client as a window on one stream
of words, from what the client has read to what the server has written (`StreamInv`): a
word's place in the stream says which message it belongs to, whichever of the two is
ahead. `SumInv` and `FaultsInv` say that each sum and each fault in the system has one
waiting for it, `ThreadsInv` that the barrier keeps phases apart. Of the page fault
test it is proved that `overlapped \/ PfInv` is inductive: as long as the page-out meets
no fault, nobody but main unblocks page faults before it is done, so the client cannot
fault on a page that is taken away and not yet registered (`PfPageOut`), and the handler
works on registered pages only (`PfHandler`); the ghost, once set, stays. `MmInv` says, for each position of the server, which of the two
frames counts and that the client cannot have the other.

Model-checked only: liveness (`AbandonedIsReclaimed`, `FaultsAreAnswered`, `ShutdownEnds`, `WaitsEnd`,
`LoopsEnd`, `ProgramsFinish`, `SortEnds`), which under fairness is outside what TLAPS
proves.

## Not modelled

* `m_page_infos`, which is reserved and indexed without being resized: every frame
  has its record.
* The fallback for kernels without minor faults.
* Faults and `persist` of anonymous regions at the level of system calls
  (`FaultHandling` has persistent pages); page contents and numbers together with
  several frames are in `BufferManager`.
* The command line, a function of the arguments that runs before anything else; its
  limits appear as assumptions on constants.
* SQLite and the SQL statements of its demos; path names, time and dynamic loading
  of the VFS, which have no state.
* The printing of the tests and demos, the times of the benchmark and its shell
  scripts, a shared memory file that a killed run left half filled, the experiments
  (one-off probes of the kernel) and logging.

## Further work

`FaultHandling` shown to implement the single steps of `BufferManager`.

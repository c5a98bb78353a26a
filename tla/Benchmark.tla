------------------------------ MODULE Benchmark ------------------------------
(***************************************************************************)
(* The latency benchmark: a server that hands out memory and resolves page *)
(* faults, and the client program it starts, whose threads touch every     *)
(* page.  They talk through two named pipes that both open for reading and *)
(* writing; the server pages everything out while the client is still      *)
(* attached, and that is what it measures.                                 *)
(*                                                                         *)
(* With config.xpmem threads fault on segments of the server; without it   *)
(* they map the shared memory file themselves.  A page stands for          *)
(* `vpagesize' bytes, and stepsize = vpagesize: one access per page.  Pipes*)
(* hold 4-byte words, the unit in which messages could get out of step.    *)
(***************************************************************************)
EXTENDS Integers, Sequences, FiniteSets

CONSTANTS
    NPages,      \* memsize / vpagesize
    MaxClients,  \* bound on config.nclients; main sets it to 1
    ConfigWords  \* sizeof(benchmark_config) / 4

ASSUME SizesAssumption == NPages \in Nat \ {0} /\ MaxClients \in 1..NPages /\ ConfigWords \in Nat \ {0}

VARIABLES
    config,       \* benchmark_config
    shm,          \* first byte of each page of the shared memory file
    seg,          \* how each page of segaddr is mapped in the server
    server,       \* where the server's main thread is, and its counter
    handler,      \* what the server's uffd_handler is doing
    client,       \* where the client's main thread is, and its counter
    thread,       \* each of the client's threads
    faults,       \* pages in the userfaultfd
    fifo_server,  \* words from the server to the client
    fifo_clients, \* words from the client to the server
    sum           \* what the server has read

vars == <<config, shm, seg, server, handler, client, thread, faults, fifo_server, fifo_clients, sum>>
memory == <<config, shm, seg, faults, handler>>
pipes == <<fifo_server, fifo_clients>>

AllPages == 0..(NPages - 1)
Threads == 0..(config.nclients - 1)
SegSize == NPages \div config.nclients
\* Page of the shared memory file at position k of thread t.
PageOf(t, k) == t * SegSize + k

At(p, pc) == p.pc = pc
NewThread == [pc |-> "none", k |-> 0, sum |-> 0, waits |-> FALSE]

\* The file is new, or was filled by an earlier run.
Init ==
    /\ config \in [xpmem : BOOLEAN, pageout : BOOLEAN, nclients : 1..MaxClients]
    /\ shm \in {[p \in AllPages |-> v] : v \in {0, 1}}
    /\ seg = [p \in AllPages |-> "missing"] /\ faults = {}
    /\ server = [pc |-> "fill", k |-> 0] /\ client = [pc |-> "none", k |-> 0]
    /\ handler = [pc |-> "none", page |-> 0]
    /\ thread = [t \in Threads |-> NewThread]
    /\ fifo_server = << >> /\ fifo_clients = << >> /\ sum = 0

\* A message and how a process reads one: both ends have the pipe open for
\* writing, so a read waits for words and returns those there are.
Words(kind, value, n) == [i \in 1..n |-> [kind |-> kind, value |-> IF i = 1 THEN value ELSE 0]]
Drop(fifo, n) == SubSeq(fifo, n + 1, Len(fifo))
ReadAs(fifo, kind, n) == Len(fifo) >= n /\ \A i \in 1..n : fifo[i].kind = kind

(***************************************************************************)
(* The server.                                                             *)
(***************************************************************************)
Fill ==
    /\ At(server, "fill") /\ server' = [server EXCEPT !.pc = "fork"]
    /\ shm' = IF shm[0] # 1 THEN [p \in AllPages |-> 1] ELSE shm
    /\ UNCHANGED <<config, seg, faults, handler, client, thread, pipes, sum>>

\* fork() and execl() of the client, or execl() fails and the child aborts.
Fork ==
    /\ At(server, "fork") /\ server' = [server EXCEPT !.pc = "config"]
    /\ client' \in {[client EXCEPT !.pc = pc] : pc \in {"config", "aborted"}}
    /\ UNCHANGED <<memory, thread, pipes, sum>>

WriteConfig_Twice ==
    /\ At(server, "config")
    /\ server' = [server EXCEPT !.pc = IF config.xpmem THEN "segids" ELSE "sum"]
    /\ fifo_server' = fifo_server \o Words("config", 0, ConfigWords) \o Words("config", 0, 1)
    /\ handler' = IF config.xpmem THEN [handler EXCEPT !.pc = "read"] ELSE handler
    /\ UNCHANGED <<config, shm, seg, faults, client, thread, fifo_clients, sum>>
WriteConfig ==
    /\ At(server, "config")
    /\ server' = [server EXCEPT !.pc = IF config.xpmem THEN "segids" ELSE "sum"]
    /\ fifo_server' = fifo_server \o Words("config", 0, ConfigWords)
    /\ handler' = IF config.xpmem THEN [handler EXCEPT !.pc = "read"] ELSE handler
    /\ UNCHANGED <<config, shm, seg, faults, client, thread, fifo_clients, sum>>

WriteSegid ==
    /\ At(server, "segids")
    /\ fifo_server' = fifo_server \o Words("segid", server.k, 2)
    /\ server' = IF server.k + 1 < config.nclients THEN [server EXCEPT !.k = @ + 1]
                 ELSE [pc |-> "sum", k |-> 0]
    /\ UNCHANGED <<memory, client, thread, fifo_clients, sum>>

\* The server reads an int where the client wrote an unsigned long.
ReadSum ==
    /\ At(server, "sum") /\ fifo_clients # << >>
    /\ IF ReadAs(fifo_clients, "sum", 1)
       THEN /\ sum' = fifo_clients[1].value
            /\ server' = [server EXCEPT !.pc = IF config.xpmem THEN "page_out" ELSE "done"]
       ELSE sum' = sum /\ server' = [server EXCEPT !.pc = "misread"]
    /\ fifo_clients' = Drop(fifo_clients, 1)
    /\ UNCHANGED <<memory, client, thread, fifo_server>>

\* One round of the loop: register for minor faults, madvise, copy the page.
PageOut ==
    /\ At(server, "page_out")
    /\ seg' = [seg EXCEPT ![server.k] = "minor"]
    /\ shm' = IF config.pageout
              THEN [shm EXCEPT ![(server.k + NPages \div 2) % NPages] = shm[server.k]] ELSE shm
    /\ server' = IF server.k + 1 < NPages THEN [server EXCEPT !.k = @ + 1]
                 ELSE [pc |-> "wake", k |-> 0]
    /\ UNCHANGED <<config, faults, handler, client, thread, pipes, sum>>

\* The end of benchmark_xpmem destroys a thread that can be joined, which ends
\* the process by std::terminate; it would have ended here anyway.
WakeClient ==
    /\ At(server, "wake")
    /\ fifo_server' = fifo_server \o Words("nop", 0, 1)
    /\ server' = [server EXCEPT !.pc = "done"] /\ handler' = [handler EXCEPT !.pc = "none"]
    /\ UNCHANGED <<config, shm, seg, faults, client, thread, fifo_clients, sum>>

\* mmap(), userfaultfd or xpmem_make() fails.
ServerAborts ==
    /\ At(server, "segids")
    /\ server' = [server EXCEPT !.pc = "aborted"] /\ handler' = [handler EXCEPT !.pc = "none"]
    /\ UNCHANGED <<config, shm, seg, faults, client, thread, pipes, sum>>

(***************************************************************************)
(* uffd_handler: read a fault, write the page, map it, wake its thread.    *)
(***************************************************************************)
ReadFault(p) ==
    /\ At(handler, "read") /\ p \in faults
    /\ handler' = [pc |-> "map", page |-> p]
    /\ faults' = faults \ {p} /\ shm' = [shm EXCEPT ![p] = 1]
    /\ UNCHANGED <<config, seg, server, client, thread, pipes, sum>>

MapPage ==
    /\ At(handler, "map") /\ handler' = [handler EXCEPT !.pc = "wake"]
    /\ seg' = [seg EXCEPT ![handler.page] = "shared"]
    /\ UNCHANGED <<config, shm, faults, server, client, thread, pipes, sum>>

Woken_NextPage(t) == PageOf(t, thread[t].k) = handler.page + 1
Woken(t) == PageOf(t, thread[t].k) = handler.page

WakeThread ==
    /\ At(handler, "wake") /\ handler' = [handler EXCEPT !.pc = "read"]
    /\ thread' = [t \in Threads |-> IF Woken(t) THEN [thread[t] EXCEPT !.waits = FALSE]
                                                 ELSE thread[t]]
    /\ UNCHANGED <<config, shm, seg, faults, server, client, pipes, sum>>

(***************************************************************************)
(* The client's main thread.                                               *)
(***************************************************************************)
ReadConfig ==
    /\ At(client, "config") /\ fifo_server # << >>
    /\ client' = [client EXCEPT !.pc =
                     IF ReadAs(fifo_server, "config", ConfigWords) THEN "threads" ELSE "misread"]
    /\ fifo_server' = Drop(fifo_server, ConfigWords)
    /\ UNCHANGED <<memory, server, thread, fifo_clients, sum>>

NextThread == IF client.k + 1 < config.nclients THEN [client EXCEPT !.k = @ + 1]
              ELSE [pc |-> "join", k |-> 0]
Start(t) == thread' = [thread EXCEPT ![t].pc = "start"]

StartXpmem ==
    /\ At(client, "threads") /\ config.xpmem /\ fifo_server # << >>
    /\ fifo_server' = Drop(fifo_server, 2)
    /\ IF ReadAs(fifo_server, "segid", 2) /\ fifo_server[1].value = client.k
       THEN client' = NextThread /\ Start(client.k)
       ELSE client' = [client EXCEPT !.pc = "misread"] /\ UNCHANGED thread
    /\ UNCHANGED <<memory, server, fifo_clients, sum>>

StartShm ==
    /\ At(client, "threads") /\ ~config.xpmem
    /\ client' = NextThread /\ Start(client.k)
    /\ UNCHANGED <<memory, server, pipes, sum>>

TotalSum == LET Total[t \in Nat] == IF t = config.nclients THEN 0 ELSE thread[t].sum + Total[t + 1]
            IN  Total[0]

Joined == \A t \in Threads : At(thread[t], "done")

AfterSum == IF config.xpmem THEN "nop" ELSE "done"

WriteSum ==
    /\ At(client, "join") /\ Joined
    /\ fifo_clients' = fifo_clients \o Words("sum", TotalSum, 2)
    /\ client' = [client EXCEPT !.pc = AfterSum]
    /\ UNCHANGED <<memory, server, thread, fifo_server, sum>>

ReadNop ==
    /\ At(client, "nop") /\ fifo_server # << >>
    /\ client' = [client EXCEPT !.pc = IF ReadAs(fifo_server, "nop", 1) THEN "done" ELSE "misread"]
    /\ fifo_server' = Drop(fifo_server, 1)
    /\ UNCHANGED <<memory, server, thread, fifo_clients, sum>>

\* The file cannot be opened, a thread cannot map or attach, or its segment went
\* away with the server.  All threads end with the process.
ClientAborts ==
    /\ \/ At(client, "threads") /\ ~config.xpmem /\ client.k = 0
       \/ \E t \in Threads : At(thread[t], "start")
       \/ At(server, "aborted") /\ \E t \in Threads : At(thread[t], "access")
    /\ client' = [client EXCEPT !.pc = "aborted"]
    /\ thread' = [t \in Threads |-> NewThread]
    /\ UNCHANGED <<memory, server, pipes, sum>>

(***************************************************************************)
(* run_xpmem and run_shm.  A barrier lets its threads go when all of them  *)
(* have arrived: none is still in an earlier phase.                        *)
(***************************************************************************)
Phases == <<"none", "start", "barrier_mmap", "mmap", "barrier_pf", "access",
            "barrier_madv", "madv", "done">>
Rank(pc) == CHOOSE i \in DOMAIN Phases : Phases[i] = pc

\* Attach the segment, or reserve room for the file; then arrive at the barrier.
Prepare(t) ==
    /\ At(thread[t], "start")
    /\ thread' = [thread EXCEPT ![t].pc = IF config.xpmem THEN "barrier_pf" ELSE "barrier_mmap"]
    /\ UNCHANGED <<memory, server, client, pipes, sum>>

arrive_and_wait_Alone(t) == TRUE
arrive_and_wait(t) == \A u \in Threads : Rank(thread[u].pc) >= Rank(thread[t].pc)

Pass(t) ==
    /\ thread[t].pc \in {"barrier_mmap", "barrier_pf", "barrier_madv"}
    /\ arrive_and_wait(t)
    /\ thread' = [thread EXCEPT ![t].pc = Phases[Rank(@) + 1]]
    /\ UNCHANGED <<memory, server, client, pipes, sum>>

\* Map the thread's part of the file, page by page.
Mmap(t) ==
    /\ At(thread[t], "mmap")
    /\ thread' = [thread EXCEPT ![t].k = (@ + 1) % SegSize,
                                ![t].pc = IF thread[t].k + 1 < SegSize THEN @ ELSE "barrier_pf"]
    /\ UNCHANGED <<memory, server, client, pipes, sum>>

Missing(t) == config.xpmem /\ seg[PageOf(t, thread[t].k)] = "missing"

Touch(t) ==
    /\ At(thread[t], "access") /\ thread[t].k < SegSize
    /\ ~Missing(t) /\ ~thread[t].waits
    /\ thread' = [thread EXCEPT ![t].sum = @ + shm[PageOf(t, thread[t].k)], ![t].k = @ + 1]
    /\ UNCHANGED <<memory, server, client, pipes, sum>>

Fault(t) ==
    /\ At(thread[t], "access") /\ thread[t].k < SegSize
    /\ Missing(t) /\ ~thread[t].waits
    /\ faults' = faults \cup {PageOf(t, thread[t].k)}
    /\ thread' = [thread EXCEPT ![t].waits = TRUE]
    /\ UNCHANGED <<config, shm, seg, handler, server, client, pipes, sum>>

Touched(t) ==
    /\ At(thread[t], "access") /\ thread[t].k = SegSize
    /\ thread' = [thread EXCEPT ![t].pc = IF config.xpmem THEN "done" ELSE "barrier_madv",
                                ![t].k = 0]
    /\ UNCHANGED <<memory, server, client, pipes, sum>>

Madvise(t) ==
    /\ At(thread[t], "madv")
    /\ LET k == thread[t].k
       IN  /\ shm' = IF config.pageout
                     THEN [shm EXCEPT ![PageOf(t, (k + SegSize \div 2) % SegSize)] = shm[PageOf(t, k)]]
                     ELSE shm
           /\ thread' = [thread EXCEPT ![t].k = k + 1,
                                       ![t].pc = IF k + 1 < SegSize THEN @ ELSE "done"]
    /\ UNCHANGED <<config, seg, faults, handler, server, client, pipes, sum>>

ServerStep == Fill \/ Fork \/ WriteConfig \/ WriteSegid \/ ReadSum \/ PageOut \/ WakeClient \/ ServerAborts
HandlerStep == (\E p \in AllPages : ReadFault(p)) \/ MapPage \/ WakeThread
ClientStep == ReadConfig \/ StartXpmem \/ StartShm \/ WriteSum \/ ReadNop \/ ClientAborts
ThreadStep(t) ==
    t \in Threads /\ (\/ Prepare(t) \/ Pass(t) \/ Mmap(t) \/ Touch(t) \/ Fault(t)
                      \/ Touched(t) \/ Madvise(t))

Next == ServerStep \/ HandlerStep \/ ClientStep \/ \E t \in 0..(MaxClients - 1) : ThreadStep(t)

Spec == Init /\ [][Next]_vars

\* Threads and processes run whenever they can.
FairSpec ==
    /\ Spec /\ WF_vars(ServerStep) /\ WF_vars(HandlerStep) /\ WF_vars(ClientStep)
    /\ \A t \in 0..(MaxClients - 1) : WF_vars(ThreadStep(t))

(***************************************************************************)
(* Properties.                                                             *)
(***************************************************************************)

\* Type invariant.
TypeOK ==
    /\ shm \in [AllPages -> {0, 1}] /\ seg \in [AllPages -> {"missing", "shared", "minor"}]
    /\ faults \subseteq AllPages /\ sum \in 0..NPages
    /\ server.pc \in {"fill", "fork", "config", "segids", "sum", "page_out", "wake", "done",
                     "aborted", "misread"}
    /\ client.pc \in {"none", "config", "threads", "join", "nop", "done", "aborted", "misread"}
    /\ \A t \in Threads : thread[t].k \in 0..SegSize /\ thread[t].sum \in 0..NPages
    /\ \A t \in Threads : thread[t].pc \in {"barrier_madv", "madv"} => thread[t].k < SegSize
    /\ Len(fifo_server) <= ConfigWords + 2 * MaxClients + 1 /\ Len(fifo_clients) <= 2

\* No read takes words of another message, although the pipes keep no borders
\* between messages and the server leaves half of the sum unread.
NoMisread == server.pc # "misread" /\ client.pc # "misread"

\* Everyone measures one phase at a time: no thread faults pages in while another
\* already gives its pages up, and while the server pages out, the client is
\* attached and quiet, waiting for the pipe, with no fault in flight.
PhasesApart ==
    /\ \A t, u \in Threads : At(thread[t], "madv") => ~At(thread[u], "access")
    /\ server.pc \in {"page_out", "wake"} =>
           client.pc = "nop" /\ faults = {} /\ handler.pc = "read" /\ Joined

\* Unless one of them gives up early, server and client both end; then the sum
\* that reached the server counts every page of every thread once, and nothing
\* but its unread half is in the pipes.
BenchmarkEnds ==
    <>(\/ server.pc = "aborted" \/ client.pc = "aborted"
       \/ server.pc = "done" /\ client.pc = "done" /\ sum = SegSize * config.nclients
          /\ fifo_server = << >> /\ Len(fifo_clients) = 1)
=============================================================================

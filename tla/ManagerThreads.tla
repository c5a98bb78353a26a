--------------------------- MODULE ManagerThreads ---------------------------
(***************************************************************************)
(* The threads of damanager and how they end: main, the accept thread, the *)
(* userfault thread and one thread per client, with the eventfd that tells *)
(* them to stop, m_mutex, and the joins of the destructors.  What a call   *)
(* does to regions is in ClientManager; here a client has mappings or not. *)
(*                                                                         *)
(* A thread's step is what it does between two points at which it can be   *)
(* held up: a poll, a read that blocks, a lock, a join.                    *)
(***************************************************************************)
EXTENDS Integers, Sequences, FiniteSets

CONSTANTS
    Clients,      \* pids of client processes
    MaxConnects,  \* bound on the connections, of new processes or with used pids
    MaxBroken,    \* bound on the threads that a failing poll() has ended
    MaxCount,     \* largest value of an eventfd (2^64 - 2)
    None

VARIABLES
    eventfd,     \* counter of shutdown_eventfd
    signalled,   \* SIGINT or SIGTERM is pending, and main has not seen it
    main,        \* where main, and then ~client_manager, is
    acceptor,    \* accept_clients
    taken,       \* the client accept_client is about
    userfaults,  \* handle_userfaults
    thread,      \* handle_calls of each client in m_clients
    mutex,       \* thread that holds m_mutex
    mapped,      \* clients with mappings in m_mappings
    backlog,     \* connections not yet accepted
    conn,        \* pid of such a connection: not sent, sent
    hup,         \* clients whose thread has a socket the peer closed
    request,     \* clients with a call in the socket
    faultq,      \* page faults in the userfaultfd
    connects,    \* connections made so far
    lib,         \* what each process does
    broken       \* ghost: the threads that left their loops because poll() failed

manager == <<eventfd, main, acceptor, taken, userfaults, thread, mutex, mapped, broken>>
kernel  == <<signalled, backlog, conn, hup, request, faultq, connects>>
vars    == <<manager, kernel, lib>>

Init ==
    /\ connects = 0 /\ eventfd = 0 /\ signalled = FALSE /\ broken = {}
    /\ main = "poll" /\ acceptor = "poll" /\ userfaults = "poll"
    /\ taken = None /\ mutex = None
    /\ thread = [c \in Clients |-> "none"]
    /\ conn = [c \in Clients |-> "none"]
    /\ lib = [c \in Clients |-> "off"]
    /\ mapped = {} /\ hup = {} /\ request = {}
    /\ backlog = << >> /\ faultq = << >>

Alive == main # "exited"
shutdown == eventfd > 0
Without(q, c) == SelectSeq(q, LAMBDA d : d # c)

\* write() to the eventfd: a value that does not fit is refused (EFD_NONBLOCK).
Write(v) == eventfd' = IF eventfd + v <= MaxCount THEN eventfd + v ELSE eventfd

\* shutdown_manager writes 4 bytes, an eventfd wants 8: EINVAL.
shutdown_manager == UNCHANGED eventfd

(***************************************************************************)
(* main and the destructor of client_manager.                              *)
(***************************************************************************)
MainWoken ==
    /\ main = "poll"
    /\ signalled \/ shutdown
    /\ shutdown_manager
    /\ main' = "destroy" /\ signalled' = FALSE
    /\ UNCHANGED <<acceptor, taken, userfaults, thread, mutex, mapped, broken,
                   backlog, conn, hup, request, faultq, connects, lib>>

\* 2^64 - 1, which an eventfd refuses.
DestroyStarts_Refused ==
    /\ main = "destroy"
    /\ Write(MaxCount + 1)
    /\ main' = "join_accept"
    /\ UNCHANGED <<acceptor, taken, userfaults, thread, mutex, mapped, broken, kernel, lib>>
DestroyStarts ==
    /\ main = "destroy"
    /\ Write(MaxCount)
    /\ main' = "join_accept"
    /\ UNCHANGED <<acceptor, taken, userfaults, thread, mutex, mapped, broken, kernel, lib>>

Joined_AcceptOnly ==
    main = "join_accept" /\ acceptor = "ended" /\ main' = "clear"
Joined ==
    \/ main = "join_accept" /\ acceptor = "ended" /\ main' = "join_userfault"
    \/ main = "join_userfault" /\ userfaults = "ended" /\ main' = "clear"
Join ==
    /\ Joined
    /\ UNCHANGED <<eventfd, acceptor, taken, userfaults, thread, mutex, mapped, broken, kernel, lib>>

\* m_clients.clear() joins each client's thread and closes its socket.
ClearClients ==
    /\ main = "clear"
    /\ \A c \in Clients : thread[c] \in {"none", "ended"}
    /\ thread' = [c \in Clients |-> "none"]
    /\ main' = "close"
    /\ UNCHANGED <<eventfd, acceptor, taken, userfaults, mutex, mapped, broken, kernel, lib>>

\* Closing the sockets drops connections nobody accepted; closing the
\* userfaultfd lets faulting threads go on.
CloseFds ==
    /\ main = "close"
    /\ main' = "exited"
    /\ backlog' = << >> /\ faultq' = << >>
    /\ conn' = [c \in Clients |-> "none"]
    /\ lib' = [c \in Clients |-> IF lib[c] = "faulting" THEN "idle" ELSE lib[c]]
    /\ UNCHANGED <<eventfd, acceptor, taken, userfaults, thread, mutex, mapped, broken,
                   signalled, hup, request, connects>>

(***************************************************************************)
(* The accept thread.                                                      *)
(***************************************************************************)

\* poll_or_shutdown looks at the eventfd first.
AcceptStops ==
    /\ acceptor = "poll" /\ shutdown
    /\ shutdown_manager
    /\ acceptor' = "ended"
    /\ UNCHANGED <<main, taken, userfaults, thread, mutex, mapped, broken, kernel, lib>>

Accept ==
    /\ acceptor = "poll" /\ ~shutdown
    /\ backlog # << >>
    /\ taken' = Head(backlog)
    /\ backlog' = Tail(backlog)
    /\ acceptor' = "read_pid"
    /\ UNCHANGED <<eventfd, main, userfaults, thread, mutex, mapped, broken,
                   signalled, conn, hup, request, faultq, lib, connects>>

\* read() blocks until the pid is there or the client is gone.
ReadPid ==
    /\ acceptor = "read_pid"
    /\ \/ conn[taken] = "sent" /\ acceptor' = "replace" /\ UNCHANGED <<taken, conn>>
       \/ /\ conn[taken] = "silent" /\ lib[taken] = "dead"
          /\ acceptor' = "poll" /\ taken' = None
          /\ conn' = [conn EXCEPT ![taken] = "none"]
    /\ UNCHANGED <<eventfd, main, userfaults, thread, mutex, mapped, broken,
                   signalled, backlog, hup, request, faultq, lib, connects>>

\* A client with the same pid is destroyed first, which joins its thread.
MayReplace_Always(c) == TRUE
MayReplace(c) == thread[c] \in {"none", "ended"}
AddClient ==
    /\ acceptor = "replace"
    /\ MayReplace(taken)
    /\ thread' = [thread EXCEPT ![taken] = "poll"]
    /\ conn' = [conn EXCEPT ![taken] = "none"]
    /\ hup' = IF lib[taken] = "dead" THEN hup \cup {taken} ELSE hup \ {taken}
    /\ acceptor' = "poll" /\ taken' = None
    /\ broken' = broken \ {taken}
    /\ UNCHANGED <<eventfd, main, userfaults, mutex, mapped,
                   signalled, backlog, request, faultq, lib, connects>>

(***************************************************************************)
(* The userfault thread.                                                   *)
(***************************************************************************)
UserfaultStops ==
    /\ userfaults = "poll" /\ shutdown
    /\ shutdown_manager
    /\ userfaults' = "ended"
    /\ UNCHANGED <<main, acceptor, taken, thread, mutex, mapped, broken, kernel, lib>>

UserfaultReady ==
    /\ userfaults = "poll" /\ ~shutdown
    /\ faultq # << >>
    /\ userfaults' = "lock"
    /\ UNCHANGED <<eventfd, main, acceptor, taken, thread, mutex, mapped, broken, kernel, lib>>

\* The faulting thread is not woken.
HandleUserfault_NotWoken ==
    /\ userfaults = "lock" /\ mutex = None
    /\ userfaults' = "poll"
    /\ faultq' = IF faultq = << >> THEN faultq ELSE Tail(faultq)
    /\ UNCHANGED <<eventfd, main, acceptor, taken, thread, mutex, mapped, broken,
                   signalled, backlog, conn, hup, request, lib, connects>>

\* handle_userfault, under m_mutex.  The fault may be gone with its process.
HandleUserfault ==
    /\ userfaults = "lock" /\ mutex = None
    /\ userfaults' = "poll"
    /\ faultq' = IF faultq = << >> THEN faultq ELSE Tail(faultq)
    /\ lib' = IF faultq = << >> THEN lib ELSE [lib EXCEPT ![Head(faultq)] = "idle"]
    /\ UNCHANGED <<eventfd, main, acceptor, taken, thread, mutex, mapped, broken,
                   signalled, backlog, conn, hup, request, connects>>

(***************************************************************************)
(* Client threads.                                                         *)
(***************************************************************************)
Step(c, at, to) == thread[c] = at /\ thread' = [thread EXCEPT ![c] = to]

\* poll_or_shutdown: the eventfd, then a closed socket (POLLHUP), then a call.
PollClient(c) ==
    /\ \/ (shutdown \/ c \in hup) /\ Step(c, "poll", "cleanup") /\ UNCHANGED request
       \/ ~shutdown /\ c \in request \ hup /\ Step(c, "poll", "lock") /\ request' = request \ {c}
    /\ UNCHANGED <<eventfd, main, acceptor, taken, userfaults, mutex, mapped, broken,
                   signalled, backlog, conn, hup, faultq, lib, connects>>

LockClient(c) ==
    /\ Step(c, "lock", "call") /\ mutex = None
    /\ mutex' = c
    /\ UNCHANGED <<eventfd, main, acceptor, taken, userfaults, mapped, broken, kernel, lib>>

\* handle_call: some calls leave the client with a mapping, some without.
HandleCall(c) ==
    /\ Step(c, "call", "answer")
    /\ mapped' \in {mapped \cup {c}, mapped \ {c}}
    /\ mutex' = None
    /\ UNCHANGED <<eventfd, main, acceptor, taken, userfaults, broken, kernel, lib>>

Answer(c) ==
    /\ Step(c, "answer", "poll")
    /\ c \notin hup
    /\ lib' = [lib EXCEPT ![c] = "idle"]
    /\ UNCHANGED <<eventfd, main, acceptor, taken, userfaults, mutex, mapped, broken, kernel>>

\* write() to a socket the client has closed fails with EPIPE (a SEQPACKET
\* socket raises no SIGPIPE), and the thread leaves its loop.
AnswerFails(c) ==
    /\ Step(c, "answer", "cleanup")
    /\ c \in hup
    /\ UNCHANGED <<eventfd, main, acceptor, taken, userfaults, mutex, mapped, broken, kernel, lib>>

\* The end of handle_calls.
CleanUp(c) ==
    /\ Step(c, "cleanup", "ended") /\ mutex = None
    /\ mapped' = mapped \ {c}
    /\ UNCHANGED <<eventfd, main, acceptor, taken, userfaults, mutex, broken, kernel, lib>>

\* poll() fails: accept_clients, handle_userfaults and handle_calls leave their
\* loops, main goes on as if it had been woken.
PollFails ==
    /\ \/ /\ main = "poll" /\ main' = "destroy"
          /\ signalled' = FALSE
          /\ UNCHANGED <<acceptor, userfaults, thread, broken>>
       \/ /\ Cardinality(broken) < MaxBroken
          /\ \/ /\ acceptor = "poll" /\ acceptor' = "ended" /\ broken' = broken \cup {"accept"}
                /\ UNCHANGED <<userfaults, thread>>
             \/ /\ userfaults = "poll" /\ userfaults' = "ended" /\ broken' = broken \cup {"userfault"}
                /\ UNCHANGED <<acceptor, thread>>
             \/ \E c \in Clients : /\ Step(c, "poll", "cleanup") /\ broken' = broken \cup {c}
                                   /\ UNCHANGED <<acceptor, userfaults>>
          /\ UNCHANGED <<main, signalled>>
    /\ shutdown_manager
    /\ UNCHANGED <<taken, mutex, mapped, backlog, conn, hup, request, faultq, connects, lib>>

(***************************************************************************)
(* Client processes and signals.                                           *)
(***************************************************************************)
\* Both signals are blocked; one that comes when main no longer waits does nothing.
Signal ==
    /\ main = "poll" /\ ~signalled
    /\ signalled' = TRUE
    /\ UNCHANGED <<manager, backlog, conn, hup, request, faultq, lib, connects>>

\* damemory_init: connect, then send the pid.
Connect(c) ==
    /\ Alive /\ lib[c] = "off" /\ connects < MaxConnects
    /\ connects' = connects + 1
    /\ lib' = [lib EXCEPT ![c] = "joining"]
    /\ conn' = [conn EXCEPT ![c] = "silent"]
    /\ backlog' = Append(backlog, c)
    /\ UNCHANGED <<manager, signalled, hup, request, faultq>>
SendPid(c) ==
    /\ lib[c] = "joining"
    /\ lib' = [lib EXCEPT ![c] = IF conn[c] = "silent" THEN "idle" ELSE "dead"]
    /\ conn' = [conn EXCEPT ![c] = IF @ = "silent" THEN "sent" ELSE @]
    /\ UNCHANGED <<manager, signalled, backlog, hup, request, faultq, connects>>

Call(c) ==
    /\ lib[c] = "idle"
    /\ lib' = [lib EXCEPT ![c] = "calling"]
    /\ request' = request \cup {c}
    /\ UNCHANGED <<manager, signalled, backlog, conn, hup, faultq, connects>>

\* call_manager finds the connection closed: the process ends.
Served(c) == conn[c] # "none" \/ thread[c] # "none"
CallFails(c) ==
    /\ lib[c] = "calling" /\ ~Served(c)
    /\ lib' = [lib EXCEPT ![c] = "dead"]
    /\ request' = request \ {c}
    /\ UNCHANGED <<manager, signalled, backlog, conn, hup, faultq, connects>>

\* A page fault on memory that the manager has the client's mapping of.
Fault(c) ==
    /\ Alive /\ lib[c] = "idle" /\ conn[c] = "none" /\ c \in mapped
    /\ lib' = [lib EXCEPT ![c] = "faulting"]
    /\ faultq' = Append(faultq, c)
    /\ UNCHANGED <<manager, signalled, backlog, conn, hup, request, connects>>

Die(c) ==
    /\ lib[c] \notin {"off", "dead"}
    /\ lib' = [lib EXCEPT ![c] = "dead"]
    /\ hup' = IF conn[c] = "none" THEN hup \cup {c} ELSE hup
    /\ request' = request \ {c}
    /\ faultq' = Without(faultq, c)
    /\ UNCHANGED <<manager, signalled, backlog, conn, connects>>

\* The pid is used again.
Reuse(c) ==
    /\ connects < MaxConnects /\ lib[c] = "dead" /\ conn[c] = "none"
    /\ lib' = [lib EXCEPT ![c] = "off"]
    /\ UNCHANGED <<manager, kernel>>

MainNext == MainWoken \/ DestroyStarts \/ Join \/ ClearClients \/ CloseFds
AcceptNext == AcceptStops \/ Accept \/ ReadPid \/ AddClient
ThreadNext(c) == PollClient(c) \/ HandleCall(c) \/ Answer(c) \/ AnswerFails(c)
ProcessNext(c) ==
    Connect(c) \/ SendPid(c) \/ Call(c) \/ CallFails(c) \/ Fault(c) \/ Die(c) \/ Reuse(c)

Next ==
    \/ MainNext \/ AcceptNext \/ UserfaultStops \/ UserfaultReady \/ HandleUserfault
    \/ PollFails \/ Signal
    \/ \E c \in Clients : ThreadNext(c) \/ LockClient(c) \/ CleanUp(c) \/ ProcessNext(c)

Spec == Init /\ [][Next]_vars

\* A thread that can go on does so, and obtains a mutex that is free again and
\* again; between connect() and the write of the pid, and once a call has
\* failed, the library waits for nothing.
Fairness ==
    /\ WF_vars(MainNext) /\ WF_vars(AcceptNext)
    /\ SF_vars(UserfaultStops \/ UserfaultReady \/ HandleUserfault)
    /\ \A c \in Clients :
           /\ SF_vars(ThreadNext(c) \/ LockClient(c) \/ CleanUp(c))
           /\ WF_vars(SendPid(c) \/ CallFails(c))

FairSpec == Spec /\ Fairness

(***************************************************************************)
(* Properties.                                                             *)
(***************************************************************************)
\* Type invariant.
TypeOK ==
    /\ eventfd \in 0 .. MaxCount
    /\ main \in {"poll", "destroy", "join_accept", "join_userfault", "clear", "close", "exited"}
    /\ acceptor \in {"poll", "read_pid", "replace", "ended"}
    /\ taken \in Clients \cup {None} /\ mutex \in Clients \cup {None}
    /\ userfaults \in {"poll", "lock", "ended"}
    /\ thread \in [Clients -> {"none", "poll", "lock", "call", "answer", "cleanup", "ended"}]
    /\ conn \in [Clients -> {"none", "silent", "sent"}]
    /\ lib \in [Clients -> {"off", "joining", "idle", "calling", "faulting", "dead"}]
    /\ backlog \in Seq(Clients) /\ faultq \in Seq(Clients)
    /\ mapped \cup hup \cup request \subseteq Clients
    /\ signalled \in BOOLEAN /\ connects \in Nat
    /\ broken \subseteq Clients \cup {"accept", "userfault"}

\* When the fds are closed and main returns no thread is left that could use
\* them, and every client's mappings have been taken back.
NothingOutlivesMain ==
    main \in {"close", "exited"} =>
        /\ acceptor = "ended" /\ userfaults = "ended"
        /\ \A c \in Clients : thread[c] = "none"
        /\ mutex = None /\ mapped = {}

\* accept_client: a process that gets the pid of an earlier one starts without
\* the mappings of that one.
PidReuseStartsClean ==
    [][\A c \in Clients : thread[c] # "poll" /\ thread'[c] = "poll" /\ acceptor = "replace" /\ taken = c
           => c \notin mapped]_vars

\* SIGINT, or a failing poll in main, ends the manager, even if one of its other
\* threads has ended by itself and whatever its clients do, except one: a client
\* that has connected sends its pid or dies (accept_client waits for the pid).
ShutdownEnds == signalled \/ main # "poll" ~> ~Alive

\* A call gets an answer or finds the connection closed, and a page fault is
\* served or let go when the manager ends, although all compete for m_mutex.
\* Excepted are calls when poll() failed in the accept thread or in the
\* client's own, and faults when it failed in the userfault thread.
WaitsEnd ==
    \A c \in Clients :
        /\ lib[c] = "calling" ~> lib[c] # "calling" \/ broken \cap {"accept", c} # {}
        /\ lib[c] = "faulting" ~> lib[c] # "faulting" \/ "userfault" \in broken
=============================================================================

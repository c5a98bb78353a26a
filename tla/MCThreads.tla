------------------------------ MODULE MCThreads ------------------------------
(***************************************************************************)
(* ManagerThreads under names that differ from those of the library: both  *)
(* ends of the socket have a mutex.                                        *)
(***************************************************************************)
EXTENDS Integers

CONSTANTS Clients, MaxConnects, MaxBroken, MaxCount, NoClient

ASSUME MaxCountAssumption == MaxCount \in Nat \ {0}

VARIABLES
    eventfd, signalled, main, acceptor, taken, userfaults, thread, m_mutex, mapped, backlog,
    conn, hup, request, faultq, connects, lib, broken

M == INSTANCE ManagerThreads WITH mutex <- m_mutex, None <- NoClient

ManagerSpec == M!FairSpec

\* ~Manager: when main closes the descriptors no thread is left that could use them,
\* and every client's mappings have been taken back.
NothingOutlivesMain == M!NothingOutlivesMain

\* accept_client: who gets the pid of an earlier process has none of its mappings.
PidReuseStartsClean == M!PidReuseStartsClean

\* main: SIGINT or a failing poll() ends the manager, whatever its other threads do
\* and its clients, if those that connect send their pids or die.
ShutdownEnds == M!ShutdownEnds

\* A call is answered or finds the connection closed, and a page fault is served or
\* let go, unless poll() failed in the thread that should have done so.
WaitsEnd == M!WaitsEnd
=============================================================================

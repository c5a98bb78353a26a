------------------------------- MODULE MCXpmem -------------------------------
(***************************************************************************)
(* The programs that page memory under an attached client by XPMEM and     *)
(* userfaultfd without the manager: the benchmark and the two tests.  They *)
(* share nothing, and a behaviour is a run of one of them.                 *)
(***************************************************************************)
EXTENDS Benchmark

CONSTANTS
    TestPages,   \* NPages of PfTest
    Adds, First  \* of MmTest

ASSUME TestsAssumption == TestPages \in Nat \ {0} /\ Adds \in Nat /\ First \in Nat

VARIABLES
    program,
    p_shm, p_backing, p_registered, p_protected, p_access, p_blocked, p_message,
    p_handler, p_main, p_client, p_overlapped,
    m_shm, m_backing, m_registered, m_attached, m_message, m_server, m_val, m_client

Pf == INSTANCE PfTest WITH
    NPages <- TestPages, shm <- p_shm, backing <- p_backing, registered <- p_registered,
    protected <- p_protected, access <- p_access, blocked <- p_blocked, message <- p_message,
    handler <- p_handler, main <- p_main, client <- p_client, overlapped <- p_overlapped
Mm == INSTANCE MmTest WITH
    shm <- m_shm, backing <- m_backing, registered <- m_registered, attached <- m_attached,
    message <- m_message, server <- m_server, val <- m_val, client <- m_client

pf == <<p_shm, p_backing, p_registered, p_protected, p_access, p_blocked, p_message, p_handler,
        p_main, p_client, p_overlapped>>
mm == <<m_shm, m_backing, m_registered, m_attached, m_message, m_server, m_val, m_client>>
all == <<program, vars, pf, mm>>

ProgramsInit ==
    /\ program \in {"benchmark", "pf-test", "mm-test"}
    /\ Init /\ Pf!Init /\ Mm!Init
    /\ program # "benchmark" => config = [xpmem |-> TRUE, pageout |-> TRUE, nclients |-> 1] /\ shm[0] = 1

InBenchmark == program = "benchmark" /\ UNCHANGED <<program, pf, mm>>
InPfTest    == program = "pf-test" /\ UNCHANGED <<program, vars, mm>>
InMmTest    == program = "mm-test" /\ UNCHANGED <<program, vars, pf>>

ProgramsNext ==
    (InBenchmark /\ Next) \/ (InPfTest /\ Pf!Next) \/ (InMmTest /\ Mm!Next)

\* As in the FairSpec of each.
ProgramsSpec ==
    /\ ProgramsInit /\ [][ProgramsNext]_all
    /\ WF_all(InBenchmark /\ ServerStep) /\ WF_all(InBenchmark /\ HandlerStep)
    /\ WF_all(InBenchmark /\ ClientStep)
    /\ \A t \in 0..(MaxClients - 1) : WF_all(InBenchmark /\ ThreadStep(t))
    /\ WF_all(InPfTest /\ Pf!Button) /\ WF_all(InPfTest /\ Pf!ClientStep)
    /\ WF_all(InPfTest /\ Pf!HandlerStep) /\ WF_all(InPfTest /\ Pf!MainStep)
    /\ WF_all(InMmTest /\ Mm!ServerStep) /\ WF_all(InMmTest /\ Mm!ClientStep)

\* PfTest: the client never has a page in its page table that is not the shared
\* memory file, also while main maps anonymous memory over the pages it uses,
\* unless that happens in the middle of handle_userfault.
ClientReachesFile == Pf!ClientReachesFile

\* MmTest: the exchange of the frame loses no increment of the client.
NoIncrementLost == Mm!NoIncrementLost

\* Each run ends as it should: the benchmark's programs with the complete sum and
\* the pipes in order, unless one gives up; the page fault test with every page as
\* the client wrote it, unless it pages out in the middle of a fault; the client
\* of the memory management test counts to the end.
ProgramsFinish ==
    /\ program = "benchmark" => BenchmarkEnds
    /\ program = "pf-test" => Pf!TestEnds
    /\ program = "mm-test" => Mm!ClientFinishes
==============================================================================

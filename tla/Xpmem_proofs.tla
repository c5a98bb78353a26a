----------------------------- MODULE Xpmem_proofs ----------------------------
(***************************************************************************)
(* Theorems about the programs that page memory under an attached client   *)
(* without the manager, for any number of pages, rounds and threads: the   *)
(* two tests keep what their clients wrote, and the benchmark reads whole  *)
(* messages and measures one phase at a time.                              *)
(***************************************************************************)
EXTENDS MCXpmem, TLAPS

\* How long a prover may look for the proof of a leaf.
USE ZenonT(60)

(***************************************************************************)
(* xpmem-uffd-mm-test.  Where the server is determines which frame counts, *)
(* and whether the client can have it.                                     *)
(***************************************************************************)
Counted == First + Adds - m_client.left

MmFrame ==
    /\ m_server \in {"fault_1", "map_1"} =>
           m_backing = "anon" /\ m_registered = {"missing"} /\ ~m_attached /\ m_client.pc = "set"
    /\ m_server \in {"wake_1", "page_out"} => m_backing = "old" /\ m_registered = {}
    /\ m_server \in {"madvise", "copy", "fault_2", "page_in", "map_2"} =>
           m_backing = "old" /\ m_registered = {"missing", "minor"}
    /\ m_server \in {"copy", "fault_2", "page_in", "map_2"} => ~m_attached
    /\ m_server \in {"wake_2", "exit"} => m_backing = "new" /\ m_registered = {}

MmValues ==
    /\ m_client.pc # "set" => m_shm[IF m_backing = "new" THEN "new" ELSE "old"] = Counted
    /\ m_client.pc = "store" => m_client.tmp = Counted
    /\ m_server \in {"fault_2", "page_in", "map_2"} => m_val = m_shm["old"]
    /\ m_server = "map_2" => m_shm["new"] = m_val

ClientRecords == [pc : {"set", "load", "store", "done"}, left : Nat, tmp : Int, waits : BOOLEAN]

MmTypes ==
    /\ m_shm \in [{"old", "new"} -> Int]
    /\ m_client \in ClientRecords
    /\ m_client.pc = "set" => m_client.left = Adds
    /\ m_client.pc \in {"load", "store"} => m_client.left > 0
    /\ m_server \in {"fault_1", "map_1", "wake_1", "page_out", "madvise", "copy", "fault_2",
                     "page_in", "map_2", "wake_2", "exit"}

\* The inductive invariant.
MmInv == MmTypes /\ MmFrame /\ MmValues

\* The test starts in it.
LEMMA MmStarts == Mm!Init => MmInv
BY SMTT(30), TestsAssumption DEF ClientRecords, Mm!Init, MmInv, MmTypes, MmFrame, MmValues

\* The client's instructions keep it: they count in the frame that counts.
LEMMA InstructionKeeps ==
    ASSUME MmInv, Mm!Instruction
    PROVE  MmInv'
<1>s. /\ m_client.pc # "done" /\ m_attached
      /\ UNCHANGED <<m_backing, m_registered, m_attached, m_message, m_server, m_val>>
  BY DEF Mm!Instruction, Mm!Runs, Mm!kernel
<1>b. m_backing \in {"old", "new"} /\ m_server \notin {"fault_1", "map_1", "fault_2", "page_in", "map_2"}
  BY SMTT(30), <1>s DEF MmInv, MmFrame, MmTypes
<1>1. CASE m_client.pc = "load"
  <2>1. m_shm' = m_shm /\ m_client' = [m_client EXCEPT !.pc = "store", !.tmp = m_shm[m_backing]]
    BY <1>1 DEF Mm!Instruction
  <2>2. /\ m_client' \in ClientRecords /\ m_client'.pc = "store"
        /\ m_client'.left = m_client.left /\ m_client'.tmp = m_shm[m_backing]
    <3>1. m_shm[m_backing] \in Int
      BY <1>b DEF MmInv, MmTypes
    <3> QED BY <2>1, <3>1 DEF MmInv, MmTypes, ClientRecords
  <2>3. MmTypes' /\ MmFrame'
    BY SMTT(30), <2>1, <2>2, <1>1, <1>b, <1>s DEF MmInv, MmTypes, MmFrame
  <2> QED BY SMTT(30), <2>1, <2>2, <2>3, <1>1, <1>b, <1>s DEF MmInv, MmValues, Counted
<1>2. CASE m_client.pc = "set"
  <2>1. /\ m_shm' = [m_shm EXCEPT ![m_backing] = First]
        /\ m_client' = [m_client EXCEPT !.pc = IF m_client.left = 0 THEN "done" ELSE "load",
                                        !.left = m_client.left]
    BY SMTT(30), <1>2 DEF Mm!Instruction
  <2>2. /\ m_client' \in ClientRecords /\ m_client'.left = m_client.left
        /\ m_client'.pc = IF m_client.left = 0 THEN "done" ELSE "load"
        /\ m_shm'[m_backing] = First /\ m_shm' \in [{"old", "new"} -> Int]
    <3>1. m_client.left \in Nat /\ First \in Int
      BY SMTT(30), <1>2, TestsAssumption DEF MmInv, MmTypes, ClientRecords
    <3>2. m_client' \in ClientRecords
      BY <2>1, <3>1 DEF MmInv, MmTypes, ClientRecords
    <3>3. m_client'.left = m_client.left /\ m_client'.pc = IF m_client.left = 0 THEN "done" ELSE "load"
      BY <2>1 DEF MmInv, MmTypes, ClientRecords
    <3>4. m_shm'[m_backing] = First /\ m_shm' \in [{"old", "new"} -> Int]
      BY SMTT(30), <2>1, <3>1, <1>b DEF MmInv, MmTypes
    <3> QED BY <3>2, <3>3, <3>4
  <2>3. MmTypes' /\ MmFrame'
    BY SMTT(30), <2>2, <1>2, <1>b, <1>s, TestsAssumption DEF MmInv, MmTypes, MmFrame, ClientRecords
  <2> QED BY SMTT(30), <2>2, <2>3, <1>2, <1>b, <1>s, TestsAssumption DEF MmInv, MmTypes, MmValues, Counted
<1>3. CASE m_client.pc = "store"
  <2>1. /\ m_shm' = [m_shm EXCEPT ![m_backing] = m_client.tmp + 1]
        /\ m_client' = [m_client EXCEPT !.pc = IF m_client.left - 1 = 0 THEN "done" ELSE "load",
                                        !.left = m_client.left - 1]
    BY SMTT(30), <1>3 DEF Mm!Instruction
  <2>2. /\ m_client' \in ClientRecords /\ m_client'.left = m_client.left - 1
        /\ m_client'.pc = IF m_client.left - 1 = 0 THEN "done" ELSE "load"
        /\ m_shm'[m_backing] = m_client.tmp + 1 /\ m_shm' \in [{"old", "new"} -> Int]
    <3>1. m_client.left - 1 \in Nat /\ m_client.tmp + 1 \in Int
      BY SMTT(30), <1>3, TestsAssumption DEF MmInv, MmTypes, ClientRecords
    <3>2. m_client' \in ClientRecords
      BY <2>1, <3>1 DEF MmInv, MmTypes, ClientRecords
    <3>3. m_client'.left = m_client.left - 1 /\ m_client'.pc = IF m_client.left - 1 = 0 THEN "done" ELSE "load"
      BY <2>1 DEF MmInv, MmTypes, ClientRecords
    <3>4. m_shm'[m_backing] = m_client.tmp + 1 /\ m_shm' \in [{"old", "new"} -> Int]
      BY SMTT(30), <2>1, <3>1, <1>b DEF MmInv, MmTypes
    <3> QED BY <3>2, <3>3, <3>4
  <2>3. MmTypes' /\ MmFrame'
    BY SMTT(30), <2>2, <1>3, <1>b, <1>s, TestsAssumption DEF MmInv, MmTypes, MmFrame, ClientRecords
  <2> QED BY SMTT(30), <2>2, <2>3, <1>3, <1>b, <1>s, TestsAssumption DEF MmInv, MmTypes, MmValues, Counted, ClientRecords
<1> QED BY <1>1, <1>2, <1>3, <1>s DEF MmInv, MmTypes, ClientRecords

\* Only the client's wait changes.
LEMMA WaitsOnly ==
    ASSUME MmInv, NEW w \in BOOLEAN, m_client' = [m_client EXCEPT !.waits = w],
           UNCHANGED <<m_shm, m_backing, m_registered, m_attached, m_server, m_val>>
    PROVE  MmInv'
<1>1. /\ m_client' \in ClientRecords /\ m_client'.pc = m_client.pc
      /\ m_client'.left = m_client.left /\ m_client'.tmp = m_client.tmp
  BY SMTT(30) DEF MmInv, MmTypes, ClientRecords
<1> QED BY SMTT(30), <1>1 DEF MmInv, MmTypes, MmFrame, MmValues, Counted

\* A fault of the client is answered at once only while the page is in place.
LEMMA FaultKeeps ==
    ASSUME MmInv, Mm!Fault
    PROVE  MmInv'
<1>s. /\ ~m_attached
      /\ UNCHANGED <<m_shm, m_backing, m_registered, m_server, m_val>>
  BY DEF Mm!Fault
<1>1. CASE Mm!Notified
  <2>1. m_client' = [m_client EXCEPT !.waits = TRUE] /\ m_attached' = m_attached
    BY <1>1 DEF Mm!Fault
  <2> QED BY <2>1, <1>s, WaitsOnly
<1>2. CASE ~Mm!Notified
  <2>1. m_client' = m_client
    BY <1>2 DEF Mm!Fault
  <2>2. m_server \in {"wake_1", "page_out", "wake_2", "exit"}
    BY SMTT(30), <1>2 DEF Mm!Notified, MmInv, MmTypes, MmFrame
  <2> QED BY SMTT(30), <2>1, <2>2, <1>s DEF MmInv, MmTypes, MmFrame, MmValues, Counted
<1> QED BY <1>1, <1>2

\* So do the server's steps: the new frame has the copy when it is mapped.
LEMMA MmServerKeeps ==
    ASSUME MmInv, Mm!ServerStep
    PROVE  MmInv'
<1>1. ASSUME NEW from, NEW to, <<from, to>> \in {<<"fault_1", "map_1">>, <<"fault_2", "page_in">>},
             Mm!uffd_read(from, to)
      PROVE  MmInv'
  BY SMTT(30), <1>1 DEF Mm!uffd_read, MmInv, MmTypes, MmFrame, MmValues, Counted
<1>2. CASE Mm!FirstMap
  BY SMTT(30), <1>2 DEF Mm!FirstMap, Mm!MapFrame, MmInv, MmTypes, MmFrame, MmValues, Counted
<1>3. ASSUME NEW from, NEW to, <<from, to>> \in {<<"wake_1", "page_out">>, <<"wake_2", "exit">>},
             Mm!uffd_wake(from, to)
      PROVE  MmInv'
  <2>1. /\ m_client' \in ClientRecords /\ m_client'.pc = m_client.pc
        /\ m_client'.left = m_client.left /\ m_client'.tmp = m_client.tmp
    BY <1>3 DEF Mm!uffd_wake, MmInv, MmTypes, ClientRecords
  <2>2. UNCHANGED <<m_shm, m_backing, m_registered, m_attached, m_val>>
    BY <1>3 DEF Mm!uffd_wake, Mm!kernel
  <2>3. <<m_server, m_server'>> \in {<<"wake_1", "page_out">>, <<"wake_2", "exit">>}
    BY <1>3 DEF Mm!uffd_wake
  <2> QED BY SMTT(30), <2>1, <2>2, <2>3 DEF MmInv, MmTypes, MmFrame, MmValues, Counted
<1>4. CASE Mm!RegisterMinor
  BY SMTT(30), <1>4 DEF Mm!RegisterMinor, MmInv, MmTypes, MmFrame, MmValues, Counted
<1>5. CASE Mm!Madvise
  BY SMTT(30), <1>5 DEF Mm!Madvise, MmInv, MmTypes, MmFrame, MmValues, Counted
<1>6. CASE Mm!CopyOut
  BY SMTT(30), <1>6 DEF Mm!CopyOut, Mm!kernel, MmInv, MmTypes, MmFrame, MmValues, Counted
<1>7. CASE Mm!CopyIn
  BY SMTT(30), <1>7 DEF Mm!CopyIn, Mm!kernel, MmInv, MmTypes, MmFrame, MmValues, Counted
<1>8. CASE Mm!SecondMap
  BY SMTT(30), <1>8 DEF Mm!SecondMap, Mm!MapFrame, MmInv, MmTypes, MmFrame, MmValues, Counted
<1> QED BY SMTT(30), <1>1, <1>2, <1>3, <1>4, <1>5, <1>6, <1>7, <1>8 DEF Mm!ServerStep

\* The exchange of the frame loses no increment, for any number of them and
\* wherever the client is when its page goes.
THEOREM IncrementsKept == Mm!Spec => []NoIncrementLost
<1>1. MmInv /\ [Mm!Next]_Mm!vars => MmInv'
  <2> SUFFICES ASSUME MmInv, [Mm!Next]_Mm!vars PROVE MmInv'
    OBVIOUS
  <2>1. CASE UNCHANGED Mm!vars
    BY <2>1 DEF Mm!vars, MmInv, MmTypes, MmFrame, MmValues, Counted
  <2> QED BY <2>1, InstructionKeeps, FaultKeeps, MmServerKeeps DEF Mm!Next, Mm!ClientStep
<1>2. MmInv => NoIncrementLost
  BY SMTT(30) DEF MmInv, MmTypes, MmFrame, MmValues, Counted, NoIncrementLost, Mm!NoIncrementLost
<1> QED BY MmStarts, <1>1, <1>2, PTL DEF Mm!Spec

(***************************************************************************)
(* xpmem-uffd-pf-test.  While nobody handles a fault, main alone blocks    *)
(* page faults, so that the client cannot fault on what main takes away.   *)
(***************************************************************************)
PfClients == [round : 0 .. 2, op : 1 .. 6, page : Pf!Pages, waits : BOOLEAN]

PfMessages == [page : Pf!Pages, kind : {"none", "major_read", "major_write", "wp"}]
PfHandlers == [pc : {"read", "wup", "block", "mmap", "register", "wp", "unblock", "wake"}, msg : PfMessages]

PfTypes ==
    /\ p_backing \in [Pf!Pages -> {"anon", "shm"}] /\ p_registered \subseteq Pf!Pages
    /\ p_access \in [Pf!Pages -> {"none", "read", "write"}] /\ p_blocked \in BOOLEAN
    /\ p_client \in PfClients
    /\ p_handler \in PfHandlers /\ p_message \in PfMessages
    /\ p_main \in {"prompt_2", "block", "mmap", "register", "prompt_4", "unblock", "prompt_6", "exit"}

\* handle_userfault works on the page the client waits for, and protects or
\* unprotects it while it is registered.
PfHandler ==
    /\ p_handler.pc # "read" => p_message = Pf!NoMessage /\ Pf!Page = p_client.page
    /\ p_message # Pf!NoMessage => p_message.page = p_client.page
    /\ p_handler.pc # "read" \/ p_message # Pf!NoMessage => p_client.waits
    /\ p_message.kind = "wp" => p_message.page \in p_registered
    /\ p_handler.pc \in {"wup", "wp"} => Pf!Page \in p_registered

\* While main pages out, nobody handles a fault.
PfPageOut ==
    /\ p_main \in Pf!PageOut => p_handler.pc = "read" /\ p_message = Pf!NoMessage
    /\ p_main \in {"mmap", "register", "prompt_4", "unblock"} => p_blocked
    /\ p_main \in {"register", "prompt_4", "unblock"} => \A p \in Pf!Pages : p_access[p] = "none"

PfPages ==
    /\ \A p \in Pf!Pages : p_access[p] # "none" => p_backing[p] = "shm"
    /\ p_main # "register" => \A p \in Pf!Pages : p_backing[p] = "anon" => p \in p_registered

\* The inductive invariant, until the page-out meets a fault.
PfInv == PfTypes /\ PfHandler /\ PfPageOut /\ PfPages

\* The client's operations.
LEMMA PfOps == Len(Pf!Ops) = 5
BY SMTT(30) DEF Pf!Ops

\* The test starts in the invariant.
LEMMA PfStarts == Pf!Init => PfInv
<1> SUFFICES ASSUME Pf!Init PROVE PfInv
  OBVIOUS
<1>1. 0 \in Pf!Pages
  BY SMTT(30), TestsAssumption DEF Pf!Pages
<1>2. PfTypes
  <2>1. 0 \in 0 .. 2 /\ 1 \in 1 .. 6
    BY SMTT(30)
  <2>2. p_client \in PfClients
    BY <1>1, <2>1 DEF Pf!Init, PfClients
  <2>3. Pf!NoMessage \in PfMessages
    BY <1>1 DEF PfMessages, Pf!NoMessage
  <2>4. p_handler \in PfHandlers /\ p_message \in PfMessages
    BY <2>3 DEF Pf!Init, PfHandlers
  <2> QED BY <2>1, <2>2, <2>4 DEF Pf!Init, PfTypes
<1>3. PfHandler
  BY SMTT(30), <1>1 DEF Pf!Init, PfHandler, Pf!NoMessage
<1>4. PfPageOut
  BY SMTT(30) DEF Pf!Init, PfPageOut, Pf!PageOut
<1>5. PfPages
  BY SMTT(30) DEF Pf!Init, PfPages
<1> QED BY <1>2, <1>3, <1>4, <1>5 DEF PfInv

\* The buttons: if the client waits for no fault at (2), nobody handles one.
LEMMA ButtonKeeps ==
    ASSUME PfInv, Pf!Button
    PROVE  p_overlapped' \/ PfInv'
<1>1. CASE Pf!ClientButton
  <2>1. /\ p_client' = [p_client EXCEPT !.round = @ + 1, !.op = 1]
        /\ UNCHANGED <<p_backing, p_registered, p_access, p_blocked, p_message, p_handler, p_main>>
        /\ p_client.round = 0 \/ p_client.round = 1
    BY <1>1 DEF Pf!ClientButton, Pf!kernel, Pf!RoundDone
  <2>2. p_client.round + 1 \in 0 .. 2 /\ 1 \in 1 .. 6
    BY SMTT(30), <2>1
  <2>3. /\ p_client' \in PfClients /\ p_client'.page = p_client.page
        /\ p_client'.waits = p_client.waits
    BY <2>1, <2>2 DEF PfInv, PfTypes, PfClients
  <2> QED BY <2>1, <2>3 DEF PfInv, PfTypes, PfHandler, PfPageOut, PfPages, Pf!Page
<1>2. CASE Pf!ServerButton
  <2>s. UNCHANGED <<p_backing, p_registered, p_access, p_blocked, p_message, p_handler, p_client>>
    BY <1>2 DEF Pf!ServerButton, Pf!kernel
  <2>1. CASE p_main = "prompt_2" /\ p_main' = "block" /\ p_overlapped' = (p_overlapped \/ p_client.waits)
    <3> SUFFICES ASSUME ~p_client.waits PROVE PfInv'
      BY <2>1
    <3>1. p_handler.pc = "read" /\ p_message = Pf!NoMessage
      BY DEF PfInv, PfHandler
    <3> QED BY <2>1, <2>s, <3>1 DEF PfInv, PfTypes, PfHandler, PfPageOut, PfPages, Pf!Page
  <2>2. CASE p_main = "prompt_4" /\ p_main' = "unblock"
    BY <2>2, <2>s DEF PfInv, PfTypes, PfHandler, PfPageOut, PfPages, Pf!Page, Pf!PageOut
  <2>3. CASE p_main = "prompt_6" /\ p_main' = "exit"
    BY <2>3, <2>s DEF PfInv, PfTypes, PfHandler, PfPageOut, PfPages, Pf!Page, Pf!PageOut
  <2> QED BY <1>2, <2>1, <2>2, <2>3 DEF Pf!ServerButton
<1> QED BY <1>1, <1>2 DEF Pf!Button

\* The client's accesses: with a page in place only its position changes.
LEMMA AccessKeeps ==
    ASSUME PfInv, Pf!Access
    PROVE  PfInv'
<1>s. /\ Pf!Running /\ ~p_client.waits /\ Pf!Permitted
      /\ UNCHANGED <<p_backing, p_registered, p_protected, p_access, p_blocked, p_message, p_handler,
                     p_main, p_overlapped>>
  BY DEF Pf!Access, Pf!kernel
<1>c. p_client.round \in 0 .. 2 /\ p_client.op \in 1 .. 5 /\ p_client.page \in 0 .. TestPages - 1
  BY SMTT(30), <1>s, PfOps DEF Pf!Running, PfInv, PfTypes, PfClients, Pf!Pages
<1>h. p_handler.pc = "read" /\ p_message = Pf!NoMessage
  BY <1>s DEF PfInv, PfHandler
<1>1. p_client' \in PfClients
  <2>1. CASE p_client.page + 1 < TestPages
    <3>1. p_client' = [p_client EXCEPT !.page = p_client.page + 1]
      BY <2>1 DEF Pf!Access
    <3>2. p_client.page + 1 \in Pf!Pages
      BY SMTT(30), <2>1, <1>c, TestsAssumption DEF Pf!Pages
    <3> QED BY <3>1, <3>2 DEF PfInv, PfTypes, PfClients
  <2>2. CASE ~(p_client.page + 1 < TestPages)
    <3>1. p_client' = [p_client EXCEPT !.page = 0, !.op = p_client.op + 1]
      BY <2>2 DEF Pf!Access
    <3>2. 0 \in Pf!Pages /\ p_client.op + 1 \in 1 .. 6
      BY SMTT(30), <2>2, <1>c, TestsAssumption DEF Pf!Pages
    <3> QED BY <3>1, <3>2 DEF PfInv, PfTypes, PfClients
  <2> QED BY <2>1, <2>2
<1>2. PfTypes'
  BY <1>1, <1>s DEF PfInv, PfTypes
<1>3. PfHandler'
  <2>1. Pf!NoMessage.kind # "wp"
    BY DEF Pf!NoMessage
  <2> QED BY <2>1, <1>h, <1>s DEF PfHandler
<1>4. PfPageOut' /\ PfPages'
  BY <1>s DEF PfInv, PfPageOut, PfPages
<1> QED BY <1>2, <1>3, <1>4 DEF PfInv

\* A fault is answered at once only if the page is in the file; one that is not
\* is told to the handler, which the page-out must not meet.
LEMMA PfFaultKeeps ==
    ASSUME PfInv, Pf!Fault
    PROVE  p_overlapped' \/ PfInv'
<1> DEFINE p == p_client.page
<1>s. /\ Pf!Running /\ ~p_client.waits /\ ~p_blocked
      /\ UNCHANGED <<p_backing, p_registered, p_protected, p_blocked, p_handler, p_main>>
  BY DEF Pf!Fault
<1>c. p \in Pf!Pages
  BY DEF PfInv, PfTypes, PfClients
<1>h. p_handler.pc = "read" /\ p_message = Pf!NoMessage
  BY <1>s DEF PfInv, PfHandler
<1>m. p_main \notin {"mmap", "register", "prompt_4", "unblock"}
  BY <1>s DEF PfInv, PfPageOut
<1>1. CASE Pf!FaultKind(p) = "none"
  <2>1. /\ UNCHANGED <<p_client, p_message>>
        /\ p_access' = [p_access EXCEPT ![p] = IF p \in p_protected THEN "read" ELSE "write"]
    BY <1>1 DEF Pf!Fault
  <2>2. p_backing[p] = "shm"
    <3> SUFFICES ASSUME p_backing[p] # "shm" PROVE FALSE
      OBVIOUS
    <3>1. p_backing[p] = "anon" /\ p \in p_registered /\ p_access[p] = "none"
      BY <1>c, <1>m DEF PfInv, PfTypes, PfPages
    <3> QED BY <3>1, <1>1 DEF Pf!FaultKind
  <2>3. /\ p_access' \in [Pf!Pages -> {"none", "read", "write"}]
        /\ \A q \in Pf!Pages : q # p => p_access'[q] = p_access[q]
    BY <2>1, <1>c DEF PfInv, PfTypes
  <2>4. PfTypes'
    BY <2>1, <2>3, <1>s DEF PfInv, PfTypes
  <2>5. PfHandler'
    BY <2>1, <1>s DEF PfInv, PfHandler, Pf!Page
  <2>6. PfPageOut'
    BY <2>1, <1>h, <1>m, <1>s DEF PfPageOut
  <2>7. PfPages'
    BY <2>2, <2>3, <1>s DEF PfInv, PfPages
  <2> QED BY <2>4, <2>5, <2>6, <2>7 DEF PfInv
<1>2. CASE Pf!FaultKind(p) # "none"
  <2>1. /\ p_message' = [page |-> p, kind |-> Pf!FaultKind(p)]
        /\ p_client' = [p_client EXCEPT !.waits = TRUE] /\ p_access' = p_access
        /\ p_overlapped' = (p_overlapped \/ p_main \in Pf!PageOut)
    BY <1>2 DEF Pf!Fault
  <2> SUFFICES ASSUME p_main \notin Pf!PageOut PROVE PfInv'
    BY <2>1
  <2>2. p_client' \in PfClients /\ p_client'.waits = TRUE /\ p_client'.page = p
    BY <2>1 DEF PfInv, PfTypes, PfClients
  <2>3. /\ p_message' \in PfMessages /\ p_message'.page = p
        /\ p_message'.kind = "wp" => p \in p_registered
    <3>1. Pf!FaultKind(p) \in {"none", "major_read", "major_write", "wp"}
      BY DEF Pf!FaultKind
    <3>2. Pf!FaultKind(p) = "wp" => p \in p_registered
      BY DEF Pf!FaultKind
    <3>3. p_message' \in PfMessages /\ p_message'.page = p /\ p_message'.kind = Pf!FaultKind(p)
      BY <2>1, <3>1, <1>c DEF PfMessages
    <3> QED BY <3>2, <3>3
  <2>4. PfTypes'
    BY <2>1, <2>2, <2>3, <1>s DEF PfInv, PfTypes
  <2>5. PfHandler'
    BY <2>2, <2>3, <1>h, <1>s DEF PfHandler, Pf!Page
  <2>6. PfPageOut' /\ PfPages'
    BY <2>1, <1>m, <1>s DEF PfInv, PfPageOut, PfPages
  <2> QED BY <2>4, <2>5, <2>6 DEF PfInv
<1> QED BY <1>1, <1>2

\* handle_userfault and main change the page the client waits for, or all.
LEMMA HandlerKeeps ==
    ASSUME PfInv, Pf!HandlerStep
    PROVE  PfInv'
<1> DEFINE p == p_handler.msg.page
<1>0. p \in Pf!Pages /\ p_message \in PfMessages /\ p_handler \in PfHandlers /\ p_client \in PfClients
  BY DEF PfInv, PfTypes, PfHandlers, PfMessages
<1>g. \A pc \in {"read", "wup", "block", "mmap", "register", "wp", "unblock", "wake"} :
          Pf!Goto(pc) => p_handler' \in PfHandlers /\ p_handler'.pc = pc /\ p_handler'.msg = p_handler.msg
  BY <1>0 DEF Pf!Goto, PfHandlers
<1>m. ASSUME p_handler.pc # "read" \/ p_message # Pf!NoMessage
      PROVE  p_main \notin Pf!PageOut /\ p_main # "register" /\ p_client.waits
  BY <1>m DEF PfInv, PfPageOut, PfHandler, Pf!PageOut
<1>p. p_handler.pc # "read" => p = p_client.page /\ p_message = Pf!NoMessage
  BY DEF PfInv, PfHandler, Pf!Page
<1>w. ASSUME NEW w \in BOOLEAN, p_client' = [p_client EXCEPT !.waits = w]
      PROVE  p_client' \in PfClients /\ p_client'.waits = w /\ p_client'.page = p_client.page
  BY <1>0, <1>w DEF PfClients
<1>n. Pf!NoMessage \in PfMessages /\ Pf!NoMessage.kind # "wp"
  <2>1. 0 \in Pf!Pages
    BY SMTT(30), TestsAssumption DEF Pf!Pages
  <2> QED BY <2>1 DEF PfMessages, Pf!NoMessage
<1>1. CASE Pf!uffd_read
  <2>1. /\ p_handler.pc = "read" /\ p_message # Pf!NoMessage /\ p_message' = Pf!NoMessage
        /\ p_handler' = [pc |-> IF p_message.kind = "wp" THEN "wup" ELSE "block", msg |-> p_message]
        /\ UNCHANGED <<p_backing, p_registered, p_protected, p_access, p_blocked, p_main, p_client, p_overlapped>>
    BY <1>1 DEF Pf!uffd_read, Pf!kernel
  <2>2. /\ p_handler' \in PfHandlers /\ p_handler'.msg = p_message
        /\ (p_handler'.pc = "wup" /\ p_message.kind = "wp") \/ p_handler'.pc = "block"
    BY <1>0, <2>1 DEF PfHandlers
  <2>3. PfTypes'
    BY <2>1, <2>2, <1>n DEF PfInv, PfTypes
  <2>4. PfHandler'
    BY <2>1, <2>2, <1>m, <1>n DEF PfInv, PfHandler, Pf!Page
  <2>5. PfPageOut' /\ PfPages'
    BY <2>1, <1>m DEF PfInv, PfPageOut, PfPages, Pf!PageOut
  <2> QED BY <2>3, <2>4, <2>5 DEF PfInv
<1>2. CASE Pf!uffd_wup
  <2>1. /\ p_handler.pc = "wup" /\ Pf!Goto("read") /\ p_client' = [p_client EXCEPT !.waits = FALSE]
        /\ UNCHANGED <<p_backing, p_registered, p_access, p_blocked, p_message, p_main, p_overlapped>>
    BY <1>2 DEF Pf!uffd_wup
  <2> QED BY <2>1, <1>g, <1>m, <1>n, <1>p, <1>w DEF PfInv, PfTypes, PfHandler, PfPageOut, PfPages, Pf!PageOut
<1>3. CASE Pf!BlockPfs \/ Pf!UnblockPfs
  <2>1. /\ p_handler.pc \in {"block", "unblock"} /\ (Pf!Goto("mmap") \/ Pf!Goto("wake"))
        /\ p_blocked' \in BOOLEAN
        /\ UNCHANGED <<p_backing, p_registered, p_access, p_message, p_main, p_client, p_overlapped>>
    BY <1>3 DEF Pf!BlockPfs, Pf!UnblockPfs
  <2>2. p_handler' \in PfHandlers /\ p_handler'.pc \in {"mmap", "wake"} /\ p_handler'.msg = p_handler.msg
    BY <2>1, <1>g
  <2> QED BY <2>1, <2>2, <1>m, <1>n, <1>p
    DEF PfInv, PfTypes, PfHandler, PfPageOut, PfPages, Pf!Page, Pf!PageOut
<1>4. CASE Pf!MapShm
  <2>1. /\ p_handler.pc = "mmap" /\ (Pf!Goto("register") \/ Pf!Goto("unblock"))
        /\ p_backing' = [p_backing EXCEPT ![p] = "shm"] /\ p_registered' = p_registered \ {p}
        /\ p_access' = [p_access EXCEPT ![p] = "none"]
        /\ UNCHANGED <<p_blocked, p_message, p_main, p_client, p_overlapped>>
    BY <1>4 DEF Pf!MapShm, Pf!Page
  <2>2. p_handler' \in PfHandlers /\ p_handler'.pc \in {"register", "unblock"} /\ p_handler'.msg = p_handler.msg
    BY <2>1, <1>g
  <2>3. /\ \A q \in Pf!Pages : q # p => p_access'[q] = p_access[q] /\ p_backing'[q] = p_backing[q]
        /\ p_access'[p] = "none" /\ p_backing'[p] = "shm"
        /\ p_access' \in [Pf!Pages -> {"none", "read", "write"}]
        /\ p_backing' \in [Pf!Pages -> {"anon", "shm"}]
    BY <2>1, <1>0 DEF PfInv, PfTypes
  <2>4. PfTypes'
    BY <2>1, <2>2, <2>3 DEF PfInv, PfTypes
  <2>5. PfHandler'
    BY <2>1, <2>2, <1>m, <1>n, <1>p DEF PfInv, PfHandler, Pf!Page
  <2>6. PfPageOut' /\ PfPages'
    BY <2>1, <2>3, <1>m DEF PfInv, PfPageOut, PfPages, Pf!PageOut
  <2> QED BY <2>4, <2>5, <2>6 DEF PfInv
<1>5. CASE Pf!uffd_register
  <2>1. /\ p_handler.pc = "register" /\ Pf!Goto("wp") /\ p_registered' = p_registered \cup {p}
        /\ UNCHANGED <<p_backing, p_access, p_blocked, p_message, p_main, p_client, p_overlapped>>
    BY <1>5 DEF Pf!uffd_register, Pf!Page
  <2> QED BY <2>1, <1>0, <1>g, <1>m, <1>n, <1>p
    DEF PfInv, PfTypes, PfHandler, PfPageOut, PfPages, Pf!Page, Pf!PageOut
<1>6. CASE Pf!uffd_wp
  <2>1. /\ p_handler.pc = "wp" /\ Pf!Goto("unblock")
        /\ p_access' = [p_access EXCEPT ![p] = IF p_access[p] = "write" THEN "read" ELSE p_access[p]]
        /\ UNCHANGED <<p_backing, p_registered, p_blocked, p_message, p_main, p_client, p_overlapped>>
    BY <1>6 DEF Pf!uffd_wp, Pf!Page
  <2>2. /\ p_access' \in [Pf!Pages -> {"none", "read", "write"}]
        /\ \A q \in Pf!Pages : p_access'[q] # "none" => p_access[q] # "none"
    BY <2>1, <1>0 DEF PfInv, PfTypes
  <2>3. p_handler' \in PfHandlers /\ p_handler'.pc = "unblock" /\ p_handler'.msg = p_handler.msg
    BY <2>1, <1>g
  <2>4. PfTypes' /\ PfPages'
    BY <2>1, <2>2, <2>3 DEF PfInv, PfTypes, PfPages
  <2>5. PfHandler' /\ PfPageOut'
    BY <2>1, <2>3, <1>m, <1>n, <1>p DEF PfInv, PfHandler, PfPageOut, Pf!Page, Pf!PageOut
  <2> QED BY <2>4, <2>5 DEF PfInv
<1>7. CASE Pf!uffd_wake
  <2>1. /\ p_handler.pc = "wake" /\ Pf!Goto("read") /\ p_client' = [p_client EXCEPT !.waits = FALSE]
        /\ UNCHANGED <<p_backing, p_registered, p_access, p_blocked, p_message, p_main, p_overlapped>>
    BY <1>7 DEF Pf!uffd_wake, Pf!kernel
  <2> QED BY <2>1, <1>g, <1>m, <1>n, <1>p, <1>w DEF PfInv, PfTypes, PfHandler, PfPageOut, PfPages, Pf!PageOut
<1>8. ~Pf!Abort
  BY DEF Pf!Abort, PfInv, PfHandler
<1> QED BY <1>1, <1>2, <1>3, <1>4, <1>5, <1>6, <1>7, <1>8 DEF Pf!HandlerStep

\* main takes the pages away with faults blocked.
LEMMA MainKeeps ==
    ASSUME PfInv, Pf!MainStep
    PROVE  PfInv'
<1>n. ASSUME p_main \in Pf!PageOut
      PROVE  p_handler.pc = "read" /\ p_message = Pf!NoMessage /\ p_message.kind # "wp"
  <2>1. Pf!NoMessage.kind # "wp"
    BY DEF Pf!NoMessage
  <2> QED BY <1>n, <2>1 DEF PfInv, PfPageOut
<1>1. CASE Pf!PageOutBlock
  BY <1>1 DEF Pf!PageOutBlock, PfInv, PfTypes, PfHandler, PfPageOut, PfPages, Pf!Page, Pf!PageOut
<1>2. CASE Pf!PageOutMmap
  <2>1. /\ p_main = "mmap" /\ p_main' = "register"
        /\ p_backing' = [q \in Pf!Pages |-> "anon"] /\ p_registered' = {}
        /\ p_access' = [q \in Pf!Pages |-> "none"]
        /\ UNCHANGED <<p_blocked, p_message, p_handler, p_client>>
    BY <1>2 DEF Pf!PageOutMmap
  <2>2. p_handler.pc = "read" /\ p_message = Pf!NoMessage /\ p_message.kind # "wp"
    BY <2>1, <1>n DEF Pf!PageOut
  <2> QED BY <2>1, <2>2 DEF PfInv, PfTypes, PfHandler, PfPageOut, PfPages, Pf!Page, Pf!PageOut
<1>3. CASE Pf!PageOutRegister
  <2>1. p_handler.pc = "read" /\ p_message = Pf!NoMessage /\ p_message.kind # "wp"
    BY <1>3, <1>n DEF Pf!PageOutRegister, Pf!PageOut
  <2> QED BY <1>3, <2>1
    DEF Pf!PageOutRegister, PfInv, PfTypes, PfHandler, PfPageOut, PfPages, Pf!Page, Pf!PageOut
<1>4. CASE Pf!Unblock
  BY <1>4 DEF Pf!Unblock, PfInv, PfTypes, PfHandler, PfPageOut, PfPages, Pf!Page, Pf!PageOut
<1> QED BY <1>1, <1>2, <1>3, <1>4 DEF Pf!MainStep

\* No step forgets that the page-out met a fault.
LEMMA OverlapStays ==
    ASSUME p_overlapped, [Pf!Next]_Pf!vars
    PROVE  p_overlapped'
<1>1. CASE UNCHANGED Pf!vars
  BY <1>1 DEF Pf!vars
<1>2. CASE Pf!Button
  BY <1>2 DEF Pf!Button, Pf!ClientButton, Pf!ServerButton
<1>3. CASE Pf!ClientStep
  BY <1>3 DEF Pf!ClientStep, Pf!Access, Pf!Fault
<1>4. CASE Pf!HandlerStep
  BY <1>4 DEF Pf!HandlerStep, Pf!uffd_read, Pf!uffd_wup, Pf!BlockPfs, Pf!MapShm, Pf!uffd_register,
    Pf!uffd_wp, Pf!UnblockPfs, Pf!uffd_wake, Pf!Abort
<1>5. CASE Pf!MainStep
  BY <1>5 DEF Pf!MainStep, Pf!PageOutBlock, Pf!PageOutMmap, Pf!PageOutRegister, Pf!Unblock
<1> QED BY <1>1, <1>2, <1>3, <1>4, <1>5 DEF Pf!Next

\* The client has only pages of the shared memory file, for any number of pages
\* and whenever its accesses fall into the page-out, and no ioctl of the handler
\* fails, unless the page-out meets a fault that is being handled.
THEOREM PagesReachFile == Pf!Spec => []ClientReachesFile
<1> DEFINE Inv == p_overlapped \/ PfInv
<1>1. Inv /\ [Pf!Next]_Pf!vars => Inv'
  <2> SUFFICES ASSUME Inv, [Pf!Next]_Pf!vars PROVE Inv'
    OBVIOUS
  <2>1. CASE p_overlapped
    BY <2>1, OverlapStays
  <2>2. CASE PfInv /\ UNCHANGED Pf!vars
    BY <2>2 DEF Pf!vars, Pf!kernel, PfInv, PfTypes, PfHandler, PfPageOut, PfPages, Pf!Page
  <2>3. CASE PfInv /\ Pf!Next
    BY <2>3, ButtonKeeps, AccessKeeps, PfFaultKeeps, HandlerKeeps, MainKeeps DEF Pf!Next, Pf!ClientStep
  <2> QED BY <2>1, <2>2, <2>3
<1>2. Inv => ClientReachesFile
  BY DEF PfInv, PfTypes, PfPageOut, PfPages, ClientReachesFile, Pf!ClientReachesFile
<1>3. Pf!Init => Inv
  BY PfStarts
<1> QED BY <1>1, <1>2, <1>3, PTL DEF Pf!Spec

(***************************************************************************)
(* The benchmark.  The words in the pipe to the client are a piece of one  *)
(* stream: the configuration, two words for each segment, one to go on.    *)
(***************************************************************************)
WordSet == [kind : {"config", "segid", "nop", "sum"}, value : Int]
AllWords == ConfigWords + 2 * config.nclients
KindAt(i) == IF i <= ConfigWords THEN "config" ELSE IF i <= AllWords THEN "segid" ELSE "nop"

\* f has the words of the stream after the first `from' and up to `to'.
StreamIs(f, from, to) ==
    /\ f \in Seq(WordSet) /\ from \in Nat /\ to \in Nat /\ Len(f) = to - from
    /\ \A i \in 1 .. Len(f) : f[i].kind = KindAt(from + i)
    /\ \A j \in 0 .. config.nclients - 1 :
           LET i == ConfigWords + 2 * j + 1 - from
           IN  i \in 1 .. Len(f) => f[i].value = j

\* A message of n words continues the stream after `to'.
ComeNext(kind, v, n, to) ==
    /\ \A i \in 1 .. n : KindAt(to + i) = kind
    /\ \A j \in 0 .. config.nclients - 1 :
           ConfigWords + 2 * j + 1 \in to + 1 .. to + n => j = v /\ ConfigWords + 2 * j = to

\* How many words the server wrote and the client read.
Sent ==
    CASE server.pc \in {"segids", "aborted"}        -> ConfigWords + 2 * server.k
      [] server.pc \in {"sum", "page_out", "wake"}  -> IF config.xpmem THEN AllWords ELSE ConfigWords
      [] server.pc = "done"                         -> IF config.xpmem THEN AllWords + 1 ELSE ConfigWords
      [] OTHER                                      -> 0
Taken ==
    CASE client.pc = "threads"         -> ConfigWords + IF config.xpmem THEN 2 * client.k ELSE 0
      [] client.pc \in {"join", "nop"} -> IF config.xpmem THEN AllWords ELSE ConfigWords
      [] client.pc = "done"            -> IF config.xpmem THEN AllWords + 1 ELSE ConfigWords
      [] OTHER                         -> 0

Alive == client.pc # "aborted"
StreamInv == Alive => StreamIs(fifo_server, Taken, Sent)

PhaseSet == {"none", "start", "barrier_mmap", "mmap", "barrier_pf", "access", "barrier_madv",
             "madv", "done"}
ThreadRecords == [pc : PhaseSet, k : Nat, sum : Int, waits : BOOLEAN]
Servers == [pc : {"fill", "fork", "config", "segids", "sum", "page_out", "wake", "done", "aborted"},
            k : Nat]
Clients == [pc : {"none", "config", "threads", "join", "nop", "done", "aborted"}, k : Nat]
Handlers == [pc : {"none", "read", "map", "wake"}, page : AllPages]

BTypes ==
    /\ config \in [xpmem : BOOLEAN, pageout : BOOLEAN, nclients : 1 .. MaxClients]
    /\ shm \in [AllPages -> Int] /\ faults \subseteq AllPages
    /\ server \in Servers /\ client \in Clients /\ handler \in Handlers
    /\ thread \in [Threads -> ThreadRecords]

\* The counters, and who runs in which mode.
Counters ==
    /\ server.pc \in {"fill", "fork"} => client.pc = "none"
    /\ server.pc \in {"fill", "fork", "config"} => handler.pc = "none"
    /\ server.pc \in {"fill", "fork", "config", "sum"} => server.k = 0
    /\ server.pc \in {"segids", "aborted"} => server.k < config.nclients
    /\ server.pc = "page_out" => server.k < NPages
    /\ server.pc \in {"segids", "sum", "page_out", "wake"} /\ config.xpmem => handler.pc # "none"
    /\ server.pc \in {"segids", "aborted", "page_out", "wake"} => config.xpmem
    /\ client.pc \in {"none", "config"} => client.k = 0
    /\ client.pc = "threads" => client.k < config.nclients
    /\ client.pc = "nop" => config.xpmem
    /\ ~config.xpmem => handler.pc = "none" /\ faults = {}

\* The client writes its sum once, when its threads are through.
SumInv ==
    IF client.pc \in {"nop", "done"}
    THEN /\ Joined /\ server.pc \in {"sum", "page_out", "wake", "done"}
         /\ server.pc = "sum" => \E v : fifo_clients = << >> \o Words("sum", v, 2)
    ELSE fifo_clients = << >> /\ server.pc \notin {"page_out", "wake", "done"}

\* Every fault in the userfaultfd or in the handler's hands has its thread.
Waiting(t, p) ==
    At(thread[t], "access") /\ thread[t].waits /\ thread[t].k < SegSize /\ PageOf(t, thread[t].k) = p
FaultsInv ==
    Alive =>
        /\ \A p \in faults : \E t \in Threads : Waiting(t, p)
        /\ handler.pc \in {"map", "wake"} =>
               handler.page \notin faults /\ \E t \in Threads : Waiting(t, handler.page)

\* The threads: when they start, which phases they have, and the last barrier.
Late == {"barrier_madv", "madv", "done"}
ThreadsInv ==
    /\ client.pc \in {"none", "config"} => \A t \in Threads : At(thread[t], "none")
    /\ client.pc = "threads" => \A t \in Threads : t >= client.k => At(thread[t], "none")
    /\ \A t \in Threads : thread[t].pc \in {"barrier_madv", "madv"} => thread[t].k < SegSize
    /\ config.xpmem => \A t \in Threads :
           thread[t].pc \notin {"barrier_mmap", "mmap", "barrier_madv", "madv"}
    /\ ~config.xpmem => \A t, u \in Threads :
           thread[t].pc \in {"madv", "done"} => thread[u].pc \in Late

\* The inductive invariant.
BInv == BTypes /\ Counters /\ StreamInv /\ SumInv /\ FaultsInv /\ ThreadsInv

\* A message is as many words as it says.
IsMessage(w, kind, v, n) ==
    /\ w \in Seq(WordSet) /\ Len(w) = n
    /\ \A i \in 1 .. n : w[i].kind = kind
    /\ n > 0 => w[1].value = v

\* What server and client write to a pipe is such a message.
LEMMA WordsAre ==
    ASSUME NEW k \in {"config", "segid", "nop", "sum"}, NEW v \in Int, NEW n \in Nat
    PROVE  IsMessage(Words(k, v, n), k, v, n)
<1>w. PICK w : w = Words(k, v, n)
  OBVIOUS
<1>1. ASSUME NEW i \in 1 .. n
      PROVE  w[i] \in WordSet /\ w[i].kind = k /\ (i = 1 => w[i].value = v)
  <2>1. PICK x : x = IF i = 1 THEN v ELSE 0
    OBVIOUS
  <2>2. x \in Int /\ (i = 1 => x = v)
    BY SMTT(30), <2>1
  <2>3. PICK e : e = w[i]
    OBVIOUS
  <2>4. e = [kind |-> k, value |-> x]
    BY <2>1, <2>3, <1>w DEF Words
  <2>5. e \in WordSet /\ e.kind = k /\ e.value = x
    BY <2>2, <2>4 DEF WordSet
  <2> QED BY <2>2, <2>3, <2>5
<1>2. w \in [1 .. n -> WordSet]
  BY <1>1, <1>w DEF Words
<1>3. w \in Seq(WordSet) /\ Len(w) = n
  BY SMTT(30), <1>2
<1>4. n > 0 => 1 \in 1 .. n
  BY SMTT(30)
<1>5. IsMessage(w, k, v, n)
  BY <1>1, <1>3, <1>4 DEF IsMessage
<1> QED BY <1>5, <1>w

\* The server writes the next words of the stream.
LEMMA StreamGrows ==
    ASSUME NEW f, NEW from, NEW to, StreamIs(f, from, to), config.nclients \in Nat, ConfigWords \in Nat,
           NEW kind \in {"config", "segid", "nop"}, NEW v \in Int, NEW n \in Nat \ {0},
           ComeNext(kind, v, n, to)
    PROVE  StreamIs(f \o Words(kind, v, n), from, to + n)
<1>w. PICK w : w = Words(kind, v, n)
  OBVIOUS
<1>1. /\ w \in Seq(WordSet) /\ Len(w) = n /\ w[1].value = v
      /\ \A i \in 1 .. n : w[i].kind = kind
  <2>1. n \in Nat /\ n > 0
    BY SMTT(30)
  <2>2. IsMessage(w, kind, v, n)
    BY <2>1, <1>w, WordsAre
  <2> QED BY <2>1, <2>2 DEF IsMessage
<1>2. /\ f \in Seq(WordSet) /\ from \in Nat /\ to \in Nat /\ Len(f) = to - from /\ Len(f) \in Nat
      /\ \A i \in 1 .. Len(f) : f[i].kind = KindAt(from + i)
  BY SMTT(30) DEF StreamIs
<1>g. PICK g : g = f \o w
  OBVIOUS
<1>3. /\ g \in Seq(WordSet) /\ Len(g) = to + n - from
      /\ \A i \in 1 .. Len(f) : g[i] = f[i]
      /\ \A i \in 1 .. n : g[Len(f) + i] = w[i]
  <2>1. /\ g \in Seq(WordSet) /\ Len(g) = Len(f) + Len(w)
        /\ \A i \in 1 .. Len(f) : g[i] = f[i]
        /\ \A i \in 1 .. Len(w) : g[Len(f) + i] = w[i]
    <3>1. f \in Seq(WordSet) /\ w \in Seq(WordSet)
      BY <1>1, <1>2
    <3> QED BY SMTT(30), <3>1, <1>g
  <2>2. Len(f) + Len(w) = to + n - from
    BY SMTT(30), <1>1, <1>2
  <2> QED BY <2>1, <2>2, <1>1
<1>4. ASSUME NEW i \in 1 .. Len(g) PROVE g[i].kind = KindAt(from + i)
  <2>1. CASE i <= Len(f)
    BY SMTT(30), <2>1, <1>2, <1>3
  <2>2. CASE i > Len(f)
    <3>1. PICK m \in 1 .. n : i = Len(f) + m
      <4>1. i - Len(f) \in 1 .. n /\ i = Len(f) + (i - Len(f))
        BY SMTT(30), <2>2, <1>2, <1>3
      <4> QED BY <4>1
    <3>2. from + i = to + m
      BY SMTT(30), <3>1, <1>2
    <3>3. g[i].kind = kind
      BY <3>1, <1>1, <1>3
    <3> QED BY <3>1, <3>2, <3>3 DEF ComeNext
  <2> QED BY SMTT(30), <2>1, <2>2, <1>2, <1>3
<1>5. ASSUME NEW j \in 0 .. config.nclients - 1, ConfigWords + 2 * j + 1 - from \in 1 .. Len(g)
      PROVE  g[ConfigWords + 2 * j + 1 - from].value = j
  <2>i. PICK i : i = ConfigWords + 2 * j + 1 - from
    OBVIOUS
  <2>1. CASE i <= Len(f)
    <3>1. i \in 1 .. Len(f) /\ g[i] = f[i]
      BY SMTT(30), <2>i, <2>1, <1>2, <1>3, <1>5
    <3> QED BY <2>i, <3>1 DEF StreamIs
  <2>2. CASE i > Len(f)
    <3>1. ConfigWords + 2 * j + 1 \in to + 1 .. to + n
      BY SMTT(30), <2>i, <2>2, <1>2, <1>3, <1>5
    <3>2. j = v /\ i = Len(f) + 1
      BY SMTT(30), <3>1, <2>i, <1>2 DEF ComeNext
    <3>3. g[Len(f) + 1] = w[1]
      BY SMTT(30), <1>3
    <3> QED BY <2>i, <3>2, <3>3, <1>1
  <2> QED BY SMTT(30), <2>1, <2>2, <2>i, <1>2, <1>3, <1>5
<1>6. to + n \in Nat
  BY SMTT(30), <1>2
<1>7. StreamIs(g, from, to + n)
  BY SMTT(30), <1>2, <1>3, <1>4, <1>5, <1>6 DEF StreamIs
<1> QED BY <1>7, <1>g, <1>w

\* The client takes the first words off.
LEMMA StreamShrinks ==
    ASSUME NEW f, NEW from, NEW to, StreamIs(f, from, to), config.nclients \in Nat, ConfigWords \in Nat,
           NEW n \in Nat, n <= Len(f)
    PROVE  StreamIs(Drop(f, n), from + n, to)
<1>2. /\ f \in Seq(WordSet) /\ from \in Nat /\ to \in Nat /\ Len(f) = to - from /\ Len(f) \in Nat
      /\ \A i \in 1 .. Len(f) : f[i].kind = KindAt(from + i)
  BY SMTT(30) DEF StreamIs
<1>g. PICK g : g = Drop(f, n)
  OBVIOUS
<1>3. /\ g \in Seq(WordSet) /\ Len(g) = to - (from + n)
      /\ \A i \in 1 .. Len(g) : g[i] = f[n + i]
  BY SMTT(30), <1>2, <1>g DEF Drop
<1>4. ASSUME NEW i \in 1 .. Len(g) PROVE g[i].kind = KindAt(from + n + i)
  <2>1. n + i \in 1 .. Len(f) /\ from + (n + i) = from + n + i
    BY SMTT(30), <1>2, <1>3
  <2> QED BY <2>1, <1>2, <1>3
<1>5. ASSUME NEW j \in 0 .. config.nclients - 1, ConfigWords + 2 * j + 1 - (from + n) \in 1 .. Len(g)
      PROVE  g[ConfigWords + 2 * j + 1 - (from + n)].value = j
  <2>1. /\ ConfigWords + 2 * j + 1 - from \in 1 .. Len(f)
        /\ n + (ConfigWords + 2 * j + 1 - (from + n)) = ConfigWords + 2 * j + 1 - from
    BY SMTT(30), <1>2, <1>3, <1>5
  <2>2. f[ConfigWords + 2 * j + 1 - from].value = j
    BY <2>1 DEF StreamIs
  <2> QED BY <2>1, <2>2, <1>3, <1>5
<1>6. from + n \in Nat
  BY SMTT(30), <1>2
<1> QED BY <1>2, <1>3, <1>4, <1>5, <1>6, <1>g DEF StreamIs

\* The types of what the actions read.
LEMMA Reads ==
    ASSUME BTypes
    PROVE  /\ config.xpmem \in BOOLEAN /\ config.nclients \in Nat /\ config.nclients > 0
           /\ config.nclients <= NPages /\ ConfigWords \in Nat /\ ConfigWords > 0
           /\ server.k \in Nat /\ client.k \in Nat /\ NPages \in Nat /\ NPages > 0
<1>1. /\ config.xpmem \in BOOLEAN /\ config.nclients \in 1 .. MaxClients
      /\ server.k \in Nat /\ client.k \in Nat
  BY DEF BTypes, Servers, Clients
<1> QED BY SMTT(30), <1>1, SizesAssumption

\* Where the threads of the benchmark can be.
LEMMA ThreadsAre ==
    ASSUME BTypes, NEW t \in Threads
    PROVE  /\ thread[t].pc \in PhaseSet /\ thread[t].k \in Nat /\ thread[t].sum \in Int
           /\ thread[t].waits \in BOOLEAN /\ t \in Nat /\ t < config.nclients
<1>1. t \in Nat /\ t < config.nclients
  BY SMTT(30), Reads DEF Threads
<1> QED BY <1>1 DEF BTypes, ThreadRecords

\* Threads have the same number of pages, and no two of them share one.
LEMMA Segments ==
    ASSUME BTypes
    PROVE  SegSize \in Nat /\ SegSize > 0 /\ config.nclients * SegSize <= NPages
<1>1. PICK n : n = config.nclients
  OBVIOUS
<1>2. n \in Nat /\ n > 0 /\ n <= NPages /\ NPages \in Nat
  BY <1>1, Reads
<1>3. NPages \div n \in Nat /\ NPages \div n > 0 /\ n * (NPages \div n) <= NPages
  BY SMTT(30), <1>2
<1> QED BY <1>1, <1>3 DEF SegSize

\* The segments of two threads have no page in common.
LEMMA Apart ==
    ASSUME NEW t \in Nat, NEW u \in Nat, NEW s \in Nat, NEW k \in Nat, NEW l \in Nat,
           k < s, l < s, t * s + k = u * s + l
    PROVE  t = u
<1>1. ASSUME NEW a \in Nat, NEW b \in Nat, a < b PROVE a * s + s <= b * s
  <2>1. b - a - 1 \in Nat /\ (b - a - 1) * s \in Nat
    BY SMTT(30), <1>1
  <2>2. b * s = (b - a - 1) * s + a * s + s
    BY SMTT(30), <2>1
  <2> QED BY SMTT(30), <2>1, <2>2
<1>2. ~(t < u)
  BY SMTT(30), <1>1
<1>3. ~(u < t)
  BY SMTT(30), <1>1
<1> QED BY SMTT(30), <1>2, <1>3

\* A thread stays within the pages of the segment.
LEMMA PagesOfThread ==
    ASSUME BTypes, NEW t \in Threads, NEW k \in Nat, k < SegSize
    PROVE  PageOf(t, k) \in AllPages
<1>1. PICK s : s = SegSize
  OBVIOUS
<1>2. PICK n : n = config.nclients
  OBVIOUS
<1>3. /\ s \in Nat /\ n \in Nat /\ n * s <= NPages /\ t \in Nat /\ t < n /\ k < s
      /\ NPages \in Nat
  BY <1>1, <1>2, Segments, ThreadsAre, Reads
<1>4. t * s + k \in 0 .. NPages - 1
  <2>1. (n - t - 1) * s >= 0 /\ n * s = (n - t - 1) * s + t * s + s /\ t * s >= 0
    BY SMTT(30), <1>3
  <2> QED BY SMTT(30), <1>3, <2>1
<1> QED BY <1>1, <1>4 DEF PageOf, AllPages

\* A phase's rank is its place in the list.
LEMMA Ranks ==
    ASSUME NEW pc \in PhaseSet
    PROVE  /\ Rank(pc) \in 1 .. 9 /\ Phases[Rank(pc)] = pc
           /\ pc = "barrier_mmap" => Rank(pc) = 3
           /\ pc = "barrier_pf" => Rank(pc) = 5
           /\ pc = "barrier_madv" => Rank(pc) = 7
           /\ Rank(pc) >= 7 => pc \in Late
<1>1. /\ DOMAIN Phases = 1 .. 9
      /\ Phases[1] = "none" /\ Phases[2] = "start" /\ Phases[3] = "barrier_mmap"
      /\ Phases[4] = "mmap" /\ Phases[5] = "barrier_pf" /\ Phases[6] = "access"
      /\ Phases[7] = "barrier_madv" /\ Phases[8] = "madv" /\ Phases[9] = "done"
  BY SMTT(30) DEF Phases
<1>2. \E i \in DOMAIN Phases : Phases[i] = pc
  BY SMTT(30), <1>1 DEF PhaseSet
<1>3. Rank(pc) \in DOMAIN Phases /\ Phases[Rank(pc)] = pc
  BY <1>2 DEF Rank
<1> QED BY SMTT(30), <1>1, <1>3 DEF Late

\* The parts of the invariant that an action does not touch.
LEMMA SameStream ==
    ASSUME StreamInv, config' = config, fifo_server' = fifo_server, Alive' => Alive,
           Taken' = Taken, Sent' = Sent
    PROVE  StreamInv'
BY DEF StreamInv, StreamIs, KindAt, AllWords

\* A step that writes to or reads from the server's pipe.
LEMMA NewStream ==
    ASSUME NEW f, NEW a, NEW b, StreamIs(f, a, b), config' = config, fifo_server' = f,
           Taken' = a, Sent' = b
    PROVE  StreamInv'
BY DEF StreamInv, StreamIs, KindAt, AllWords

\* A step that leaves threads, faults and the handler alone.
LEMMA SameFaults ==
    ASSUME FaultsInv, UNCHANGED <<config, thread, faults, handler>>, Alive' => Alive
    PROVE  FaultsInv'
BY DEF FaultsInv, Waiting, At, Threads, SegSize, PageOf

\* A step that leaves the threads and the client alone.
LEMMA SameThreads ==
    ASSUME ThreadsInv, UNCHANGED <<config, thread, client>>
    PROVE  ThreadsInv'
BY DEF ThreadsInv, At, Threads, SegSize

\* What a thread's step does to its record.
Moves(t, pc, k, w) ==
    /\ thread' \in [Threads -> ThreadRecords]
    /\ \A u \in Threads : u # t => thread'[u] = thread[u]
    /\ thread'[t].pc = pc /\ thread'[t].k = k /\ (thread'[t].waits <=> w)

\* What such a step must respect.
MayMove(t, pc, k) ==
    /\ thread[t].pc \notin {"none", "done"}
    /\ pc \in {"barrier_madv", "madv"} => k < SegSize
    /\ config.xpmem => pc \notin {"barrier_mmap", "mmap", "barrier_madv", "madv"}
    /\ ~config.xpmem =>
           /\ thread[t].pc \in Late => pc \in Late
           /\ pc \in {"madv", "done"} => pc \in Late /\ \A u \in Threads : thread[u].pc \in Late

\* A thread that runs leaves the programs' order as it is.
LEMMA ThreadMoves ==
    ASSUME BInv, NEW t \in Threads, NEW pc, NEW k, NEW w, Moves(t, pc, k, w), MayMove(t, pc, k),
           UNCHANGED <<config, server, client, pipes, handler>>
    PROVE  StreamInv' /\ SumInv' /\ ThreadsInv'
<1> USE DEF pipes
<1>1. StreamInv'
  <2>1. Taken' = Taken /\ Sent' = Sent /\ (Alive' => Alive)
    BY DEF Taken, Sent, Alive, AllWords
  <2> QED BY <2>1, SameStream DEF BInv
<1>2. client.pc \notin {"none", "config", "nop", "done"} /\ (client.pc = "threads" => ~(t >= client.k))
  BY DEF BInv, ThreadsInv, SumInv, Joined, At, MayMove
<1>3. SumInv'
  BY <1>2 DEF BInv, SumInv
<1>4. ThreadsInv'
  <2>1. Threads' = Threads /\ SegSize' = SegSize
    BY DEF Threads, SegSize
  <2>2. client'.pc = "threads" => \A u \in Threads : u >= client'.k => At(thread[u], "none")'
    BY <1>2 DEF BInv, ThreadsInv, Moves, At
  <2>3. \A u \in Threads : thread'[u].pc \in {"barrier_madv", "madv"} => thread'[u].k < SegSize
    BY DEF BInv, ThreadsInv, Moves, MayMove
  <2>4. config.xpmem => \A u \in Threads :
           thread'[u].pc \notin {"barrier_mmap", "mmap", "barrier_madv", "madv"}
    BY DEF BInv, ThreadsInv, Moves, MayMove
  <2>5. ASSUME ~config.xpmem, NEW u \in Threads, NEW x \in Threads, thread'[u].pc \in {"madv", "done"}
        PROVE  thread'[x].pc \in Late
    <3>1. CASE u = t
      <4>1. \A y \in Threads : thread[y].pc \in Late
        BY <2>5, <3>1 DEF Moves, MayMove
      <4>2. pc \in Late
        BY <2>5, <3>1 DEF Moves, MayMove
      <4> QED BY <4>1, <4>2 DEF Moves
    <3>2. CASE u # t
      <4>1. thread[u].pc \in {"madv", "done"}
        BY <2>5, <3>2 DEF Moves
      <4>2. \A y \in Threads : thread[y].pc \in Late
        BY <2>5, <4>1 DEF BInv, ThreadsInv
      <4>3. pc \in Late
        BY <4>2, <2>5 DEF MayMove
      <4> QED BY <4>2, <4>3 DEF Moves
    <3> QED BY <3>1, <3>2
  <2> QED BY <1>2, <2>1, <2>2, <2>3, <2>4, <2>5 DEF ThreadsInv
<1> QED BY <1>1, <1>3, <1>4

\* Nor does one that no fault of its own holds up touch the faults.
LEMMA RunningMoves ==
    ASSUME BInv, NEW t \in Threads, NEW pc, NEW k, NEW w, Moves(t, pc, k, w), MayMove(t, pc, k),
           UNCHANGED <<config, server, client, pipes, handler, faults>>, shm' \in [AllPages -> Int],
           thread[t].pc = "access" => ~thread[t].waits \/ ~(thread[t].k < SegSize)
    PROVE  BInv'
<1>1. StreamInv' /\ SumInv' /\ ThreadsInv'
  BY ThreadMoves
<1>2. BTypes' /\ Counters'
  BY DEF BInv, BTypes, Counters, Moves, Threads
<1>3. FaultsInv'
  <2>1. Threads' = Threads /\ (Alive' => Alive)
    BY DEF Threads, Alive
  <2>2. ASSUME NEW u \in Threads, NEW p, Waiting(u, p) PROVE Waiting(u, p)'
    <3>1. u # t
      BY <2>2 DEF Waiting, At
    <3>2. thread'[u] = thread[u]
      BY <3>1 DEF Moves
    <3> QED BY <2>2, <3>2 DEF Waiting, At, SegSize, PageOf
  <2> QED BY <2>1, <2>2 DEF BInv, FaultsInv
<1> QED BY <1>1, <1>2, <1>3 DEF BInv

\* The steps of a thread.
LEMMA PrepareKeeps == ASSUME BInv, NEW t \in Threads, Prepare(t) PROVE BInv'
<1> DEFINE pc == IF config.xpmem THEN "barrier_pf" ELSE "barrier_mmap"
           k == thread[t].k
           w == thread[t].waits
<1>0. BTypes
  BY DEF BInv
<1>1. Moves(t, pc, k, w)
  <2>1. thread' = [thread EXCEPT ![t].pc = pc]
    BY DEF Prepare
  <2>2. pc \in PhaseSet
    BY DEF PhaseSet
  <2> QED BY <1>0, <2>1, <2>2 DEF BTypes, ThreadRecords, Moves
<1>2. MayMove(t, pc, k)
  BY DEF Prepare, At, MayMove, Late
<1>3. shm' \in [AllPages -> Int] /\ UNCHANGED <<config, server, client, pipes, handler, faults>>
  BY <1>0 DEF Prepare, memory, BTypes
<1>4. thread[t].pc # "access"
  BY DEF Prepare, At
<1> QED BY <1>1, <1>2, <1>3, <1>4, RunningMoves

\* A thread passes a barrier.
LEMMA PassKeeps == ASSUME BInv, NEW t \in Threads, Pass(t) PROVE BInv'
<1> DEFINE k == thread[t].k
           w == thread[t].waits
<1>0. BTypes
  BY DEF BInv
<1>p. PICK pc : pc = Phases[Rank(thread[t].pc) + 1]
  OBVIOUS
<1>1. thread[t].pc \in {"barrier_mmap", "barrier_pf", "barrier_madv"}
  BY DEF Pass
<1>2. /\ thread[t].pc = "barrier_mmap" => pc = "mmap"
      /\ thread[t].pc = "barrier_pf" => pc = "access"
      /\ thread[t].pc = "barrier_madv" => pc = "madv"
  <2>1. thread[t].pc \in PhaseSet
    BY <1>1 DEF PhaseSet
  <2>2. Phases[3 + 1] = "mmap" /\ Phases[5 + 1] = "access" /\ Phases[7 + 1] = "madv"
    BY SMTT(30) DEF Phases
  <2> QED BY <1>p, <2>1, <2>2, Ranks
<1>3. Moves(t, pc, k, w)
  <2>1. thread' = [thread EXCEPT ![t].pc = pc]
    BY <1>p DEF Pass
  <2>2. pc \in PhaseSet
    BY <1>1, <1>2 DEF PhaseSet
  <2> QED BY <1>0, <2>1, <2>2 DEF BTypes, ThreadRecords, Moves
<1>4. thread[t].pc = "barrier_madv" => \A u \in Threads : thread[u].pc \in Late
  <2> SUFFICES ASSUME thread[t].pc = "barrier_madv", NEW u \in Threads PROVE thread[u].pc \in Late
    OBVIOUS
  <2>1. thread[u].pc \in PhaseSet /\ thread[t].pc \in PhaseSet
    BY <1>0, ThreadsAre
  <2>2. Rank(thread[u].pc) >= 7
    BY <2>1, Ranks DEF Pass, arrive_and_wait
  <2> QED BY <2>1, <2>2, Ranks
<1>5. MayMove(t, pc, k)
  BY <1>1, <1>2, <1>4 DEF BInv, ThreadsInv, MayMove, Late
<1>6. shm' \in [AllPages -> Int] /\ UNCHANGED <<config, server, client, pipes, handler, faults>>
  BY <1>0 DEF Pass, memory, BTypes
<1> QED BY <1>1, <1>3, <1>5, <1>6, RunningMoves

\* A thread maps a page of its part of the file.
LEMMA MmapKeeps == ASSUME BInv, NEW t \in Threads, Mmap(t) PROVE BInv'
<1>0. BTypes
  BY DEF BInv
<1>k. PICK k : k = (thread[t].k + 1) % SegSize
  OBVIOUS
<1>p. PICK pc : pc = IF thread[t].k + 1 < SegSize THEN thread[t].pc ELSE "barrier_pf"
  OBVIOUS
<1> DEFINE w == thread[t].waits
<1>1. thread[t].pc = "mmap" /\ pc \in {"mmap", "barrier_pf"}
  BY <1>p DEF Mmap, At
<1>2. k \in Nat
  <2>1. thread[t].k \in Nat /\ SegSize \in Nat /\ SegSize > 0
    BY <1>0, ThreadsAre, Segments
  <2> QED BY SMTT(30), <2>1, <1>k
<1>3. Moves(t, pc, k, w)
  <2>1. thread' = [thread EXCEPT ![t].k = k, ![t].pc = pc]
    BY <1>k, <1>p, <1>1 DEF Mmap, BTypes
  <2>2. pc \in PhaseSet
    BY <1>1 DEF PhaseSet
  <2> QED BY <1>0, <1>2, <2>1, <2>2 DEF BTypes, ThreadRecords, Moves
<1>4. MayMove(t, pc, k)
  BY <1>1 DEF BInv, ThreadsInv, MayMove, Late
<1>5. shm' \in [AllPages -> Int] /\ UNCHANGED <<config, server, client, pipes, handler, faults>>
  BY <1>0 DEF Mmap, memory, BTypes
<1> QED BY <1>1, <1>3, <1>4, <1>5, RunningMoves

\* A thread reads a page that is there.
LEMMA TouchKeeps == ASSUME BInv, NEW t \in Threads, Touch(t) PROVE BInv'
<1>0. BTypes
  BY DEF BInv
<1>k. PICK k : k = thread[t].k + 1
  OBVIOUS
<1>v. PICK v : v = thread[t].sum + shm[PageOf(t, thread[t].k)]
  OBVIOUS
<1> DEFINE pc == thread[t].pc
           w == thread[t].waits
<1>1. thread[t].pc = "access" /\ ~thread[t].waits /\ thread[t].k < SegSize
  BY DEF Touch, At
<1>2. k \in Nat /\ v \in Int
  <2>1. thread[t].k \in Nat /\ thread[t].sum \in Int
    BY <1>0, ThreadsAre
  <2>2. shm[PageOf(t, thread[t].k)] \in Int
    BY <1>0, <1>1, <2>1, PagesOfThread DEF BTypes
  <2> QED BY SMTT(30), <1>k, <1>v, <2>1, <2>2
<1>3. Moves(t, pc, k, w)
  <2>1. thread' = [thread EXCEPT ![t].sum = v, ![t].k = k]
    BY <1>k, <1>v DEF Touch
  <2>2. pc \in PhaseSet
    BY <1>1 DEF PhaseSet
  <2> QED BY <1>0, <1>2, <2>1, <2>2 DEF BTypes, ThreadRecords, Moves
<1>4. MayMove(t, pc, k)
  BY <1>1 DEF MayMove, Late
<1>5. shm' \in [AllPages -> Int] /\ UNCHANGED <<config, server, client, pipes, handler, faults>>
  BY <1>0 DEF Touch, memory, BTypes
<1> QED BY <1>1, <1>3, <1>4, <1>5, RunningMoves

\* A thread has read all its pages.
LEMMA TouchedKeeps == ASSUME BInv, NEW t \in Threads, Touched(t) PROVE BInv'
<1>0. BTypes
  BY DEF BInv
<1>p. PICK pc : pc = IF config.xpmem THEN "done" ELSE "barrier_madv"
  OBVIOUS
<1> DEFINE w == thread[t].waits
<1>1. thread[t].pc = "access" /\ thread[t].k = SegSize
  BY DEF Touched, At
<1>2. SegSize \in Nat /\ SegSize > 0 /\ ~(SegSize < SegSize) /\ 0 \in Nat
  BY SMTT(30), <1>0, Segments
<1>3. Moves(t, pc, 0, w)
  <2>1. thread' = [thread EXCEPT ![t].pc = pc, ![t].k = 0]
    BY <1>p DEF Touched
  <2>2. pc \in PhaseSet
    BY <1>p DEF PhaseSet
  <2> QED BY <1>0, <1>2, <2>1, <2>2 DEF BTypes, ThreadRecords, Moves
<1>4. MayMove(t, pc, 0)
  <2>1. 0 < SegSize
    BY SMTT(30), <1>2
  <2> QED BY <1>p, <1>1, <2>1 DEF MayMove, Late
<1>5. shm' \in [AllPages -> Int] /\ UNCHANGED <<config, server, client, pipes, handler, faults>>
  BY <1>0 DEF Touched, memory, BTypes
<1> QED BY <1>1, <1>2, <1>3, <1>4, <1>5, RunningMoves

\* A thread gives a page back.
LEMMA MadviseKeeps == ASSUME BInv, NEW t \in Threads, Madvise(t) PROVE BInv'
<1>0. BTypes
  BY DEF BInv
<1>k. PICK k : k = thread[t].k + 1
  OBVIOUS
<1>p. PICK pc : pc = IF k < SegSize THEN thread[t].pc ELSE "done"
  OBVIOUS
<1> DEFINE w == thread[t].waits
<1>1. thread[t].pc = "madv" /\ pc \in {"madv", "done"} /\ (pc = "madv" => k < SegSize)
  BY <1>p DEF Madvise, At
<1>2. /\ thread[t].k \in Nat /\ thread[t].k < SegSize /\ k \in Nat
      /\ (thread[t].k + SegSize \div 2) % SegSize \in Nat
      /\ (thread[t].k + SegSize \div 2) % SegSize < SegSize
  <2>1. thread[t].k \in Nat /\ SegSize \in Nat /\ SegSize > 0
    BY <1>0, ThreadsAre, Segments
  <2>2. thread[t].k < SegSize
    BY <1>1 DEF BInv, ThreadsInv
  <2> QED BY SMTT(30), <1>k, <2>1, <2>2
<1>3. Moves(t, pc, k, w)
  <2>1. thread' = [thread EXCEPT ![t].k = k, ![t].pc = pc]
    BY <1>0, <1>k, <1>p DEF Madvise, BTypes
  <2>2. pc \in PhaseSet
    BY <1>1 DEF PhaseSet
  <2> QED BY <1>0, <1>2, <2>1, <2>2 DEF BTypes, ThreadRecords, Moves
<1>4. MayMove(t, pc, k)
  <2>1. ~config.xpmem /\ \A u \in Threads : thread[u].pc \in Late
    BY <1>1 DEF BInv, ThreadsInv
  <2> QED BY <1>1, <2>1 DEF MayMove, Late
<1>5. shm' \in [AllPages -> Int]
  <2>1. PICK i, j : /\ i = PageOf(t, (thread[t].k + SegSize \div 2) % SegSize)
                    /\ j = PageOf(t, thread[t].k)
    OBVIOUS
  <2>2. i \in AllPages /\ j \in AllPages
    BY <1>0, <1>2, <2>1, PagesOfThread
  <2>3. shm' = [shm EXCEPT ![i] = shm[j]] \/ shm' = shm
    BY <2>1 DEF Madvise
  <2> QED BY <1>0, <2>2, <2>3 DEF BTypes
<1>6. UNCHANGED <<config, server, client, pipes, handler, faults>>
  BY DEF Madvise
<1> QED BY <1>1, <1>3, <1>4, <1>5, <1>6, RunningMoves

\* A fault of a page that the handler already serves cannot come: the page has one
\* thread, and that one waits.
LEMMA ThreadFaultKeeps == ASSUME BInv, NEW t \in Threads, Fault(t) PROVE BInv'
<1>0. BTypes
  BY DEF BInv
<1> DEFINE pc == thread[t].pc
           k == thread[t].k
<1>1. /\ pc = "access" /\ k < SegSize /\ ~thread[t].waits /\ config.xpmem
      /\ UNCHANGED <<config, server, client, pipes, handler, shm>>
  BY DEF Fault, At, Missing
<1>2. k \in Nat /\ pc \in PhaseSet
  BY <1>0, ThreadsAre
<1>q. PICK q : q = PageOf(t, k)
  OBVIOUS
<1>3. faults' = faults \cup {q} /\ q \in AllPages
  BY <1>0, <1>1, <1>2, <1>q, PagesOfThread DEF Fault
<1>4. Moves(t, pc, k, TRUE)
  <2>1. thread' = [thread EXCEPT ![t].waits = TRUE]
    BY DEF Fault
  <2> QED BY <1>0, <1>2, <2>1 DEF BTypes, ThreadRecords, Moves
<1>5. MayMove(t, pc, k)
  BY <1>1 DEF MayMove, Late
<1>6. StreamInv' /\ SumInv' /\ ThreadsInv'
  BY <1>1, <1>4, <1>5, ThreadMoves
<1>7. BTypes'
  <2>1. thread' \in [Threads -> ThreadRecords] /\ Threads' = Threads
    BY <1>1, <1>4 DEF Moves, Threads
  <2> QED BY <1>0, <1>1, <1>3, <2>1 DEF BTypes
<1>8. Counters'
  BY <1>1 DEF BInv, Counters
<1>9. FaultsInv'
  <2>1. Threads' = Threads /\ (Alive' => Alive)
    BY <1>1 DEF Threads, Alive
  <2>2. ASSUME NEW u \in Threads, NEW p, Waiting(u, p) PROVE Waiting(u, p)' /\ p # q
    <3>1. u # t
      BY <1>1, <2>2 DEF Waiting
    <3>2. thread'[u] = thread[u]
      BY <3>1, <1>4 DEF Moves
    <3>3. p # q
      <4>1. PICK s : s = SegSize
        OBVIOUS
      <4>2. PICK l : l = thread[u].k
        OBVIOUS
      <4>3. s \in Nat /\ t \in Nat /\ u \in Nat /\ l \in Nat /\ l < s /\ k < s
        BY <4>1, <4>2, <1>0, <1>1, <2>2, Segments, ThreadsAre DEF Waiting
      <4>4. p = u * s + l /\ q = t * s + k
        BY <4>1, <4>2, <1>q, <2>2 DEF Waiting, PageOf
      <4> HIDE DEF k
      <4> QED BY <4>3, <4>4, <1>2, <3>1, Apart
    <3> QED BY <1>1, <2>2, <3>2, <3>3 DEF Waiting, At, SegSize, PageOf
  <2>3. Waiting(t, q)'
    <3>1. thread'[t].waits /\ thread'[t].pc = "access" /\ thread'[t].k = k
      BY <1>1, <1>4 DEF Moves
    <3> QED BY <1>1, <1>q, <3>1 DEF Waiting, At, SegSize, PageOf
  <2> QED BY <1>1, <1>3, <2>1, <2>2, <2>3 DEF BInv, FaultsInv
<1> QED BY <1>6, <1>7, <1>8, <1>9 DEF BInv

\* The steps of the handler.
LEMMA ReadFaultKeeps == ASSUME BInv, NEW p \in AllPages, ReadFault(p) PROVE BInv'
<1>1. /\ handler.pc = "read" /\ p \in faults /\ handler' = [pc |-> "map", page |-> p]
      /\ faults' = faults \ {p} /\ UNCHANGED <<config, server, client, thread, fifo_server, fifo_clients>>
  BY DEF ReadFault, At, pipes
<1>2. handler' \in Handlers /\ handler'.pc = "map" /\ handler'.page = p
  BY <1>1 DEF Handlers
<1>3. BTypes'
  <2>1. shm' \in [AllPages -> Int]
    <3>1. 1 \in Int
      BY SMTT(30)
    <3> QED BY <3>1 DEF BInv, BTypes, ReadFault
  <2> QED BY <1>1, <1>2, <2>1 DEF BInv, BTypes, Threads
<1>4. Counters'
  BY <1>1, <1>2 DEF BInv, Counters
<1>5. StreamInv'
  <2>1. Taken' = Taken /\ Sent' = Sent /\ (Alive' => Alive)
    BY <1>1 DEF Taken, Sent, Alive, AllWords
  <2> QED BY <1>1, <2>1, SameStream DEF BInv
<1>6. SumInv' /\ ThreadsInv'
  BY <1>1, SameThreads DEF BInv, SumInv, Joined, At, Threads
<1>7. FaultsInv'
  <2>1. Threads' = Threads /\ (Alive' => Alive) /\ \A t, q : Waiting(t, q)' <=> Waiting(t, q)
    BY <1>1 DEF Threads, Alive, Waiting, At, SegSize, PageOf
  <2> QED BY <1>1, <1>2, <2>1 DEF BInv, FaultsInv
<1> QED BY <1>3, <1>4, <1>5, <1>6, <1>7 DEF BInv

\* The server's handler maps the page of a fault.
LEMMA MapPageKeeps == ASSUME BInv, MapPage PROVE BInv'
<1>1. /\ handler.pc = "map" /\ handler' = [handler EXCEPT !.pc = "wake"]
      /\ UNCHANGED <<config, shm, faults, server, client, thread, fifo_server, fifo_clients>>
  BY DEF MapPage, At, pipes
<1>2. handler' \in Handlers /\ handler'.pc = "wake" /\ handler'.page = handler.page
  BY <1>1 DEF BInv, BTypes, Handlers
<1>3. BTypes'
  BY <1>1, <1>2 DEF BInv, BTypes, Threads
<1>4. Counters'
  BY <1>1, <1>2 DEF BInv, Counters
<1>5. StreamInv'
  <2>1. Taken' = Taken /\ Sent' = Sent /\ (Alive' => Alive)
    BY <1>1 DEF Taken, Sent, Alive, AllWords
  <2> QED BY <1>1, <2>1, SameStream DEF BInv
<1>6. SumInv' /\ ThreadsInv'
  BY <1>1, SameThreads DEF BInv, SumInv, Joined, At, Threads
<1>7. FaultsInv'
  <2>1. Threads' = Threads /\ (Alive' => Alive) /\ \A t, q : Waiting(t, q)' <=> Waiting(t, q)
    BY <1>1 DEF Threads, Alive, Waiting, At, SegSize, PageOf
  <2>2. Alive => /\ \A p \in faults : \E t \in Threads : Waiting(t, p)
                 /\ handler.page \notin faults /\ \E t \in Threads : Waiting(t, handler.page)
    BY <1>1 DEF BInv, FaultsInv
  <2>3. PICK p : p = handler.page
    OBVIOUS
  <2>4. Alive => p \notin faults' /\ \E t \in Threads : Waiting(t, p)'
    BY <1>1, <2>1, <2>2, <2>3
  <2>5. Alive => \A q \in faults' : \E t \in Threads' : Waiting(t, q)'
    BY <1>1, <2>1, <2>2
  <2> QED BY <1>2, <2>1, <2>3, <2>4, <2>5 DEF FaultsInv
<1> QED BY <1>3, <1>4, <1>5, <1>6, <1>7 DEF BInv

\* Only threads that touch the handler's page are woken.
LEMMA WakeThreadKeeps == ASSUME BInv, WakeThread PROVE BInv'
<1>1. /\ handler.pc = "wake" /\ handler' = [handler EXCEPT !.pc = "read"]
      /\ UNCHANGED <<config, shm, faults, server, client, fifo_server, fifo_clients>>
  BY DEF WakeThread, At, pipes
<1>2. handler' \in Handlers /\ handler'.pc = "read"
  BY <1>1 DEF BInv, BTypes, Handlers
<1>3. ASSUME NEW t \in Threads
      PROVE  /\ thread'[t] \in ThreadRecords
             /\ thread'[t].pc = thread[t].pc /\ thread'[t].k = thread[t].k
             /\ PageOf(t, thread[t].k) # handler.page => thread'[t] = thread[t]
  <2>1. thread[t] \in ThreadRecords
    BY DEF BInv, BTypes
  <2>2. CASE Woken(t)
    <3>1. thread'[t] = [thread[t] EXCEPT !.waits = FALSE]
      BY <2>2 DEF WakeThread
    <3> QED BY <2>1, <2>2, <3>1 DEF ThreadRecords, Woken
  <2>3. CASE ~Woken(t)
    <3>1. thread'[t] = thread[t]
      BY <2>3 DEF WakeThread
    <3> QED BY <2>1, <3>1
  <2> QED BY <2>2, <2>3
<1>t. Threads' = Threads /\ SegSize' = SegSize
  BY <1>1 DEF Threads, SegSize
<1>4. BTypes'
  <2>1. thread' \in [Threads -> ThreadRecords]
    BY <1>3 DEF WakeThread
  <2> QED BY <1>1, <1>2, <1>t, <2>1 DEF BInv, BTypes
<1>5. Counters'
  BY <1>1, <1>2 DEF BInv, Counters
<1>6. StreamInv'
  <2>1. Taken' = Taken /\ Sent' = Sent /\ (Alive' => Alive)
    BY <1>1 DEF Taken, Sent, Alive, AllWords
  <2> QED BY <1>1, <2>1, SameStream DEF BInv
<1>7. SumInv'
  BY <1>1, <1>3, <1>t DEF BInv, SumInv, Joined, At
<1>8. ThreadsInv'
  BY <1>1, <1>3, <1>t DEF BInv, ThreadsInv, At
<1>9. FaultsInv'
  <2>1. ASSUME Alive', NEW p \in faults PROVE \E t \in Threads : Waiting(t, p)'
    <3>1. Alive
      BY <1>1, <2>1 DEF Alive
    <3>2. p # handler.page
      BY <1>1, <2>1, <3>1 DEF BInv, FaultsInv
    <3>3. PICK t \in Threads : Waiting(t, p)
      BY <2>1, <3>1 DEF BInv, FaultsInv
    <3>4. thread'[t] = thread[t]
      BY <1>3, <3>2, <3>3 DEF Waiting
    <3>5. Waiting(t, p)'
      BY <1>t, <3>3, <3>4 DEF Waiting, At, PageOf
    <3> QED BY <3>5
  <2> QED BY <1>1, <1>2, <1>t, <2>1 DEF FaultsInv
<1> QED BY <1>4, <1>5, <1>6, <1>7, <1>8, <1>9 DEF BInv

\* The words that are in the pipe.
LEMMA InPipe ==
    ASSUME BInv, Alive
    PROVE  Taken \in Nat /\ Sent \in Nat /\ Taken <= Sent /\ Len(fifo_server) = Sent - Taken
<1>1. Taken \in Nat /\ Sent \in Nat /\ fifo_server \in Seq(WordSet) /\ Len(fifo_server) = Sent - Taken
  BY DEF BInv, StreamInv, StreamIs
<1>2. Len(fifo_server) \in Nat
  BY SMTT(30), <1>1
<1> QED BY SMTT(30), <1>1, <1>2

\* How far server and client are in the stream.
LEMMA Places ==
    ASSUME BInv
    PROVE  /\ server.pc \in {"fill", "fork", "config"} => Sent = 0
           /\ server.pc \in {"segids", "aborted"} => Sent = ConfigWords + 2 * server.k
           /\ server.pc \in {"sum", "page_out", "wake"} =>
                  Sent = IF config.xpmem THEN AllWords ELSE ConfigWords
           /\ server.pc = "done" => Sent = IF config.xpmem THEN AllWords + 1 ELSE ConfigWords
           /\ client.pc \in {"none", "config"} => Taken = 0
           /\ client.pc = "threads" => Taken = ConfigWords + IF config.xpmem THEN 2 * client.k ELSE 0
           /\ client.pc \in {"join", "nop"} => Taken = IF config.xpmem THEN AllWords ELSE ConfigWords
           /\ client.pc = "done" => Taken = IF config.xpmem THEN AllWords + 1 ELSE ConfigWords
           /\ server.pc \in {"fill", "fork", "config", "segids", "aborted", "sum", "page_out", "wake", "done"}
           /\ client.pc \in {"none", "config", "threads", "join", "nop", "done", "aborted"}
<1>1. /\ server.pc \in {"fill", "fork", "config", "segids", "aborted", "sum", "page_out", "wake", "done"}
      /\ client.pc \in {"none", "config", "threads", "join", "nop", "done", "aborted"}
  BY DEF BInv, BTypes, Servers, Clients
<1> QED BY <1>1 DEF Sent, Taken

\* The steps of the server's main thread, which leave the threads and their faults alone.
LEMMA ServerMoves ==
    ASSUME BInv, UNCHANGED <<config, client, thread, faults>>, server' \in Servers,
           shm' \in [AllPages -> Int], handler' = handler \/ handler'.pc \in {"none", "read"},
           handler' \in Handlers
    PROVE  BTypes' /\ FaultsInv' /\ ThreadsInv'
<1>1. BTypes'
  BY DEF BInv, BTypes, Threads
<1>2. ThreadsInv'
  BY SameThreads DEF BInv
<1>3. FaultsInv'
  <2>1. CASE handler' = handler
    BY <2>1, SameFaults DEF BInv, Alive
  <2>2. CASE handler'.pc \in {"none", "read"}
    <3>1. Threads' = Threads /\ Alive' = Alive /\ \A t, q : Waiting(t, q)' <=> Waiting(t, q)
      BY DEF Threads, Alive, Waiting, At, SegSize, PageOf
    <3> QED BY <2>2, <3>1 DEF BInv, FaultsInv
  <2> QED BY <2>1, <2>2
<1> QED BY <1>1, <1>2, <1>3

\* The server fills the segment.
LEMMA FillKeeps == ASSUME BInv, Fill PROVE BInv'
<1>1. /\ server.pc = "fill" /\ server' = [server EXCEPT !.pc = "fork"]
      /\ UNCHANGED <<config, faults, handler, client, thread, fifo_server, fifo_clients>>
  BY DEF Fill, At, pipes
<1>2. server' \in Servers /\ server'.pc = "fork" /\ server'.k = server.k
  BY <1>1 DEF BInv, BTypes, Servers
<1>3. BTypes' /\ FaultsInv' /\ ThreadsInv'
  <2>1. 1 \in Int
    BY SMTT(30)
  <2>2. shm' \in [AllPages -> Int] /\ handler' \in Handlers
    BY <1>1, <2>1 DEF Fill, BInv, BTypes
  <2> QED BY <1>1, <1>2, <2>2, ServerMoves
<1>4. Counters'
  BY <1>1, <1>2 DEF BInv, Counters
<1>5. StreamInv'
  <2>1. Taken' = Taken /\ Sent' = Sent /\ (Alive' => Alive)
    BY <1>1, <1>2 DEF Taken, Sent, Alive, AllWords
  <2> QED BY <1>1, <2>1, SameStream DEF BInv
<1>6. SumInv'
  BY <1>1, <1>2 DEF BInv, SumInv, Counters
<1> QED BY <1>3, <1>4, <1>5, <1>6 DEF BInv

\* The server forks the client.
LEMMA ForkKeeps == ASSUME BInv, Fork PROVE BInv'
<1>1. /\ server.pc = "fork" /\ server' = [server EXCEPT !.pc = "config"]
      /\ UNCHANGED <<config, shm, faults, handler, thread, fifo_server, fifo_clients>>
  BY DEF Fork, At, pipes, memory
<1>2. server' \in Servers /\ server'.pc = "config" /\ server'.k = server.k
  BY <1>1 DEF BInv, BTypes, Servers
<1>3. client' \in Clients /\ client'.pc \in {"config", "aborted"} /\ client'.k = client.k
  <2>1. PICK pc \in {"config", "aborted"} : client' = [client EXCEPT !.pc = pc]
    BY DEF Fork
  <2> QED BY <2>1 DEF BInv, BTypes, Clients
<1>4. client.pc = "none" /\ client.k = 0
  BY <1>1 DEF BInv, Counters
<1>5. BTypes'
  BY <1>1, <1>2, <1>3 DEF BInv, BTypes, Threads
<1>6. Counters'
  BY <1>1, <1>2, <1>3, <1>4 DEF BInv, Counters
<1>7. StreamInv'
  <2>1. CASE client'.pc = "config"
    <3>1. Taken' = Taken /\ Sent' = Sent /\ (Alive' => Alive)
      BY <1>1, <1>2, <1>4, <2>1 DEF Taken, Sent, Alive, AllWords
    <3> QED BY <1>1, <3>1, SameStream DEF BInv
  <2>2. CASE client'.pc = "aborted"
    BY <2>2 DEF StreamInv, Alive
  <2> QED BY <1>3, <2>1, <2>2
<1>8. SumInv'
  BY <1>1, <1>2, <1>3, <1>4 DEF BInv, SumInv
<1>9. FaultsInv'
  BY <1>1, <1>4, SameFaults DEF BInv, Alive
<1>10. ThreadsInv'
  <2>1. Threads' = Threads /\ SegSize' = SegSize
    BY <1>1 DEF Threads, SegSize
  <2> QED BY <1>1, <1>3, <1>4, <2>1 DEF BInv, ThreadsInv, At
<1> QED BY <1>5, <1>6, <1>7, <1>8, <1>9, <1>10 DEF BInv

\* The server sends the configuration.
LEMMA WriteConfigKeeps == ASSUME BInv, WriteConfig PROVE BInv'
<1>1. /\ server.pc = "config" /\ fifo_server' = fifo_server \o Words("config", 0, ConfigWords)
      /\ UNCHANGED <<config, shm, faults, client, thread, fifo_clients>>
  BY DEF WriteConfig, At
<1>2. /\ server' \in Servers /\ server'.k = server.k
      /\ server'.pc = IF config.xpmem THEN "segids" ELSE "sum"
  <2>1. PICK pc : pc = IF config.xpmem THEN "segids" ELSE "sum"
    OBVIOUS
  <2>2. server' = [server EXCEPT !.pc = pc]
    BY <2>1 DEF WriteConfig
  <2>3. pc \in {"segids", "sum"}
    BY <2>1
  <2> QED BY <2>1, <2>2, <2>3 DEF BInv, BTypes, Servers
<1>3. /\ handler' \in Handlers /\ (config.xpmem => handler'.pc = "read")
      /\ (~config.xpmem => handler' = handler)
  <2>1. CASE config.xpmem
    <3>1. handler' = [handler EXCEPT !.pc = "read"]
      BY <2>1 DEF WriteConfig
    <3> QED BY <2>1, <3>1 DEF BInv, BTypes, Handlers
  <2>2. CASE ~config.xpmem
    BY <2>2 DEF BInv, BTypes, WriteConfig
  <2> QED BY <2>1, <2>2
<1>4. BTypes' /\ FaultsInv' /\ ThreadsInv'
  <2>1. shm' \in [AllPages -> Int]
    BY <1>1 DEF BInv, BTypes
  <2> QED BY <1>1, <1>2, <1>3, <2>1, ServerMoves
<1>r. /\ config.nclients \in Nat /\ config.nclients > 0 /\ ConfigWords \in Nat /\ ConfigWords > 0
      /\ server.k = 0 /\ config.xpmem \in BOOLEAN
  BY <1>1, Reads DEF BInv, Counters
<1>5. Counters'
  <2>1. 0 < config.nclients
    BY SMTT(30), <1>r
  <2> QED BY <1>1, <1>2, <1>3, <1>r, <2>1 DEF BInv, Counters
<1>6. StreamInv'
  <2>1. CASE Alive
    <3>1. StreamIs(fifo_server, Taken, 0)
      BY <1>1, <2>1, Places DEF BInv, StreamInv
    <3>2. ComeNext("config", 0, ConfigWords, 0)
      BY SMTT(30), <1>r DEF ComeNext, KindAt
    <3>3. StreamIs(fifo_server', Taken, 0 + ConfigWords)
      <4>1. ConfigWords \in Nat \ {0} /\ 0 \in Int
        BY SMTT(30), <1>r
      <4> QED BY <1>1, <1>r, <3>1, <3>2, <4>1, StreamGrows
    <3>4. Sent' = 0 + ConfigWords /\ Taken' = Taken
      <4>1. ConfigWords + 2 * 0 = 0 + ConfigWords /\ ConfigWords = 0 + ConfigWords
        BY SMTT(30), <1>r
      <4> QED BY <1>1, <1>2, <1>r, <4>1 DEF Sent, Taken, AllWords
    <3> QED BY <1>1, <3>3, <3>4, NewStream
  <2>2. CASE ~Alive
    BY <1>1, <2>2 DEF StreamInv, Alive
  <2> QED BY <2>1, <2>2
<1>7. SumInv'
  BY <1>1, <1>2 DEF BInv, SumInv
<1> QED BY <1>4, <1>5, <1>6, <1>7 DEF BInv

\* The server sends the id of the next segment.
LEMMA WriteSegidKeeps == ASSUME BInv, WriteSegid PROVE BInv'
<1>1. /\ server.pc = "segids" /\ fifo_server' = fifo_server \o Words("segid", server.k, 2)
      /\ UNCHANGED <<config, shm, faults, handler, client, thread, fifo_clients>>
  BY DEF WriteSegid, At, memory
<1>k. PICK k : k = server.k
  OBVIOUS
<1>n. PICK n : n = config.nclients
  OBVIOUS
<1>r. n \in Nat /\ n > 0 /\ ConfigWords \in Nat /\ ConfigWords > 0 /\ k \in Nat /\ k < n /\ config.xpmem
  BY <1>1, <1>k, <1>n, Reads DEF BInv, Counters
<1>2. /\ server' \in Servers
      /\ \/ k + 1 < n /\ server'.pc = "segids" /\ server'.k = k + 1
         \/ k + 1 = n /\ server'.pc = "sum" /\ server'.k = 0
  <2>1. k + 1 \in Nat /\ 0 \in Nat /\ (k + 1 < n \/ k + 1 = n) /\ (k + 1 = n => ~(k + 1 < n))
    BY SMTT(30), <1>r
  <2>2. CASE k + 1 < n
    <3>1. server' = [server EXCEPT !.k = k + 1]
      BY <1>k, <1>n, <2>2 DEF WriteSegid
    <3> QED BY <1>1, <2>1, <2>2, <3>1 DEF BInv, BTypes, Servers
  <2>3. CASE k + 1 = n
    <3>1. server' = [pc |-> "sum", k |-> 0]
      BY <1>k, <1>n, <2>1, <2>3 DEF WriteSegid
    <3> QED BY <2>1, <2>3, <3>1 DEF Servers
  <2> QED BY <2>1, <2>2, <2>3
<1>4. BTypes' /\ FaultsInv' /\ ThreadsInv'
  <2>1. shm' \in [AllPages -> Int] /\ handler' \in Handlers
    BY <1>1 DEF BInv, BTypes
  <2> QED BY <1>1, <1>2, <2>1, ServerMoves
<1>5. Counters'
  BY <1>1, <1>2, <1>n, <1>r DEF BInv, Counters
<1>6. StreamInv'
  <2>1. CASE Alive
    <3>0. PICK to : to = ConfigWords + 2 * k
      OBVIOUS
    <3>1. StreamIs(fifo_server, Taken, to)
      BY <1>1, <1>k, <2>1, <3>0, Places DEF BInv, StreamInv
    <3>2. ComeNext("segid", k, 2, to)
      BY SMTT(30), <1>r, <1>n, <3>0 DEF ComeNext, KindAt, AllWords
    <3>3. StreamIs(fifo_server', Taken, to + 2)
      <4>1. 2 \in Nat \ {0} /\ k \in Int
        BY SMTT(30), <1>r
      <4> QED BY <1>1, <1>r, <1>k, <1>n, <3>1, <3>2, <4>1, StreamGrows
    <3>4. Sent' = to + 2 /\ Taken' = Taken
      <4>1. ConfigWords + 2 * (k + 1) = to + 2 /\ (k + 1 = n => ConfigWords + 2 * n = to + 2)
        BY SMTT(30), <1>r, <3>0
      <4> QED BY <1>1, <1>2, <1>n, <1>r, <4>1 DEF Sent, Taken, AllWords
    <3> QED BY <1>1, <3>3, <3>4, NewStream
  <2>2. CASE ~Alive
    BY <1>1, <2>2 DEF StreamInv, Alive
  <2> QED BY <2>1, <2>2
<1>7. SumInv'
  BY <1>1, <1>2 DEF BInv, SumInv
<1> QED BY <1>4, <1>5, <1>6, <1>7 DEF BInv

\* The first word of the sum is one of the sum.
LEMMA SumWords ==
    ASSUME NEW v, fifo_clients = << >> \o Words("sum", v, 2)
    PROVE  ReadAs(fifo_clients, "sum", 1)
<1>1. PICK w : w = Words("sum", v, 2)
  OBVIOUS
<1>2. PICK e : e = w[1]
  OBVIOUS
<1>3. 1 \in 1 .. 2
  BY SMTT(30)
<1>4. e.kind = "sum"
  BY <1>1, <1>2, <1>3 DEF Words
<1>5. PICK S : w \in [1 .. 2 -> S]
  <2>1. \A i \in 1 .. 2 : i = 1 \/ i = 2
    BY SMTT(30)
  <2>2. w \in [1 .. 2 -> {w[1], w[2]}]
    BY <1>1, <2>1 DEF Words
  <2> QED BY <2>2
<1>6. Len(<< >> \o w) = 2 /\ (<< >> \o w)[1] = w[1]
  BY SMTT(30), <1>5
<1>7. Len(fifo_clients) >= 1 /\ fifo_clients[1].kind = "sum"
  <2>1. Len(fifo_clients) = 2 /\ fifo_clients[1] = e
    BY <1>1, <1>2, <1>6
  <2>2. Len(fifo_clients) >= 1
    BY SMTT(30), <2>1
  <2> QED BY <1>4, <2>1, <2>2
<1>8. \A i \in 1 .. 1 : i = 1
  BY SMTT(30)
<1> QED BY <1>7, <1>8 DEF ReadAs

\* The server reads the client's sum.
LEMMA ReadSumKeeps == ASSUME BInv, ReadSum PROVE BInv'
<1>1. /\ server.pc = "sum" /\ fifo_clients # << >>
      /\ UNCHANGED <<config, shm, faults, handler, client, thread, fifo_server>>
  BY DEF ReadSum, At, memory
<1>2. client.pc \in {"nop", "done"} /\ Joined /\ ReadAs(fifo_clients, "sum", 1)
  BY <1>1, SumWords DEF BInv, SumInv
<1>3. /\ server' \in Servers /\ server'.k = server.k
      /\ server'.pc = IF config.xpmem THEN "page_out" ELSE "done"
  <2>1. PICK pc : pc = IF config.xpmem THEN "page_out" ELSE "done"
    OBVIOUS
  <2>2. server' = [server EXCEPT !.pc = pc]
    BY <1>2, <2>1 DEF ReadSum
  <2>3. pc \in {"page_out", "done"}
    BY <2>1
  <2> QED BY <2>1, <2>2, <2>3 DEF BInv, BTypes, Servers
<1>4. BTypes' /\ FaultsInv' /\ ThreadsInv'
  <2>1. shm' \in [AllPages -> Int] /\ handler' \in Handlers
    BY <1>1 DEF BInv, BTypes
  <2> QED BY <1>1, <1>3, <2>1, ServerMoves
<1>5. Counters'
  <2>1. 0 < NPages
    BY SMTT(30), Reads DEF BInv
  <2> QED BY <1>1, <1>3, <2>1 DEF BInv, Counters
<1>6. StreamInv'
  <2>1. Taken' = Taken /\ Sent' = Sent /\ (Alive' => Alive)
    BY <1>1, <1>3 DEF Taken, Sent, Alive, AllWords
  <2> QED BY <1>1, <2>1, SameStream DEF BInv
<1>7. SumInv'
  BY <1>1, <1>2, <1>3 DEF SumInv, Joined, At, Threads
<1> QED BY <1>4, <1>5, <1>6, <1>7 DEF BInv

\* The server pages out one page after the other.
LEMMA ServerPageOutKeeps == ASSUME BInv, PageOut PROVE BInv'
<1>1. /\ server.pc = "page_out"
      /\ UNCHANGED <<config, faults, handler, client, thread, fifo_server, fifo_clients>>
  BY DEF PageOut, At, pipes
<1>k. PICK k : k = server.k
  OBVIOUS
<1>r. NPages \in Nat /\ NPages > 0 /\ k \in Nat /\ k < NPages /\ config.xpmem
  BY <1>1, <1>k, Reads DEF BInv, Counters
<1>2. /\ server' \in Servers
      /\ \/ server'.pc = "page_out" /\ server'.k < NPages
         \/ server'.pc = "wake"
  <2>1. k + 1 \in Nat /\ 0 \in Nat
    BY SMTT(30), <1>r
  <2>2. CASE k + 1 < NPages
    <3>1. server' = [server EXCEPT !.k = k + 1]
      BY <1>k, <2>2 DEF PageOut
    <3> QED BY <1>1, <2>1, <2>2, <3>1 DEF BInv, BTypes, Servers
  <2>3. CASE ~(k + 1 < NPages)
    <3>1. server' = [pc |-> "wake", k |-> 0]
      BY <1>k, <2>3 DEF PageOut
    <3> QED BY <2>1, <3>1 DEF Servers
  <2> QED BY <2>2, <2>3
<1>3. shm' \in [AllPages -> Int] /\ handler' \in Handlers
  <2>1. PICK i : i = (k + NPages \div 2) % NPages
    OBVIOUS
  <2>2. i \in AllPages /\ k \in AllPages
    BY SMTT(30), <1>r, <2>1 DEF AllPages
  <2>3. shm' = [shm EXCEPT ![i] = shm[k]] \/ shm' = shm
    BY <1>k, <2>1 DEF PageOut
  <2>4. shm' \in [AllPages -> Int]
    BY <2>2, <2>3 DEF BInv, BTypes
  <2> QED BY <1>1, <2>4 DEF BInv, BTypes
<1>4. BTypes' /\ FaultsInv' /\ ThreadsInv'
  BY <1>1, <1>2, <1>3, ServerMoves
<1>5. Counters'
  BY <1>1, <1>2, <1>r DEF BInv, Counters
<1>6. StreamInv'
  <2>1. Taken' = Taken /\ Sent' = Sent /\ (Alive' => Alive)
    BY <1>1, <1>2 DEF Taken, Sent, Alive, AllWords
  <2> QED BY <1>1, <2>1, SameStream DEF BInv
<1>7. SumInv'
  BY <1>1, <1>2 DEF BInv, SumInv, Joined, At, Threads
<1> QED BY <1>4, <1>5, <1>6, <1>7 DEF BInv

\* The server lets the client go on.
LEMMA WakeClientKeeps == ASSUME BInv, WakeClient PROVE BInv'
<1>1. /\ server.pc = "wake" /\ fifo_server' = fifo_server \o Words("nop", 0, 1)
      /\ server' = [server EXCEPT !.pc = "done"] /\ handler' = [handler EXCEPT !.pc = "none"]
      /\ UNCHANGED <<config, shm, faults, client, thread, fifo_clients>>
  BY DEF WakeClient, At
<1>2. /\ server' \in Servers /\ server'.pc = "done"
      /\ handler' \in Handlers /\ handler'.pc = "none"
  BY <1>1 DEF BInv, BTypes, Servers, Handlers
<1>n. PICK n : n = config.nclients
  OBVIOUS
<1>r. n \in Nat /\ ConfigWords \in Nat /\ config.xpmem
  BY <1>1, <1>n, Reads DEF BInv, Counters
<1>4. BTypes' /\ FaultsInv' /\ ThreadsInv'
  <2>1. shm' \in [AllPages -> Int]
    BY <1>1 DEF BInv, BTypes
  <2> QED BY <1>1, <1>2, <2>1, ServerMoves
<1>5. Counters'
  BY <1>1, <1>2, <1>r DEF BInv, Counters
<1>6. StreamInv'
  <2>1. CASE Alive
    <3>1. StreamIs(fifo_server, Taken, AllWords)
      BY <1>1, <1>r, <2>1, Places DEF BInv, StreamInv
    <3>2. ComeNext("nop", 0, 1, AllWords)
      BY SMTT(30), <1>r, <1>n DEF ComeNext, KindAt, AllWords
    <3>3. StreamIs(fifo_server', Taken, AllWords + 1)
      <4>1. 1 \in Nat \ {0} /\ 0 \in Int
        BY SMTT(30)
      <4> QED BY <1>1, <1>r, <1>n, <3>1, <3>2, <4>1, StreamGrows
    <3>4. Sent' = AllWords + 1 /\ Taken' = Taken
      BY <1>1, <1>2, <1>r DEF Sent, Taken, AllWords
    <3> QED BY <1>1, <3>3, <3>4, NewStream
  <2>2. CASE ~Alive
    BY <1>1, <2>2 DEF StreamInv, Alive
  <2> QED BY <2>1, <2>2
<1>7. SumInv'
  BY <1>1, <1>2 DEF BInv, SumInv, Joined, At, Threads
<1> QED BY <1>4, <1>5, <1>6, <1>7 DEF BInv

\* The server gives up.
LEMMA ServerAbortsKeeps == ASSUME BInv, ServerAborts PROVE BInv'
<1>1. /\ server.pc = "segids"
      /\ server' = [server EXCEPT !.pc = "aborted"] /\ handler' = [handler EXCEPT !.pc = "none"]
      /\ UNCHANGED <<config, shm, faults, client, thread, fifo_server, fifo_clients>>
  BY DEF ServerAborts, At, pipes
<1>2. /\ server' \in Servers /\ server'.pc = "aborted" /\ server'.k = server.k
      /\ handler' \in Handlers /\ handler'.pc = "none"
  BY <1>1 DEF BInv, BTypes, Servers, Handlers
<1>4. BTypes' /\ FaultsInv' /\ ThreadsInv'
  <2>1. shm' \in [AllPages -> Int]
    BY <1>1 DEF BInv, BTypes
  <2> QED BY <1>1, <1>2, <2>1, ServerMoves
<1>5. Counters'
  BY <1>1, <1>2 DEF BInv, Counters
<1>6. StreamInv'
  <2>1. Taken' = Taken /\ Sent' = Sent /\ (Alive' => Alive)
    <3>1. Taken' = Taken /\ (Alive' => Alive)
      BY <1>1 DEF Taken, Alive, AllWords
    <3>2. Sent = ConfigWords + 2 * server.k
      BY <1>1 DEF Sent
    <3>3. Sent' = ConfigWords + 2 * server'.k
      BY <1>2 DEF Sent
    <3> QED BY <1>2, <3>1, <3>2, <3>3
  <2> QED BY <1>1, <2>1, SameStream DEF BInv
<1>7. SumInv'
  BY <1>1, <1>2 DEF BInv, SumInv
<1> QED BY <1>4, <1>5, <1>6, <1>7 DEF BInv

\* The steps of the client's main thread.
LEMMA ReadConfigKeeps == ASSUME BInv, ReadConfig PROVE BInv'
<1>1. /\ client.pc = "config" /\ fifo_server # << >> /\ fifo_server' = Drop(fifo_server, ConfigWords)
      /\ UNCHANGED <<config, shm, faults, handler, server, thread, fifo_clients>>
  BY DEF ReadConfig, At, memory
<1>a. Alive /\ StreamIs(fifo_server, 0, Sent) /\ Taken = 0
  BY <1>1, Places DEF Alive, BInv, StreamInv
<1>r. ConfigWords \in Nat /\ ConfigWords > 0 /\ config.nclients \in Nat /\ client.k = 0
  BY <1>1, Reads DEF BInv, Counters
<1>2. Len(fifo_server) >= ConfigWords /\ Len(fifo_server) = Sent
  <2>1. /\ Sent \in Nat /\ Len(fifo_server) = Sent /\ fifo_server \in Seq(WordSet)
    BY SMTT(30), <1>a DEF StreamIs
  <2>2. Sent # 0
    BY SMTT(30), <1>1, <2>1
  <2>3. Sent \in {0, ConfigWords + 2 * server.k, AllWords, ConfigWords, AllWords + 1}
    BY Places
  <2>4. server.k \in Nat
    BY Reads DEF BInv
  <2> QED BY SMTT(30), <1>r, <2>1, <2>2, <2>3, <2>4 DEF AllWords
<1>3. ReadAs(fifo_server, "config", ConfigWords)
  <2>1. ASSUME NEW i \in 1 .. ConfigWords PROVE fifo_server[i].kind = "config"
    <3>1. i \in 1 .. Len(fifo_server) /\ 0 + i = i /\ i <= ConfigWords
      <4>1. Len(fifo_server) \in Int
        BY SMTT(30), <1>2, <1>a DEF StreamIs
      <4> QED BY SMTT(30), <1>2, <1>r, <4>1
    <3> QED BY <1>a, <3>1 DEF StreamIs, KindAt
  <2> QED BY <1>2, <2>1 DEF ReadAs
<1>4. client' \in Clients /\ client'.pc = "threads" /\ client'.k = 0
  <2>1. client' = [client EXCEPT !.pc = "threads"]
    BY <1>3 DEF ReadConfig
  <2> QED BY <1>r, <2>1 DEF BInv, BTypes, Clients
<1>5. BTypes'
  BY <1>1, <1>4 DEF BInv, BTypes, Threads
<1>6. Counters'
  <2>1. 0 < config.nclients
    BY SMTT(30), Reads DEF BInv
  <2>2. server.pc \notin {"fill", "fork"}
    BY <1>1 DEF BInv, Counters
  <2> QED BY <1>1, <1>4, <2>1, <2>2 DEF BInv, Counters
<1>7. StreamInv'
  <2>1. StreamIs(fifo_server', 0 + ConfigWords, Sent)
    <3>1. ConfigWords <= Len(fifo_server)
      BY SMTT(30), <1>2, <1>r, <1>a DEF StreamIs
    <3> QED BY <1>1, <1>a, <1>r, <3>1, StreamShrinks
  <2>2. Taken' = 0 + ConfigWords
    <3>1. ConfigWords + 0 = 0 + ConfigWords /\ ConfigWords + 2 * 0 = 0 + ConfigWords
      BY SMTT(30), <1>r
    <3> QED BY <1>1, <1>4, <3>1 DEF Taken
  <2>3. Sent' = Sent
    BY <1>1 DEF Sent, AllWords
  <2> QED BY <1>1, <2>1, <2>2, <2>3, NewStream
<1>8. SumInv'
  BY <1>1, <1>4 DEF BInv, SumInv
<1>9. FaultsInv'
  BY <1>1, <1>a, SameFaults DEF BInv
<1>10. ThreadsInv'
  <2>1. Threads' = Threads /\ SegSize' = SegSize
    BY <1>1 DEF Threads, SegSize
  <2> QED BY <1>1, <1>4, <2>1 DEF BInv, ThreadsInv, At
<1> QED BY <1>5, <1>6, <1>7, <1>8, <1>9, <1>10 DEF BInv

\* A new thread: what StartXpmem and StartShm do besides the pipe.
LEMMA StartKeeps ==
    ASSUME BInv, client.pc = "threads", client' = NextThread, Start(client.k),
           UNCHANGED <<config, shm, faults, handler, server, fifo_clients>>
    PROVE  /\ BTypes' /\ Counters' /\ SumInv' /\ FaultsInv' /\ ThreadsInv'
           /\ \/ client'.pc = "threads" /\ client'.k = client.k + 1
              \/ client'.pc = "join" /\ client.k + 1 = config.nclients
<1>k. PICK k : k = client.k
  OBVIOUS
<1>n. PICK n : n = config.nclients
  OBVIOUS
<1>r. n \in Nat /\ k \in Nat /\ k < n /\ k \in Threads /\ k >= client.k
  <2>1. n \in Nat /\ k \in Nat /\ k < n
    BY <1>k, <1>n, Reads DEF BInv, Counters
  <2> QED BY SMTT(30), <2>1, <1>k, <1>n DEF Threads
<1>1. /\ client' \in Clients
      /\ \/ client'.pc = "threads" /\ client'.k = k + 1 /\ k + 1 < n
         \/ client'.pc = "join" /\ k + 1 = n
  <2>1. k + 1 \in Nat /\ 0 \in Nat /\ (k + 1 < n \/ k + 1 = n) /\ (k + 1 = n => ~(k + 1 < n))
    BY SMTT(30), <1>r
  <2>2. CASE k + 1 < n
    <3>1. client' = [client EXCEPT !.k = k + 1]
      BY <1>k, <1>n, <2>2 DEF NextThread
    <3> QED BY <2>1, <2>2, <3>1 DEF BInv, BTypes, Clients
  <2>3. CASE k + 1 = n
    <3>1. PICK c : c = [pc |-> "join", k |-> 0]
      OBVIOUS
    <3>2. c \in Clients /\ c.pc = "join"
      BY <2>1, <3>1 DEF Clients
    <3>3. client' = c
      BY <1>k, <1>n, <2>1, <2>3, <3>1 DEF NextThread
    <3> QED BY <2>3, <3>2, <3>3
  <2> QED BY <2>1, <2>2, <2>3
<1>2. Moves(k, "start", thread[k].k, thread[k].waits)
  <2>1. thread' = [thread EXCEPT ![k].pc = "start"]
    BY <1>k DEF Start
  <2>2. "start" \in PhaseSet
    BY DEF PhaseSet
  <2> QED BY <1>r, <2>1, <2>2 DEF BInv, BTypes, ThreadRecords, Moves
<1>3. thread[k].pc = "none"
  BY <1>r DEF BInv, ThreadsInv, At
<1>t. Threads' = Threads /\ SegSize' = SegSize
  BY DEF Threads, SegSize
<1>4. BTypes'
  BY <1>1, <1>2, <1>t DEF BInv, BTypes, Moves
<1>5. Counters'
  BY <1>1, <1>n DEF BInv, Counters
<1>6. SumInv'
  BY <1>1 DEF BInv, SumInv
<1>7. FaultsInv'
  <2>1. ASSUME NEW u \in Threads, NEW p, Waiting(u, p) PROVE Waiting(u, p)'
    <3>1. u # k
      BY <1>3, <2>1 DEF Waiting, At
    <3>2. thread'[u] = thread[u]
      BY <1>2, <3>1 DEF Moves
    <3> QED BY <1>t, <2>1, <3>2 DEF Waiting, At, PageOf
  <2>2. Alive
    BY DEF Alive
  <2> QED BY <1>t, <2>1, <2>2 DEF BInv, FaultsInv
<1>8. ThreadsInv'
  <2>1. ASSUME client'.pc = "threads", NEW u \in Threads, u >= client'.k PROVE thread'[u].pc = "none"
    <3>1. u \in Nat
      BY ThreadsAre DEF BInv
    <3>2. u >= client.k /\ u # k
      BY SMTT(30), <1>1, <1>r, <1>k, <2>1, <3>1
    <3> QED BY <1>2, <3>2 DEF BInv, ThreadsInv, At, Moves
  <2>2. \A u \in Threads : u # k => thread'[u] = thread[u]
    BY <1>2 DEF Moves
  <2>3. thread'[k].pc = "start"
    BY <1>2 DEF Moves
  <2>4. \A u \in Threads : thread'[u].pc \in {"barrier_madv", "madv"} => thread'[u].k < SegSize
    BY <2>2, <2>3 DEF BInv, ThreadsInv
  <2>5. config.xpmem => \A u \in Threads :
           thread'[u].pc \notin {"barrier_mmap", "mmap", "barrier_madv", "madv"}
    BY <2>2, <2>3 DEF BInv, ThreadsInv
  <2>6. ~config.xpmem => \A u \in Threads : thread'[u].pc \notin {"madv", "done"}
    BY <1>r, <1>3, <2>2, <2>3 DEF BInv, ThreadsInv, Late
  <2> QED BY <1>1, <1>t, <2>1, <2>4, <2>5, <2>6 DEF ThreadsInv, At
<1> QED BY <1>1, <1>k, <1>n, <1>4, <1>5, <1>6, <1>7, <1>8

\* The client reads the id of a segment and starts its thread.
LEMMA StartXpmemKeeps == ASSUME BInv, StartXpmem PROVE BInv'
<1>1. /\ client.pc = "threads" /\ config.xpmem /\ fifo_server # << >>
      /\ fifo_server' = Drop(fifo_server, 2)
      /\ UNCHANGED <<config, shm, faults, handler, server, fifo_clients>>
  BY DEF StartXpmem, At, memory
<1>k. PICK k : k = client.k
  OBVIOUS
<1>n. PICK n : n = config.nclients
  OBVIOUS
<1>f. PICK from : from = ConfigWords + 2 * k
  OBVIOUS
<1>r. /\ ConfigWords \in Nat /\ ConfigWords > 0 /\ n \in Nat /\ k \in Nat /\ k < n
      /\ server.k \in Nat
  BY <1>1, <1>k, <1>n, Reads DEF BInv, Counters
<1>a. Alive /\ StreamIs(fifo_server, from, Sent) /\ Taken = from
  <2>1. Alive /\ Taken = from
    BY <1>1, <1>k, <1>f, Places DEF Alive
  <2> QED BY <2>1 DEF BInv, StreamInv
<1>2. Len(fifo_server) \in Nat /\ Len(fifo_server) >= 2
  <2>1. Sent \in Nat /\ Len(fifo_server) = Sent - from /\ fifo_server \in Seq(WordSet)
    BY <1>a DEF StreamIs
  <2>2. Len(fifo_server) \in Nat /\ Len(fifo_server) # 0
    BY SMTT(30), <1>1, <2>1
  <2>3. Sent \in {0, ConfigWords + 2 * server.k, ConfigWords + 2 * n, ConfigWords + 2 * n + 1}
    BY <1>1, <1>n, Places DEF AllWords
  <2> QED BY SMTT(30), <1>r, <1>f, <2>1, <2>2, <2>3
<1>3. ReadAs(fifo_server, "segid", 2)
  <2>1. ASSUME NEW i \in 1 .. 2 PROVE fifo_server[i].kind = "segid"
    <3>1. /\ i \in 1 .. Len(fifo_server) /\ ~(from + i <= ConfigWords)
          /\ from + i <= ConfigWords + 2 * n
      BY SMTT(30), <1>2, <1>r, <1>f
    <3> QED BY <1>a, <1>n, <3>1 DEF StreamIs, KindAt, AllWords
  <2> QED BY <1>2, <2>1 DEF ReadAs
<1>4. fifo_server[1].value = client.k
  <2>1. /\ k \in 0 .. n - 1 /\ ConfigWords + 2 * k + 1 - from = 1
        /\ 1 \in 1 .. Len(fifo_server)
    BY SMTT(30), <1>2, <1>r, <1>f
  <2> QED BY <1>a, <1>k, <1>n, <2>1 DEF StreamIs
<1>5. client' = NextThread /\ Start(client.k)
  BY <1>3, <1>4 DEF StartXpmem
<1>6. /\ BTypes' /\ Counters' /\ SumInv' /\ FaultsInv' /\ ThreadsInv'
      /\ \/ client'.pc = "threads" /\ client'.k = k + 1
         \/ client'.pc = "join" /\ k + 1 = n
  BY <1>1, <1>5, <1>k, <1>n, StartKeeps
<1>7. StreamInv'
  <2>1. StreamIs(fifo_server', from + 2, Sent)
    <3>1. 2 <= Len(fifo_server) /\ 2 \in Nat
      BY SMTT(30), <1>2
    <3> QED BY <1>1, <1>a, <1>n, <1>r, <3>1, StreamShrinks
  <2>2. Taken' = from + 2
    <3>1. ConfigWords + 2 * (k + 1) = from + 2 /\ (k + 1 = n => ConfigWords + 2 * n = from + 2)
      BY SMTT(30), <1>r, <1>f
    <3> QED BY <1>1, <1>6, <1>n, <3>1 DEF Taken, AllWords
  <2>3. Sent' = Sent
    BY <1>1 DEF Sent, AllWords
  <2> QED BY <1>1, <2>1, <2>2, <2>3, NewStream
<1> QED BY <1>6, <1>7 DEF BInv

\* The client starts a thread on the shared file.
LEMMA StartShmKeeps == ASSUME BInv, StartShm PROVE BInv'
<1>1. /\ client.pc = "threads" /\ ~config.xpmem /\ client' = NextThread /\ Start(client.k)
      /\ UNCHANGED <<config, shm, faults, handler, server, fifo_clients, fifo_server>>
  BY DEF StartShm, At, memory, pipes
<1>2. /\ BTypes' /\ Counters' /\ SumInv' /\ FaultsInv' /\ ThreadsInv'
      /\ client'.pc \in {"threads", "join"}
  BY <1>1, StartKeeps
<1>3. StreamInv'
  <2>1. Sent' = Sent /\ (Alive' => Alive)
    BY <1>1 DEF Sent, AllWords, Alive
  <2>2. ConfigWords + 0 = ConfigWords
    BY SMTT(30), Reads DEF BInv
  <2>3. Taken' = ConfigWords
    BY <1>1, <1>2, <2>2 DEF Taken
  <2>4. Taken = ConfigWords
    BY <1>1, <2>2 DEF Taken
  <2> QED BY <1>1, <2>1, <2>3, <2>4, SameStream DEF BInv
<1> QED BY <1>2, <1>3 DEF BInv

\* The client sends its sum.
LEMMA WriteSumKeeps == ASSUME BInv, WriteSum PROVE BInv'
<1>1. /\ client.pc = "join" /\ Joined /\ fifo_clients' = fifo_clients \o Words("sum", TotalSum, 2)
      /\ UNCHANGED <<config, shm, faults, handler, server, thread, fifo_server>>
  BY DEF WriteSum, At, memory
<1>2. client' \in Clients /\ client'.pc = (IF config.xpmem THEN "nop" ELSE "done")
  <2>1. PICK pc : pc = IF config.xpmem THEN "nop" ELSE "done"
    OBVIOUS
  <2>2. client' = [client EXCEPT !.pc = pc]
    BY <2>1 DEF WriteSum, AfterSum
  <2>3. pc \in {"nop", "done"}
    BY <2>1
  <2> QED BY <2>1, <2>2, <2>3 DEF BInv, BTypes, Clients
<1>a. Alive
  BY <1>1 DEF Alive
<1>3. server.pc = "sum"
  <2>1. /\ ConfigWords \in Nat /\ ConfigWords > 0 /\ config.nclients \in Nat /\ server.k \in Nat
        /\ Taken <= Sent
    BY <1>a, Reads, InPipe DEF BInv
  <2>2. Taken = IF config.xpmem THEN AllWords ELSE ConfigWords
    BY <1>1, Places
  <2>3. server.pc \notin {"fill", "fork", "config"}
    <3> SUFFICES ASSUME server.pc \in {"fill", "fork", "config"} PROVE FALSE
      OBVIOUS
    <3>1. Sent = 0
      BY Places
    <3> QED BY SMTT(30), <2>1, <2>2, <3>1 DEF AllWords
  <2>4. server.pc \notin {"segids", "aborted"}
    <3> SUFFICES ASSUME server.pc \in {"segids", "aborted"} PROVE FALSE
      OBVIOUS
    <3>1. Sent = ConfigWords + 2 * server.k /\ server.k < config.nclients /\ config.xpmem
      BY Places DEF BInv, Counters
    <3> QED BY SMTT(30), <2>1, <2>2, <3>1 DEF AllWords
  <2>5. server.pc \notin {"page_out", "wake", "done"}
    BY <1>1 DEF BInv, SumInv
  <2> QED BY <2>3, <2>4, <2>5, Places
<1>4. BTypes'
  BY <1>1, <1>2 DEF BInv, BTypes, Threads
<1>5. Counters'
  BY <1>1, <1>2, <1>3 DEF BInv, Counters
<1>6. SumInv'
  <2>1. fifo_clients' = << >> \o Words("sum", TotalSum, 2)
    BY <1>1 DEF BInv, SumInv
  <2>2. Joined'
    BY <1>1 DEF Joined, At, Threads
  <2>3. PICK v : v = TotalSum
    OBVIOUS
  <2>4. fifo_clients' = << >> \o Words("sum", v, 2)
    BY <2>1, <2>3
  <2>5. \E x : (fifo_clients = << >> \o Words("sum", x, 2))'
    BY <2>4 DEF Words
  <2> QED BY <1>1, <1>2, <1>3, <2>2, <2>5 DEF SumInv
<1>7. StreamInv'
  <2>1. Sent' = Sent
    BY <1>1 DEF Sent, AllWords
  <2>2. Taken = IF config.xpmem THEN AllWords ELSE ConfigWords
    BY <1>1, Places
  <2>3. Taken' = IF config.xpmem THEN AllWords ELSE ConfigWords
    BY <1>1, <1>2 DEF Taken, AllWords
  <2> QED BY <1>1, <1>a, <2>1, <2>2, <2>3, SameStream DEF BInv
<1>8. FaultsInv'
  BY <1>1, <1>a, SameFaults DEF BInv
<1>9. ThreadsInv'
  <2>1. Threads' = Threads /\ SegSize' = SegSize
    BY <1>1 DEF Threads, SegSize
  <2> QED BY <1>1, <1>2, <2>1 DEF BInv, ThreadsInv, At
<1> QED BY <1>4, <1>5, <1>6, <1>7, <1>8, <1>9 DEF BInv

\* The client reads the message that ends its wait.
LEMMA ReadNopKeeps == ASSUME BInv, ReadNop PROVE BInv'
<1>1. /\ client.pc = "nop" /\ fifo_server # << >> /\ fifo_server' = Drop(fifo_server, 1)
      /\ UNCHANGED <<config, shm, faults, handler, server, thread, fifo_clients>>
  BY DEF ReadNop, At, memory
<1>n. PICK n : n = config.nclients
  OBVIOUS
<1>r. ConfigWords \in Nat /\ n \in Nat /\ config.xpmem
  BY <1>1, <1>n, Reads DEF BInv, Counters
<1>a. Alive /\ StreamIs(fifo_server, AllWords, Sent) /\ Taken = AllWords
  <2>1. Alive /\ Taken = AllWords
    BY <1>1, <1>r, Places DEF Alive
  <2> QED BY <2>1 DEF BInv, StreamInv
<1>2. Len(fifo_server) \in Nat /\ Len(fifo_server) >= 1
  <2>1. fifo_server \in Seq(WordSet)
    BY <1>a DEF StreamIs
  <2> QED BY SMTT(30), <1>1, <2>1
<1>3. ReadAs(fifo_server, "nop", 1)
  <2>1. ASSUME NEW i \in 1 .. 1 PROVE fifo_server[i].kind = "nop"
    <3>1. /\ i \in 1 .. Len(fifo_server) /\ ~(AllWords + i <= AllWords)
          /\ ~(AllWords + i <= ConfigWords)
      BY SMTT(30), <1>2, <1>r, <1>n DEF AllWords
    <3> QED BY <1>a, <3>1 DEF StreamIs, KindAt
  <2> QED BY <1>2, <2>1 DEF ReadAs
<1>4. client' \in Clients /\ client'.pc = "done"
  <2>1. client' = [client EXCEPT !.pc = "done"]
    BY <1>3 DEF ReadNop
  <2> QED BY <2>1 DEF BInv, BTypes, Clients
<1>5. BTypes'
  BY <1>1, <1>4 DEF BInv, BTypes, Threads
<1>6. Counters'
  BY <1>1, <1>4 DEF BInv, Counters
<1>7. StreamInv'
  <2>1. StreamIs(fifo_server', AllWords + 1, Sent)
    <3>1. 1 <= Len(fifo_server) /\ 1 \in Nat
      BY SMTT(30), <1>2
    <3> QED BY <1>1, <1>a, <1>n, <1>r, <3>1, StreamShrinks
  <2>2. Taken' = AllWords + 1
    BY <1>1, <1>4, <1>r DEF Taken, AllWords
  <2>3. Sent' = Sent
    BY <1>1 DEF Sent, AllWords
  <2> QED BY <1>1, <2>1, <2>2, <2>3, NewStream
<1>8. SumInv'
  BY <1>1, <1>4 DEF BInv, SumInv, Joined, At, Threads
<1>9. FaultsInv'
  BY <1>1, <1>a, SameFaults DEF BInv
<1>10. ThreadsInv'
  <2>1. Threads' = Threads /\ SegSize' = SegSize
    BY <1>1 DEF Threads, SegSize
  <2> QED BY <1>1, <1>4, <2>1 DEF BInv, ThreadsInv, At
<1> QED BY <1>5, <1>6, <1>7, <1>8, <1>9, <1>10 DEF BInv

\* The client gives up.
LEMMA ClientAbortsKeeps == ASSUME BInv, ClientAborts PROVE BInv'
<1>1. /\ client' = [client EXCEPT !.pc = "aborted"] /\ thread' = [t \in Threads |-> NewThread]
      /\ UNCHANGED <<config, shm, faults, handler, server, fifo_server, fifo_clients>>
  BY DEF ClientAborts, memory, pipes
<1>2. client' \in Clients /\ client'.pc = "aborted"
  BY <1>1 DEF BInv, BTypes, Clients
<1>3. client.pc \notin {"none", "nop", "done"}
  <2>1. CASE client.pc = "threads"
    BY <2>1
  <2>2. CASE \E t \in Threads : At(thread[t], "start")
    <3>1. PICK t \in Threads : thread[t].pc = "start"
      BY <2>2 DEF At
    <3> QED BY <3>1 DEF BInv, SumInv, ThreadsInv, Joined, At
  <2>3. CASE server.pc = "aborted" /\ \E t \in Threads : At(thread[t], "access")
    <3>1. PICK t \in Threads : thread[t].pc = "access"
      BY <2>3 DEF At
    <3> QED BY <2>3, <3>1 DEF BInv, SumInv, ThreadsInv, Joined, At
  <2> QED BY <2>1, <2>2, <2>3 DEF ClientAborts, At
<1>t. Threads' = Threads
  BY <1>1 DEF Threads
<1>4. NewThread \in ThreadRecords /\ NewThread.pc = "none"
  <2>1. 0 \in Nat /\ 0 \in Int
    BY SMTT(30)
  <2> QED BY <2>1 DEF NewThread, ThreadRecords, PhaseSet
<1>5. BTypes'
  BY <1>1, <1>2, <1>4, <1>t DEF BInv, BTypes
<1>6. Counters'
  BY <1>1, <1>2, <1>3 DEF BInv, Counters
<1>7. StreamInv' /\ FaultsInv'
  BY <1>2 DEF StreamInv, FaultsInv, Alive
<1>8. SumInv'
  BY <1>1, <1>2, <1>3 DEF BInv, SumInv
<1>9. ThreadsInv'
  <2>1. \A t \in Threads : thread'[t].pc = "none"
    BY <1>1, <1>4
  <2> QED BY <1>2, <1>t, <2>1 DEF ThreadsInv, At
<1> QED BY <1>5, <1>6, <1>7, <1>8, <1>9 DEF BInv

\* The programs start with empty pipes and before every thread.
LEMMA BenchmarkStarts == Init => BInv
<1> SUFFICES ASSUME Init PROVE BInv
  OBVIOUS
<1>0. 0 \in Nat /\ 0 \in Int /\ 1 \in Int /\ 0 \in AllPages
  BY SMTT(30), SizesAssumption DEF AllPages
<1>1. BTypes
  <2>1. shm \in [AllPages -> Int]
    BY <1>0 DEF Init
  <2>2. server \in Servers /\ client \in Clients /\ handler \in Handlers
    BY <1>0 DEF Init, Servers, Clients, Handlers
  <2>3. NewThread \in ThreadRecords
    BY <1>0 DEF NewThread, ThreadRecords, PhaseSet
  <2>4. thread \in [Threads -> ThreadRecords]
    BY <2>3 DEF Init
  <2> QED BY <2>1, <2>2, <2>4 DEF BTypes, Init
<1>2. /\ server.pc = "fill" /\ server.k = 0 /\ client.pc = "none" /\ client.k = 0
      /\ handler.pc = "none" /\ faults = {} /\ fifo_server = << >> /\ fifo_clients = << >>
      /\ \A t \in Threads : thread[t].pc = "none"
  BY DEF Init, NewThread
<1>3. Counters
  BY <1>2 DEF Counters
<1>4. StreamInv
  <2>1. Taken = 0 /\ Sent = 0
    BY <1>2 DEF Taken, Sent
  <2>2. config.nclients \in Nat /\ ConfigWords \in Nat
    BY <1>1, Reads
  <2>3. fifo_server \in Seq(WordSet) /\ Len(fifo_server) = 0
    BY SMTT(30), <1>2
  <2>4. StreamIs(fifo_server, 0, 0)
    BY SMTT(30), <2>2, <2>3 DEF StreamIs
  <2> QED BY <2>1, <2>4 DEF StreamInv
<1>5. SumInv /\ FaultsInv /\ ThreadsInv
  BY <1>2 DEF SumInv, FaultsInv, ThreadsInv, At
<1> QED BY <1>1, <1>3, <1>4, <1>5 DEF BInv

\* Every step of the two programs keeps the invariant.
LEMMA BenchmarkKeeps == BInv /\ [Next]_vars => BInv'
<1> SUFFICES ASSUME BInv, [Next]_vars PROVE BInv'
  OBVIOUS
<1>1. CASE UNCHANGED vars
  <2>1. /\ UNCHANGED <<config, client, thread, faults, server, handler, shm>>
        /\ UNCHANGED <<fifo_server, fifo_clients>>
    BY <1>1 DEF vars
  <2>2. BTypes' /\ FaultsInv' /\ ThreadsInv'
    <3>1. server' \in Servers /\ handler' \in Handlers /\ shm' \in [AllPages -> Int]
      BY <2>1 DEF BInv, BTypes
    <3> QED BY <2>1, <3>1, ServerMoves
  <2>3. Counters'
    BY <2>1 DEF BInv, Counters
  <2>4. StreamInv'
    <3>1. Taken' = Taken /\ Sent' = Sent /\ (Alive' => Alive)
      BY <2>1 DEF Taken, Sent, Alive, AllWords
    <3> QED BY <2>1, <3>1, SameStream DEF BInv
  <2>5. SumInv'
    BY <2>1 DEF BInv, SumInv, Joined, At, Threads
  <2> QED BY <2>2, <2>3, <2>4, <2>5 DEF BInv
<1>2. CASE ServerStep
  BY <1>2, FillKeeps, ForkKeeps, WriteConfigKeeps, WriteSegidKeeps, ReadSumKeeps,
     ServerPageOutKeeps, WakeClientKeeps, ServerAbortsKeeps DEF ServerStep
<1>3. CASE HandlerStep
  BY <1>3, ReadFaultKeeps, MapPageKeeps, WakeThreadKeeps DEF HandlerStep
<1>4. CASE ClientStep
  BY <1>4, ReadConfigKeeps, StartXpmemKeeps, StartShmKeeps, WriteSumKeeps, ReadNopKeeps,
     ClientAbortsKeeps DEF ClientStep
<1>5. ASSUME NEW t \in 0 .. (MaxClients - 1), ThreadStep(t) PROVE BInv'
  BY <1>5, PrepareKeeps, PassKeeps, MmapKeeps, TouchKeeps, TouchedKeeps, MadviseKeeps,
     ThreadFaultKeeps DEF ThreadStep
<1> QED BY <1>1, <1>2, <1>3, <1>4, <1>5 DEF Next

\* No read of server_main or client_main takes words of another message, for every
\* number of clients and every size of the configuration.
THEOREM MessagesApart == Spec => []NoMisread
<1>1. BInv => NoMisread
  BY DEF BInv, BTypes, Servers, Clients, NoMisread
<1> QED BY BenchmarkStarts, BenchmarkKeeps, <1>1, PTL DEF Spec

\* The server pages out between the sum and the nop, with the client attached and
\* quiet; with run_shm, no thread faults while another gives its pages up.
THEOREM PhasesKeptApart == Spec => []PhasesApart
<1>1. BInv => PhasesApart
  <2> SUFFICES ASSUME BInv PROVE PhasesApart
    OBVIOUS
  <2>1. ASSUME NEW t \in Threads, NEW u \in Threads, thread[t].pc = "madv"
        PROVE  thread[u].pc # "access"
    BY <2>1 DEF BInv, ThreadsInv, Late
  <2>2. ASSUME server.pc \in {"page_out", "wake"}
        PROVE  client.pc = "nop" /\ faults = {} /\ handler.pc = "read" /\ Joined
    <3>1. client.pc \in {"nop", "done"} /\ Joined /\ config.xpmem /\ handler.pc # "none"
      BY <2>2 DEF BInv, SumInv, Counters
    <3>2. Alive
      BY <3>1 DEF Alive
    <3>3. client.pc = "nop"
      <4>1. client.pc = "done" => Taken = AllWords + 1
        BY <3>1, Places
      <4>2. Sent = AllWords
        BY <2>2, <3>1, Places
      <4>3. Taken <= Sent /\ Sent \in Nat
        BY <3>2, InPipe
      <4>4. ~(AllWords + 1 <= AllWords)
        BY SMTT(30), <4>2, <4>3
      <4> QED BY <3>1, <4>1, <4>2, <4>3, <4>4
    <3>4. \A t \in Threads : thread[t].pc # "access"
      BY <3>1 DEF Joined, At
    <3>5. faults = {} /\ handler.pc \notin {"map", "wake"}
      BY <3>2, <3>4 DEF BInv, FaultsInv, Waiting, At
    <3>6. handler.pc \in {"none", "read", "map", "wake"}
      BY DEF BInv, BTypes, Handlers
    <3> QED BY <3>1, <3>3, <3>5, <3>6
  <2> QED BY <2>1, <2>2 DEF PhasesApart, At
<1> QED BY BenchmarkStarts, BenchmarkKeeps, <1>1, PTL DEF Spec
=============================================================================

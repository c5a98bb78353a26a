------------------------------- MODULE MmTest -------------------------------
(***************************************************************************)
(* xpmem-uffd-mm-test: one page of a server that a client attaches and     *)
(* counts in.  In the middle the server takes the page out of the page     *)
(* tables, copies it to another frame and maps that one instead, without   *)
(* any blocking of page faults.  Sleeps decide nothing here: the client    *)
(* may be at any point when the page goes.                                 *)
(***************************************************************************)
EXTENDS Integers

CONSTANTS
    Adds,  \* rounds of the client's loop, 30 in the program
    First  \* what the client sets first, 5 in the program

VARIABLES
    shm,        \* the byte at offsets 0 ("old") and 0x2000 ("new") of shmfd
    backing,    \* what is mapped at addr: "anon", "old" or "new"
    registered, \* modes addr is registered with at the userfaultfd
    attached,   \* the client has the page in its page table
    message,    \* a fault waits in the userfaultfd
    server,     \* where the server is
    val,        \* its copy of the page
    client      \* adds left, the value it loaded, and what it does next

vars == <<shm, backing, registered, attached, message, server, val, client>>
kernel == <<backing, registered, attached, message>>

Init ==
    /\ shm = [f \in {"old", "new"} |-> 0] /\ val = 0
    /\ backing = "anon" /\ registered = {"missing"} /\ attached = FALSE /\ message = FALSE
    /\ server = "fault_1"
    /\ client = [pc |-> "set", left |-> Adds, tmp |-> 0, waits |-> FALSE]

(***************************************************************************)
(* The client: *addr = 5, then *addr += 1, a load and a store.             *)
(***************************************************************************)
Runs == client.pc # "done" /\ ~client.waits

\* External: with the page in place the instruction is executed, otherwise the
\* kernel maps it or, if it is registered, sends a message.
Instruction ==
    /\ Runs /\ attached
    /\ CASE client.pc = "load" ->
              /\ client' = [client EXCEPT !.pc = "store", !.tmp = shm[backing]]
              /\ UNCHANGED shm
         [] OTHER ->
              LET left == IF client.pc = "set" THEN client.left ELSE client.left - 1
              IN  /\ shm' = [shm EXCEPT ![backing] =
                                IF client.pc = "set" THEN First ELSE client.tmp + 1]
                  /\ client' = [client EXCEPT !.pc = IF left = 0 THEN "done" ELSE "load",
                                              !.left = left]
    /\ UNCHANGED <<kernel, server, val>>

Notified == ("missing" \in registered /\ backing = "anon") \/ "minor" \in registered

Fault ==
    /\ Runs /\ ~attached
    /\ IF Notified
       THEN /\ message' = TRUE /\ client' = [client EXCEPT !.waits = TRUE]
            /\ UNCHANGED attached
       ELSE attached' = TRUE /\ UNCHANGED <<message, client>>
    /\ UNCHANGED <<shm, backing, registered, server, val>>

(***************************************************************************)
(* The server.                                                             *)
(***************************************************************************)
uffd_read(from, to) ==
    /\ server = from /\ message
    /\ server' = to /\ message' = FALSE
    /\ UNCHANGED <<shm, backing, registered, attached, val, client>>

\* A new mapping: not registered, and gone from the client's page table.
MapFrame(f) == backing' = f /\ registered' = {} /\ attached' = FALSE

FirstMap ==
    /\ server = "map_1" /\ server' = "wake_1"
    /\ MapFrame("old")
    /\ UNCHANGED <<shm, message, val, client>>

uffd_wake(from, to) ==
    /\ server = from /\ server' = to
    /\ client' = [client EXCEPT !.waits = FALSE]
    /\ UNCHANGED <<shm, kernel, val>>

RegisterMinor ==
    /\ server = "page_out" /\ server' = "madvise"
    /\ registered' = {"missing", "minor"}
    /\ UNCHANGED <<shm, backing, attached, message, val, client>>

Madvise ==
    /\ server = "madvise" /\ server' = "copy"
    /\ attached' = FALSE
    /\ UNCHANGED <<shm, backing, registered, message, val, client>>

CopyOut ==
    /\ server = "copy" /\ server' = "fault_2"
    /\ val' = shm["old"]
    /\ UNCHANGED <<shm, kernel, client>>

CopyIn_Stale ==
    /\ server = "page_in" /\ server' = "map_2"
    /\ UNCHANGED <<shm, kernel, val, client>>
CopyIn ==
    /\ server = "page_in" /\ server' = "map_2"
    /\ shm' = [shm EXCEPT !["new"] = val]
    /\ UNCHANGED <<kernel, val, client>>

SecondMap ==
    /\ server = "map_2" /\ server' = "wake_2"
    /\ MapFrame("new")
    /\ UNCHANGED <<shm, message, val, client>>

ServerStep ==
    \/ uffd_read("fault_1", "map_1") \/ FirstMap \/ uffd_wake("wake_1", "page_out")
    \/ RegisterMinor \/ Madvise \/ CopyOut \/ uffd_read("fault_2", "page_in")
    \/ CopyIn \/ SecondMap \/ uffd_wake("wake_2", "exit")
ClientStep == Instruction \/ Fault

Next == ServerStep \/ ClientStep

Spec == Init /\ [][Next]_vars

\* Both programs run.
FairSpec == Spec /\ WF_vars(ServerStep) /\ WF_vars(ClientStep)

(***************************************************************************)
(* Properties.                                                             *)
(***************************************************************************)

\* Type invariant.
TypeOK ==
    /\ shm \in [{"old", "new"} -> 0..(First + Adds)] /\ val \in 0..(First + Adds)
    /\ backing \in {"anon", "old", "new"} /\ registered \subseteq {"missing", "minor"}
    /\ attached \in BOOLEAN /\ message \in BOOLEAN
    /\ client.pc \in {"set", "load", "store", "done"} /\ client.left \in 0..Adds

\* The page the client counts in holds what it counted so far, although its frame
\* is exchanged between any two of its loads and stores.
NoIncrementLost ==
    attached /\ client.pc # "set" => shm[backing] = First + Adds - client.left

\* The client counts to the end; the server follows if the page is used again
\* after it went, and otherwise waits for the fault.
ClientFinishes == <>[](client.pc = "done" /\ server \in {"exit", "fault_2"})
=============================================================================

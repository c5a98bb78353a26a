------------------------------- MODULE PfTest -------------------------------
(***************************************************************************)
(* xpmem-uffd-pf-test: a server whose memory a client attaches.  The       *)
(* server's handler thread maps shared memory where the client faults; its *)
(* main thread pages everything out, with page faults blocked, and lets    *)
(* the client go on.  The two programs have terminals of their own: the    *)
(* user presses a button when a program asks for it, in any order, except  *)
(* that the server is left only when the client is done.                   *)
(***************************************************************************)
EXTENDS Integers, Sequences

CONSTANT NPages   \* 4 in the program

VARIABLES
    shm,        \* the byte of each page that the programs look at
    backing,    \* what is mapped at each page of mapaddr: "anon" or "shm"
    registered, \* pages registered with the userfaultfd (missing and WP)
    protected,  \* pages that are write-protected
    access,     \* how the client has a page in its page table
    blocked,    \* XPMEM holds page faults of the segment off
    message,    \* the fault in the userfaultfd, or NoMessage
    handler,    \* where handle_userfault is
    main,       \* where the server's main is
    client,     \* the client's position and whether it waits for a fault
    overlapped  \* ghost: the page-out met a fault that was being handled

kernel == <<backing, registered, protected, access, blocked>>
vars == <<shm, kernel, message, handler, main, client, overlapped>>

Pages == 0..(NPages - 1)
NoMessage == [page |-> 0, kind |-> "none"]
Ops == <<"rd", "rd", "wr", "rd", "wr">>
PageOut == {"block", "mmap", "register", "prompt_4", "unblock"}
Goto(pc) == handler' = [handler EXCEPT !.pc = pc]

Init ==
    /\ shm = [p \in Pages |-> NPages - p]
    /\ backing = [p \in Pages |-> "anon"]
    /\ registered = Pages /\ protected = {}
    /\ access = [p \in Pages |-> "none"]
    /\ blocked = FALSE /\ message = NoMessage
    /\ handler = [pc |-> "read", msg |-> NoMessage]
    /\ main = "prompt_2" /\ overlapped = FALSE
    /\ client = [round |-> 0, op |-> 1, page |-> 0, waits |-> FALSE]

(***************************************************************************)
(* The buttons: the client asks for (1) and (3), the server for (2), (4)   *)
(* and (6).                                                                *)
(***************************************************************************)
Running == client.round \in {1, 2} /\ client.op <= Len(Ops) /\ main # "aborted"
RoundDone(n) == client.round = n /\ client.op > Len(Ops)

ClientButton ==
    /\ client.round = 0 \/ RoundDone(1)
    /\ client' = [client EXCEPT !.round = @ + 1, !.op = 1]
    /\ UNCHANGED <<shm, kernel, message, handler, main, overlapped>>

ServerButton ==
    /\ \/ main = "prompt_2" /\ main' = "block" /\ overlapped' = (overlapped \/ client.waits)
       \/ main = "prompt_4" /\ main' = "unblock" /\ UNCHANGED overlapped
       \/ main = "prompt_6" /\ RoundDone(2) /\ main' = "exit" /\ UNCHANGED overlapped
    /\ UNCHANGED <<shm, kernel, message, handler, client>>

(***************************************************************************)
(* The client.  External: its page table and userfaultfd.                  *)
(***************************************************************************)
Writes == Ops[client.op] = "wr"
Permitted == access[client.page] = "write" \/ (~Writes /\ access[client.page] = "read")

Access ==
    /\ Running /\ ~client.waits /\ Permitted
    /\ shm' = IF Writes /\ backing[client.page] = "shm"
              THEN [shm EXCEPT ![client.page] = client.page] ELSE shm
    /\ client' = IF client.page + 1 < NPages THEN [client EXCEPT !.page = @ + 1]
                 ELSE [client EXCEPT !.page = 0, !.op = @ + 1]
    /\ UNCHANGED <<kernel, message, handler, main, overlapped>>

\* A page of a mapped file is in the page cache, so it is never missing.
FaultKind(p) ==
    CASE p \in registered /\ backing[p] = "anon" /\ access[p] = "none" ->
             IF Writes THEN "major_write" ELSE "major_read"
      [] p \in registered /\ p \in protected /\ Writes -> "wp"
      [] OTHER -> "none"

Fault ==
    /\ Running /\ ~client.waits /\ ~Permitted /\ ~blocked
    /\ LET p == client.page
       IN  IF FaultKind(p) = "none"
           THEN /\ access' = [access EXCEPT ![p] = IF p \in protected THEN "read" ELSE "write"]
                /\ UNCHANGED <<client, message, overlapped>>
           ELSE /\ message' = [page |-> p, kind |-> FaultKind(p)]
                /\ client' = [client EXCEPT !.waits = TRUE]
                /\ overlapped' = (overlapped \/ main \in PageOut)
                /\ UNCHANGED access
    /\ UNCHANGED <<shm, backing, registered, protected, blocked, handler, main>>

(***************************************************************************)
(* handle_userfault.                                                       *)
(***************************************************************************)
Page == handler.msg.page

uffd_read ==
    /\ handler.pc = "read" /\ message # NoMessage
    /\ handler' = [pc |-> IF message.kind = "wp" THEN "wup" ELSE "block", msg |-> message]
    /\ message' = NoMessage
    /\ UNCHANGED <<shm, kernel, main, client, overlapped>>

\* Taking the protection away wakes who waits for the page.
uffd_wup ==
    /\ handler.pc = "wup" /\ Page \in registered /\ Goto("read")
    /\ protected' = protected \ {Page}
    /\ client' = [client EXCEPT !.waits = FALSE]
    /\ UNCHANGED <<shm, backing, registered, access, blocked, message, main, overlapped>>

BlockPfs ==
    /\ handler.pc = "block" /\ Goto("mmap")
    /\ blocked' = TRUE
    /\ UNCHANGED <<shm, backing, registered, protected, access, message, main, client, overlapped>>

\* The new mapping is not registered; only pages that were read are, to notice
\* the first write.
MapShm ==
    /\ handler.pc = "mmap"
    /\ Goto(IF handler.msg.kind = "major_read" THEN "register" ELSE "unblock")
    /\ backing' = [backing EXCEPT ![Page] = "shm"]
    /\ registered' = registered \ {Page} /\ protected' = protected \ {Page}
    /\ access' = [access EXCEPT ![Page] = "none"]
    /\ UNCHANGED <<shm, blocked, message, main, client, overlapped>>

uffd_register ==
    /\ handler.pc = "register" /\ Goto("wp")
    /\ registered' = registered \cup {Page}
    /\ UNCHANGED <<shm, backing, protected, access, blocked, message, main, client, overlapped>>

uffd_wp ==
    /\ handler.pc = "wp" /\ Page \in registered /\ Goto("unblock")
    /\ protected' = protected \cup {Page}
    /\ access' = [access EXCEPT ![Page] = IF @ = "write" THEN "read" ELSE @]
    /\ UNCHANGED <<shm, backing, registered, blocked, message, main, client, overlapped>>

UnblockPfs ==
    /\ handler.pc = "unblock" /\ Goto("wake")
    /\ blocked' = FALSE
    /\ UNCHANGED <<shm, backing, registered, protected, access, message, main, client, overlapped>>

uffd_wake ==
    /\ handler.pc = "wake" /\ Goto("read")
    /\ client' = [client EXCEPT !.waits = FALSE]
    /\ UNCHANGED <<shm, kernel, message, main, overlapped>>

\* UFFDIO_WRITEPROTECT fails on memory that is not registered: abort().
Abort ==
    /\ handler.pc \in {"wup", "wp"} /\ Page \notin registered
    /\ Goto("aborted") /\ main' = "aborted"
    /\ UNCHANGED <<shm, kernel, message, client, overlapped>>

(***************************************************************************)
(* main: block page faults, map anonymous memory over the pages, register  *)
(* it; unblock when the user says so.                                      *)
(***************************************************************************)
PageOutBlock_Skipped ==
    /\ main = "block" /\ main' = "mmap"
    /\ UNCHANGED <<shm, kernel, message, handler, client, overlapped>>
PageOutBlock ==
    /\ main = "block" /\ main' = "mmap"
    /\ blocked' = TRUE
    /\ UNCHANGED <<shm, backing, registered, protected, access, message, handler, client,
                   overlapped>>

PageOutMmap ==
    /\ main = "mmap" /\ main' = "register"
    /\ backing' = [p \in Pages |-> "anon"]
    /\ registered' = {} /\ protected' = {}
    /\ access' = [p \in Pages |-> "none"]
    /\ UNCHANGED <<shm, blocked, message, handler, client, overlapped>>

PageOutRegister ==
    /\ main = "register" /\ main' = "prompt_4"
    /\ registered' = Pages
    /\ UNCHANGED <<shm, backing, protected, access, blocked, message, handler, client, overlapped>>

Unblock ==
    /\ main = "unblock" /\ main' = "prompt_6"
    /\ blocked' = FALSE
    /\ UNCHANGED <<shm, backing, registered, protected, access, message, handler, client,
                   overlapped>>

ClientStep == Access \/ Fault
HandlerStep ==
    \/ uffd_read \/ uffd_wup \/ BlockPfs \/ MapShm \/ uffd_register \/ uffd_wp
    \/ UnblockPfs \/ uffd_wake \/ Abort
MainStep == PageOutBlock \/ PageOutMmap \/ PageOutRegister \/ Unblock
Button == ClientButton \/ ServerButton

Next == Button \/ ClientStep \/ HandlerStep \/ MainStep

Spec == Init /\ [][Next]_vars

\* The threads run and the user follows the steps to the end.
FairSpec ==
    Spec /\ WF_vars(Button) /\ WF_vars(ClientStep) /\ WF_vars(HandlerStep) /\ WF_vars(MainStep)

(***************************************************************************)
(* Properties.                                                             *)
(***************************************************************************)

\* Type invariant.
TypeOK ==
    /\ shm \in [Pages -> 0..NPages] /\ backing \in [Pages -> {"anon", "shm"}]
    /\ registered \subseteq Pages /\ protected \subseteq Pages
    /\ access \in [Pages -> {"none", "read", "write"}] /\ blocked \in BOOLEAN
    /\ overlapped \in BOOLEAN
    /\ client.round \in 0..2 /\ client.op \in 1..(Len(Ops) + 1) /\ client.page \in Pages

\* The client never has a page in its page table that is not the shared memory
\* file: no read gives the zeros of anonymous memory and no write is lost in it,
\* also while main maps anonymous memory over pages the client is using; while
\* the server asks for (4) it has no page at all, and no ioctl of the handler
\* fails.  Unless the page-out met a fault that was being handled.
ClientReachesFile ==
    overlapped \/ /\ \A p \in Pages : access[p] # "none" => backing[p] = "shm"
                  /\ main = "prompt_4" => \A p \in Pages : access[p] = "none"
                  /\ main # "aborted"

\* The same whenever the user presses (2).
\* Does not hold; the README says where and why.
ClientAlwaysReachesFile == \A p \in Pages : access[p] # "none" => backing[p] = "shm"

\* Followed to the end, the steps let the client finish with every page as it
\* wrote it, whenever its accesses fall into the page-out.  Unless the page-out
\* met a fault that was being handled.
TestEnds ==
    <>overlapped \/ <>[](main = "exit" /\ RoundDone(2) /\ \A p \in Pages : shm[p] = p)
=============================================================================

----------------------------- MODULE DamemoryApi -----------------------------
(***************************************************************************)
(* The damemory library in one process with several threads: the           *)
(* connection, the mutex around every call, the steps of each function and *)
(* what it returns.  The manager is the other end of the socket: it keeps  *)
(* the process's m_mappings and may answer any call with an error.         *)
(* ClientManager has the regions behind the answers and many processes.    *)
(***************************************************************************)
EXTENDS Integers, Sequences, FiniteSets

CONSTANTS
    Threads,
    Windows,   \* places where mmap can reserve memory
    Sizes,     \* sizes of regions
    IntBits,   \* width of int
    SizeBits,  \* width of size_t
    None

ASSUME WidthsAssumption ==
    /\ IntBits \in Nat \ {0} /\ SizeBits \in Nat /\ IntBits < SizeBits
    /\ Sizes \subseteq 1..(2^SizeBits - 1)

\* What every IntBits gives and the provers do not know of powers.
ASSUME PowersAssumption == 2^(IntBits - 1) \in Nat /\ 2^IntBits \in Nat /\ 2^(IntBits - 1) < 2^IntBits

Ops == {"init", "close", "get_size", "alloc", "anchor", "unanchor", "map",
        "unmap", "persist", "advise"}

\* A call that a thread is in, and an answer of the manager.
Calls   == [op : Ops, window : Windows \cup {None}]
Answers == [error : {"0", "EIO", "ENOENT"}, size : Nat]
ASSUME NoneAssumption ==
    None \notin Threads /\ None \notin Windows /\ None \notin Calls /\ None \notin Answers

VARIABLES
    socket,     \* damanager_socket: -1, a descriptor, -2
    mutex,      \* thread holding damanager_mutex
    call,       \* the call each thread is in
    todo,       \* the steps of it that are left
    reserved,   \* window it reserved
    attached,   \* windows with a segment attached
    running,    \* the process has not ended in DASIM_FATAL
    manager,    \* the manager runs
    mappings,   \* m_mappings of this client in the manager
    requests,   \* calls in the socket
    replies,    \* answers in the socket
    returned,   \* what the last call of each thread returned
    told,       \* ghost: the last answer to a call of each thread
    forgotten   \* ghost: windows the manager forgot in an unmap that failed

library == <<socket, mutex, call, todo, reserved, attached, running, returned>>
remote  == <<manager, mappings, requests, replies, told, forgotten>>
vars    == <<library, remote>>

Init ==
    /\ socket = "uninitialized" /\ mutex = None
    /\ running = TRUE /\ manager = TRUE
    /\ call = [t \in Threads |-> None] /\ todo = [t \in Threads |-> << >>]
    /\ reserved = [t \in Threads |-> None] /\ attached = {} /\ mappings = {}
    /\ requests = << >> /\ replies = << >> /\ forgotten = {}
    /\ returned = [t \in Threads |-> None] /\ told = [t \in Threads |-> None]

\* What each function does under the lock.
Steps(op) ==
    CASE op \in {"init", "close"} -> <<op>>
      [] op = "alloc"  -> <<"check", "reserve", "call", "attach">>
      [] op = "map"    -> <<"call", "reserve", "call", "attach">>
      [] op = "unmap"  -> <<"check", "call", "detach">>
      [] OTHER         -> <<"call">>

\* A program passes unmap and persist a handle it has, or an invalid one.
Start(t, op, w) ==
    /\ running /\ call[t] = None
    /\ IF op \in {"unmap", "persist"}
       THEN w \in attached \cup {None} /\ \A u \in Threads \ {t} :
                w # None /\ call[u] # None => call[u].window # w
       ELSE w = None
    /\ call' = [call EXCEPT ![t] = [op |-> op, window |-> w]]
    /\ todo' = [todo EXCEPT ![t] = <<"lock">> \o Steps(op)]
    /\ told' = [told EXCEPT ![t] = None]
    /\ returned' = [returned EXCEPT ![t] = None]
    /\ UNCHANGED <<socket, mutex, reserved, attached, running>>
    /\ UNCHANGED <<manager, mappings, requests, replies, forgotten>>

At(t, step) == running /\ todo[t] # << >> /\ Head(todo[t]) = step
Done(t) == todo' = [todo EXCEPT ![t] = Tail(@)]

Lock_Always(t) ==
    /\ At(t, "lock") /\ mutex' = t /\ Done(t)
    /\ UNCHANGED <<socket, call, reserved, attached, running, returned, remote>>
Lock(t) ==
    /\ At(t, "lock") /\ mutex = None
    /\ mutex' = t /\ Done(t)
    /\ UNCHANGED <<socket, call, reserved, attached, running, returned, remote>>

\* The function returns and gives the mutex back.
Return(t, value, errno) ==
    /\ returned' = [returned EXCEPT ![t] =
                       [op |-> call[t].op, value |-> value, errno |-> errno]]
    /\ call' = [call EXCEPT ![t] = None]
    /\ todo' = [todo EXCEPT ![t] = << >>]
    /\ mutex' = None

\* DASIM_FATAL
Fatal == running' = FALSE /\ UNCHANGED <<socket, mutex, call, todo, reserved, attached, returned>>

Failure(op) == IF op = "get_size" THEN 0 ELSE -1

(***************************************************************************)
(* init and close.                                                         *)
(***************************************************************************)
InitOrClose(t) ==
    /\ \E op \in {"init", "close"} : At(t, op)
    /\ \/ /\ call[t].op = "init" /\ socket = "uninitialized" /\ ~manager
          /\ Fatal
       \/ /\ call[t].op = "init" /\ socket = "uninitialized" => manager
          /\ socket' = CASE call[t].op = "init" /\ socket = "uninitialized" -> "open"
                         [] call[t].op = "close" /\ socket = "open" -> "closed"
                         [] OTHER -> socket
          /\ Return(t, 0, "unset")
          /\ UNCHANGED <<reserved, attached, running>>
    /\ UNCHANGED remote

(***************************************************************************)
(* The steps of the other functions.                                       *)
(***************************************************************************)

\* alloc's test of its size, unmap's of its handle; sizes are the program's choice.
CheckArguments(t) ==
    /\ At(t, "check")
    /\ \/ /\ call[t].op = "unmap" => call[t].window # None
          /\ Done(t) /\ UNCHANGED <<mutex, call, returned>>
       \/ /\ call[t].op = "unmap" => call[t].window = None
          /\ Return(t, -1, "EINVAL")
    /\ UNCHANGED <<socket, reserved, attached, running, remote>>

reserve_vmemory(t) ==
    /\ At(t, "reserve")
    /\ \/ \E w \in Windows \ (attached \cup {reserved[u] : u \in Threads}) :
             /\ reserved' = [reserved EXCEPT ![t] = w]
             /\ Done(t) /\ UNCHANGED <<mutex, call, returned>>
       \/ Return(t, -1, "ENOMEM") /\ UNCHANGED reserved
    /\ UNCHANGED <<socket, attached, running, remote>>

\* call_manager's write: the map call is the one made with memory reserved.
Send(t) ==
    /\ At(t, "call")
    /\ IF socket = "open" /\ manager
       THEN /\ requests' = Append(requests,
                  [thread |-> t, op |-> call[t].op,
                   window |-> IF reserved[t] # None THEN reserved[t] ELSE call[t].window])
            /\ todo' = [todo EXCEPT ![t] = <<"answer">> \o Tail(@)]
            /\ UNCHANGED <<socket, mutex, call, reserved, attached, running, returned>>
       ELSE Fatal /\ UNCHANGED requests
    /\ UNCHANGED <<manager, mappings, replies, told, forgotten>>

\* int get_size(): the manager's size_t becomes an int and then a size_t again.
narrow(size) ==
    LET low == size % 2^IntBits
    IN  IF low < 2^(IntBits - 1) THEN low ELSE 2^SizeBits - 2^IntBits + low

\* What a function returns when its last answer is a.
Value(op, a) ==
    CASE op # "persist" /\ a.error # "0"  -> Failure(op)
      [] op = "get_size" /\ a.error = "0" -> narrow(a.size)
      [] OTHER                            -> 0

\* get_size sets errno on errors only.
Errno(op, a) == IF op = "get_size" /\ a.error = "0" THEN "unset" ELSE a.error

\* An error ends alloc and map, which give the reservation back.
GiveBack_Kept(t) == UNCHANGED reserved
GiveBack(t) == reserved' = [reserved EXCEPT ![t] = None]

\* call_manager's read takes what is in the socket.
Receive(t) ==
    /\ At(t, "answer")
    /\ \/ /\ replies # << >> /\ replies' = Tail(replies)
          /\ LET reply == Head(replies)
             IN  IF reply.error # "0" \/ Len(todo[t]) = 1
                 THEN /\ Return(t, Value(call[t].op, reply), Errno(call[t].op, reply))
                      /\ GiveBack(t)
                 ELSE Done(t) /\ UNCHANGED <<mutex, call, returned, reserved>>
          /\ UNCHANGED <<socket, attached, running>>
       \/ replies = << >> /\ ~manager /\ Fatal /\ UNCHANGED replies
    /\ UNCHANGED <<manager, mappings, requests, told, forgotten>>

attach_seg(t) ==
    /\ At(t, "attach")
    /\ attached' = attached \cup {reserved[t]}
    /\ reserved' = [reserved EXCEPT ![t] = None]
    /\ Return(t, 0, "unset")
    /\ UNCHANGED <<socket, running, remote>>

Detach(t) ==
    /\ At(t, "detach")
    /\ attached' = attached \ {call[t].window}
    /\ Return(t, 0, "0")
    /\ UNCHANGED <<socket, reserved, running, remote>>

(***************************************************************************)
(* The manager's side of the socket (client.cc).  An unmap forgets the     *)
(* window before client_manager::unmap can fail.                           *)
(***************************************************************************)
Failures(r) ==
    {"EIO"} \cup (IF r.op \in {"unmap", "persist"} /\ r.window \notin mappings
                  THEN {"ENOENT"} ELSE {"0"})

handle_call(error, size) ==
    LET request == Head(requests)
        reply   == [error |-> error, size |-> IF request.op = "get_size" THEN size ELSE 0]
    IN  /\ manager /\ requests # << >>
        /\ error \in Failures(request)
        /\ requests' = Tail(requests) /\ replies' = Append(replies, reply)
        /\ told' = [told EXCEPT ![request.thread] = reply]
        /\ mappings' =
              CASE request.op \in {"alloc", "map"} /\ request.window # None /\ error = "0"
                        -> mappings \cup {request.window}
                [] request.op = "unmap" -> mappings \ {request.window}
                [] OTHER -> mappings
        /\ forgotten' = IF request.op = "unmap" /\ error # "0"
                        THEN forgotten \cup {request.window} ELSE forgotten
        /\ UNCHANGED <<library, manager>>

ManagerEnds ==
    /\ manager /\ manager' = FALSE /\ requests' = << >>
    /\ UNCHANGED <<library, mappings, replies, told, forgotten>>

\* The client's thread notices that the socket was closed.
CleanUp ==
    /\ manager
    /\ socket = "closed" \/ ~running
    /\ mappings # {} /\ mappings' = {}
    /\ UNCHANGED <<library, manager, requests, replies, told, forgotten>>

ThreadStep(t) ==
    \/ Lock(t) \/ InitOrClose(t) \/ CheckArguments(t) \/ reserve_vmemory(t)
    \/ Send(t) \/ Receive(t) \/ attach_seg(t) \/ Detach(t)

Next ==
    \/ \E t \in Threads : ThreadStep(t)
    \/ \E t \in Threads, op \in Ops, w \in Windows \cup {None} : Start(t, op, w)
    \/ \E e \in {"0", "EIO", "ENOENT"}, s \in Sizes : handle_call(e, s)
    \/ CleanUp \/ ManagerEnds

Spec == Init /\ [][Next]_vars

(***************************************************************************)
(* Properties.                                                             *)
(***************************************************************************)

\* Type invariant.
TypeOK ==
    /\ socket \in {"uninitialized", "open", "closed"}
    /\ mutex \in Threads \cup {None}
    /\ \A t \in Threads :
          /\ call[t] = None <=> todo[t] = << >>
          /\ call[t] # None => call[t].op \in Ops /\ call[t].window \in Windows \cup {None}
          /\ reserved[t] \in Windows \cup {None}
          /\ returned[t] # None => returned[t].value \in -1..(2^SizeBits - 1)
    /\ attached \subseteq Windows /\ mappings \subseteq Windows
    /\ forgotten \subseteq Windows \cup {None}
    /\ running \in BOOLEAN /\ manager \in BOOLEAN

\* Whatever other threads call meanwhile, a function returns what the manager
\* answered to its own last request: failure and errno when that was an error,
\* success (or the size, as far as an int holds it) when it was not, and a
\* failure of its own when it never asked.  persist reports through errno only.
ResultsReflectAnswers ==
    \A t \in Threads :
        LET r == returned[t]  a == told[t]
            failed == r.value = Failure(r.op)
        IN  r # None /\ r.op \notin {"init", "close"} =>
                IF a = None THEN failed /\ r.errno \in {"EINVAL", "ENOMEM"}
                ELSE /\ a.error # "0" => r.errno = a.error /\ (failed \/ r.op = "persist")
                     /\ a.error = "0" /\ r.op # "get_size" =>
                            r.value = IF r.errno = "ENOMEM" THEN -1 ELSE 0
                     /\ a.error = "0" /\ r.op = "get_size" /\ a.size < 2^(IntBits - 1)
                            => r.value = a.size

\* Between calls the library and the manager agree on what is mapped where: no
\* memory stays reserved by a call that failed, every window the manager has is
\* attached, and an attached one that the manager does not have is left over
\* from an unmap that failed in the manager.
WindowsAgree ==
    running /\ (\A t \in Threads : todo[t] = << >> \/ Head(todo[t]) = "lock") =>
        /\ \A t \in Threads : reserved[t] = None
        /\ socket = "open" /\ manager =>
              mappings \subseteq attached /\ attached \ mappings \subseteq forgotten

\* damemory_persist: "0 on success, -1 if an error occurs".
\* Does not hold; the README says where and why.
PersistReportsErrors ==
    \A t \in Threads :
        returned[t] # None /\ returned[t].op = "persist" /\ told[t].error # "0"
            => returned[t].value = -1

\* damemory_get_size: "Size of the region in bytes, 0 if an error occurs".
\* Does not hold; the README says where and why.
SizeIsTheRegions ==
    \A t \in Threads :
        returned[t] # None /\ returned[t].op = "get_size" /\ told[t].error = "0"
            => returned[t].value = told[t].size

\* damemory_init: "Initialize damemory": when it returns, calls can be made.
\* Does not hold; the README says where and why.
InitReadies ==
    [][\A t \in Threads :
          call[t] # None /\ call[t].op = "init" /\ call'[t] = None => socket' = "open"]_vars
==============================================================================

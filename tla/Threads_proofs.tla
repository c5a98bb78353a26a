--------------------------- MODULE Threads_proofs ---------------------------
(***************************************************************************)
(* Theorems about threads on both sides of the socket, for any number of   *)
(* them: DamemoryApi, the library in a process, and, as M, ManagerThreads, *)
(* the threads of damanager and what the joins of the destructors and of   *)
(* accept_client guarantee.                                                *)
(***************************************************************************)
EXTENDS DamemoryApi, MCThreads, TLAPS

\* How long a prover may look for the proof of a leaf.
USE ZenonT(60)

\* What a call has left to do at each of its points.
Plans(op) ==
    IF op = "alloc"
    THEN {<<"lock", "check", "reserve", "call", "attach">>, <<"check", "reserve", "call", "attach">>,
          <<"reserve", "call", "attach">>, <<"call", "attach">>, <<"answer", "attach">>, <<"attach">>}
    ELSE IF op = "map"
    THEN {<<"lock", "call", "reserve", "call", "attach">>, <<"call", "reserve", "call", "attach">>,
          <<"answer", "reserve", "call", "attach">>, <<"reserve", "call", "attach">>,
          <<"call", "attach">>, <<"answer", "attach">>, <<"attach">>}
    ELSE IF op = "unmap"
    THEN {<<"lock", "check", "call", "detach">>, <<"check", "call", "detach">>, <<"call", "detach">>,
          <<"answer", "detach">>, <<"detach">>}
    ELSE IF op \in {"init", "close"}
    THEN {<<"lock", op>>, <<op>>}
    ELSE {<<"lock", "call">>, <<"call">>, <<"answer">>}

\* Not in the library's critical section; with an answer to come; with memory reserved.
Waits(p) == p = << >> \/ Head(p) = "lock"
Asked(p) == p # << >> /\ Head(p) = "answer"
Reserving(p) == p # << >> /\ (Head(p) = "attach" \/ (Tail(p) # << >> /\ Head(Tail(p)) = "attach"))

\* ResultsReflectAnswers of one result and one answer.
Reflects(r, a) ==
    LET failed == r.value = Failure(r.op)
    IN  r # None /\ r.op \notin {"init", "close"} =>
            IF a = None THEN failed /\ r.errno \in {"EINVAL", "ENOMEM"}
            ELSE /\ a.error # "0" => r.errno = a.error /\ (failed \/ r.op = "persist")
                 /\ a.error = "0" /\ r.op # "get_size" =>
                        r.value = IF r.errno = "ENOMEM" THEN -1 ELSE 0
                 /\ a.error = "0" /\ r.op = "get_size" /\ a.size < 2^(IntBits - 1)
                        => r.value = a.size

\* What a thread knows of the manager's answer at a point of its call.
ToldOk(op, p, a) ==
    /\ Head(p) \in {"lock", "check"} => a = None
    /\ Head(p) = "reserve" /\ op = "alloc" => a = None
    /\ Head(p) \in {"attach", "detach"} \/ (Head(p) = "reserve" /\ op = "map") =>
           a # None /\ a.error = "0"

\* A call under way: only unmap and persist have a window.
InCall(c, p, r, a) ==
    /\ c \in Calls /\ p \in Plans(c.op) /\ r = None /\ ToldOk(c.op, p, a)
    /\ c.op \notin {"unmap", "persist"} => c.window = None

\* The threads: one has the mutex, and that one may have memory reserved.
ThreadOk(t) ==
    /\ told[t] \in Answers \cup {None} /\ reserved[t] \in Windows \cup {None}
    /\ mutex = t <=> ~Waits(todo[t])
    /\ reserved[t] # None <=> Reserving(todo[t])
    /\ \/ call[t] = None /\ todo[t] = << >> /\ Reflects(returned[t], told[t])
       \/ call[t] # None /\ InCall(call[t], todo[t], returned[t], told[t])

\* The socket has the request of the thread that waits for its answer, or the
\* answer, or nothing any more when the manager has ended.
RequestOf(t) == [thread |-> t, op |-> call[t].op,
                 window |-> IF reserved[t] # None THEN reserved[t] ELSE call[t].window]
SocketOk ==
    /\ (\A t \in Threads : ~Asked(todo[t])) => requests = << >> /\ replies = << >>
    /\ \A t \in Threads : Asked(todo[t]) =>
           \/ requests = <<RequestOf(t)>> /\ replies = << >>
           \/ requests = << >> /\ told[t] # None /\ replies = <<told[t]>>
           \/ requests = << >> /\ replies = << >> /\ ~manager

\* The manager has mapped the window of a thread, or given it up, and the library
\* has not attached or detached it yet.
Answered(t) == Asked(todo[t]) /\ replies # << >> /\ told[t].error = "0"
Granted(t) == Reserving(todo[t]) /\ (Head(todo[t]) = "attach" \/ Answered(t))
Released(t) == ~Waits(todo[t]) /\ call[t].op = "unmap" /\ (Head(todo[t]) = "detach" \/ Answered(t))

Live == running /\ socket # "closed" /\ manager
MapsOk ==
    Live =>
        /\ \A w \in mappings : w \in attached \/ \E t \in Threads : Granted(t) /\ reserved[t] = w
        /\ \A w \in attached : w \in mappings \/ w \in forgotten
                                  \/ \E t \in Threads : Released(t) /\ call[t].window = w
        /\ \A t \in Threads : Granted(t) => reserved[t] \in mappings
        /\ \A t \in Threads : Released(t) => call[t].window \notin mappings

\* The inductive invariant.
ApiTypes ==
    /\ DOMAIN call = Threads /\ DOMAIN todo = Threads /\ DOMAIN reserved = Threads
    /\ DOMAIN returned = Threads /\ DOMAIN told = Threads
    /\ mutex \in Threads \cup {None}
ThreadsOk == \A t \in Threads : ThreadOk(t)
ApiInv == ApiTypes /\ ThreadsOk /\ SocketOk /\ MapsOk

(***************************************************************************)
(* Sequences of steps.                                                     *)
(***************************************************************************)

\* First and other steps of a plan, and the plan of a call that starts.
LEMMA Sequences ==
    /\ \A a : << >> # <<a>> /\ Head(<<a>>) = a /\ Tail(<<a>>) = << >> /\ Append(<< >>, a) = <<a>> /\ Len(<<a>>) = 1
    /\ \A a, b : << >> # <<a, b>> /\ Head(<<a, b>>) = a /\ Tail(<<a, b>>) = <<b>> /\ Len(<<a, b>>) = 2
    /\ \A a, b, c : << >> # <<a, b, c>> /\ Head(<<a, b, c>>) = a /\ Tail(<<a, b, c>>) = <<b, c>>
                    /\ Len(<<a, b, c>>) = 3
    /\ \A a, b, c, d : << >> # <<a, b, c, d>> /\ Head(<<a, b, c, d>>) = a /\ Tail(<<a, b, c, d>>) = <<b, c, d>>
                       /\ Len(<<a, b, c, d>>) = 4
    /\ \A a, b, c, d, e : << >> # <<a, b, c, d, e>> /\ Head(<<a, b, c, d, e>>) = a
                          /\ Tail(<<a, b, c, d, e>>) = <<b, c, d, e>> /\ Len(<<a, b, c, d, e>>) = 5
<1>1. \A a : << >> # <<a>> /\ Head(<<a>>) = a /\ Tail(<<a>>) = << >> /\ Append(<< >>, a) = <<a>> /\ Len(<<a>>) = 1
  BY SMTT(30)
<1>2. \A a, b : << >> # <<a, b>> /\ Head(<<a, b>>) = a /\ Tail(<<a, b>>) = <<b>> /\ Len(<<a, b>>) = 2
  BY SMTT(30)
<1>3. \A a, b, c : << >> # <<a, b, c>> /\ Head(<<a, b, c>>) = a /\ Tail(<<a, b, c>>) = <<b, c>>
                   /\ Len(<<a, b, c>>) = 3
  BY SMTT(30)
<1>4. \A a, b, c, d : << >> # <<a, b, c, d>> /\ Head(<<a, b, c, d>>) = a /\ Tail(<<a, b, c, d>>) = <<b, c, d>>
                      /\ Len(<<a, b, c, d>>) = 4
  BY SMTT(30)
<1>5. \A a, b, c, d, e : << >> # <<a, b, c, d, e>> /\ Head(<<a, b, c, d, e>>) = a
                         /\ Tail(<<a, b, c, d, e>>) = <<b, c, d, e>> /\ Len(<<a, b, c, d, e>>) = 5
  BY SMTT(30)
<1> QED BY <1>1, <1>2, <1>3, <1>4, <1>5, SMTT(30)

\* A step put before others.
LEMMA Prefixes ==
    /\ \A a : <<a>> \o << >> = <<a>>
    /\ \A a, b : <<a>> \o <<b>> = <<a, b>>
    /\ \A a, b, c : <<a>> \o <<b, c>> = <<a, b, c>>
    /\ \A a, b, c, d : <<a>> \o <<b, c, d>> = <<a, b, c, d>>
    /\ \A a, b, c, d, e : <<a>> \o <<b, c, d, e>> = <<a, b, c, d, e>>
<1>0. ASSUME NEW S, NEW s \in Seq(S), NEW r \in Seq(S), Len(s) = Len(r), \A n \in 1..Len(s) : s[n] = r[n]
      PROVE  s = r
  BY <1>0, SMTT(30)
<1>1. \A a : <<a>> \o << >> = <<a>>
  BY SMTT(30)
<1>2. ASSUME NEW a, NEW b PROVE <<a>> \o <<b>> = <<a, b>>
  <2>1. <<a>> \o <<b>> \in Seq({a, b}) /\ <<a, b>> \in Seq({a, b})
    BY SMTT(30)
  <2>2. Len(<<a>> \o <<b>>) = 2 /\ Len(<<a, b>>) = 2
    BY SMTT(30)
  <2>3. \A n \in 1..2 : (<<a>> \o <<b>>)[n] = <<a, b>>[n]
    BY SMTT(30)
  <2> QED BY <1>0, <2>1, <2>2, <2>3
<1>3. ASSUME NEW a, NEW b, NEW c PROVE <<a>> \o <<b, c>> = <<a, b, c>>
  <2>1. <<a>> \o <<b, c>> \in Seq({a, b, c}) /\ <<a, b, c>> \in Seq({a, b, c})
    BY SMTT(30)
  <2>2. Len(<<a>> \o <<b, c>>) = 3 /\ Len(<<a, b, c>>) = 3
    BY SMTT(30)
  <2>3. \A n \in 1..3 : (<<a>> \o <<b, c>>)[n] = <<a, b, c>>[n]
    BY SMTT(30)
  <2> QED BY <1>0, <2>1, <2>2, <2>3
<1>4. ASSUME NEW a, NEW b, NEW c, NEW d PROVE <<a>> \o <<b, c, d>> = <<a, b, c, d>>
  <2>1. <<a>> \o <<b, c, d>> \in Seq({a, b, c, d}) /\ <<a, b, c, d>> \in Seq({a, b, c, d})
    BY SMTT(30)
  <2>2. Len(<<a>> \o <<b, c, d>>) = 4 /\ Len(<<a, b, c, d>>) = 4
    BY SMTT(30)
  <2>3. \A n \in 1..4 : (<<a>> \o <<b, c, d>>)[n] = <<a, b, c, d>>[n]
    BY SMTT(30)
  <2> QED BY <1>0, <2>1, <2>2, <2>3
<1>5. ASSUME NEW a, NEW b, NEW c, NEW d, NEW e PROVE <<a>> \o <<b, c, d, e>> = <<a, b, c, d, e>>
  <2>1. <<a>> \o <<b, c, d, e>> \in Seq({a, b, c, d, e}) /\ <<a, b, c, d, e>> \in Seq({a, b, c, d, e})
    BY SMTT(30)
  <2>2. Len(<<a>> \o <<b, c, d, e>>) = 5 /\ Len(<<a, b, c, d, e>>) = 5
    BY SMTT(30)
  <2>3. \A n \in 1..5 : (<<a>> \o <<b, c, d, e>>)[n] = <<a, b, c, d, e>>[n]
    BY SMTT(30)
  <2> QED BY <1>0, <2>1, <2>2, <2>3
<1> QED BY <1>1, <1>2, <1>3, <1>4, <1>5, SMTT(30)

\* What comes after each step of a call.
PlanOk(op, p) ==
    /\ p # << >> /\ (Reserving(p) => op \in {"alloc", "map"} /\ ~Waits(p))
    /\ Head(p) = "lock" => Tail(p) = Steps(op)
    /\ Head(p) = "check" =>
           /\ op \in {"alloc", "unmap"} /\ ~Reserving(p) /\ ~Reserving(Tail(p))
           /\ Tail(p) \in Plans(op) /\ Tail(p) # << >> /\ Head(Tail(p)) \in {"reserve", "call"}
    /\ Head(p) = "reserve" =>
           /\ op \in {"alloc", "map"} /\ ~Reserving(p) /\ Reserving(Tail(p))
           /\ Tail(p) \in Plans(op) /\ Tail(p) # << >> /\ Head(Tail(p)) = "call"
    /\ Head(p) = "call" =>
           LET q == <<"answer">> \o Tail(p)
           IN  q \in Plans(op) /\ q # << >> /\ Head(q) = "answer" /\ (Reserving(q) <=> Reserving(p))
    /\ Head(p) = "answer" =>
           IF Len(p) = 1 THEN op \notin {"alloc", "map", "unmap", "init", "close"} /\ ~Reserving(p)
           ELSE /\ Tail(p) \in Plans(op) /\ Tail(p) # << >>
                /\ \/ Head(Tail(p)) = "reserve" /\ op = "map" /\ ~Reserving(p) /\ ~Reserving(Tail(p))
                   \/ Head(Tail(p)) = "attach" /\ Reserving(p) /\ Reserving(Tail(p))
                   \/ Head(Tail(p)) = "detach" /\ op = "unmap" /\ ~Reserving(p) /\ ~Reserving(Tail(p))
    /\ Head(p) = "attach" => Reserving(p)
    /\ Head(p) = "detach" => op = "unmap" /\ ~Reserving(p)
    /\ Head(p) \in {"init", "close"} => op = Head(p) /\ ~Reserving(p)

\* Every point of every call.
LEMMA PlanFacts == \A op \in Ops : \A p \in Plans(op) : PlanOk(op, p)
<1> USE DEF PlanOk, Reserving, Waits, Steps
<1>1. \A p \in Plans("alloc") : PlanOk("alloc", p)
  <2>1. PlanOk("alloc", <<"lock", "check", "reserve", "call", "attach">>)
    BY Sequences, SMTT(30)
  <2>2. PlanOk("alloc", <<"check", "reserve", "call", "attach">>)
    BY Sequences, SMTT(30) DEF Plans
  <2>3. PlanOk("alloc", <<"reserve", "call", "attach">>)
    BY Sequences, SMTT(30) DEF Plans
  <2>4. PlanOk("alloc", <<"call", "attach">>)
    BY Sequences, Prefixes, SMTT(30) DEF Plans
  <2>5. PlanOk("alloc", <<"answer", "attach">>)
    BY Sequences, SMTT(30) DEF Plans
  <2>6. PlanOk("alloc", <<"attach">>)
    BY Sequences, SMTT(30)
  <2> HIDE DEF PlanOk
  <2> QED BY <2>1, <2>2, <2>3, <2>4, <2>5, <2>6 DEF Plans
<1>2. \A p \in Plans("map") : PlanOk("map", p)
  <2>1. PlanOk("map", <<"lock", "call", "reserve", "call", "attach">>)
    BY Sequences, SMTT(30)
  <2>2. PlanOk("map", <<"call", "reserve", "call", "attach">>)
    BY Sequences, Prefixes, SMTT(30) DEF Plans
  <2>3. PlanOk("map", <<"answer", "reserve", "call", "attach">>)
    BY Sequences, SMTT(30) DEF Plans
  <2>4. PlanOk("map", <<"reserve", "call", "attach">>)
    BY Sequences, SMTT(30) DEF Plans
  <2>5. PlanOk("map", <<"call", "attach">>)
    BY Sequences, Prefixes, SMTT(30) DEF Plans
  <2>6. PlanOk("map", <<"answer", "attach">>)
    BY Sequences, SMTT(30) DEF Plans
  <2>7. PlanOk("map", <<"attach">>)
    BY Sequences, SMTT(30)
  <2> HIDE DEF PlanOk
  <2> QED BY <2>1, <2>2, <2>3, <2>4, <2>5, <2>6, <2>7 DEF Plans
<1>3. \A p \in Plans("unmap") : PlanOk("unmap", p)
  <2>1. PlanOk("unmap", <<"lock", "check", "call", "detach">>)
    BY Sequences, SMTT(30)
  <2>2. PlanOk("unmap", <<"check", "call", "detach">>)
    BY Sequences, SMTT(30) DEF Plans
  <2>3. PlanOk("unmap", <<"call", "detach">>)
    BY Sequences, Prefixes, SMTT(30) DEF Plans
  <2>4. PlanOk("unmap", <<"answer", "detach">>)
    BY Sequences, SMTT(30) DEF Plans
  <2>5. PlanOk("unmap", <<"detach">>)
    BY Sequences, SMTT(30)
  <2> HIDE DEF PlanOk
  <2> QED BY <2>1, <2>2, <2>3, <2>4, <2>5 DEF Plans
<1>4. ASSUME NEW op \in {"init", "close"} PROVE \A p \in Plans(op) : PlanOk(op, p)
  <2>1. PlanOk(op, <<"lock", op>>)
    BY Sequences, SMTT(30)
  <2>2. PlanOk(op, <<op>>)
    BY Sequences, SMTT(30)
  <2> HIDE DEF PlanOk
  <2> QED BY <2>1, <2>2 DEF Plans
<1>5. ASSUME NEW op \in Ops \ {"alloc", "map", "unmap", "init", "close"}
      PROVE  \A p \in Plans(op) : PlanOk(op, p)
  <2>1. PlanOk(op, <<"lock", "call">>)
    BY Sequences, SMTT(30) DEF Ops
  <2>2. PlanOk(op, <<"call">>)
    BY Sequences, Prefixes, SMTT(30) DEF Plans
  <2>3. PlanOk(op, <<"answer">>)
    BY Sequences, SMTT(30) DEF Plans
  <2> HIDE DEF PlanOk
  <2> QED BY <2>1, <2>2, <2>3 DEF Plans
<1> HIDE DEF PlanOk
<1> QED BY <1>1, <1>2, <1>3, <1>4, <1>5

\* A call that starts, and the first step under the lock.
LEMMA StartFacts ==
    ASSUME NEW op \in Ops
    PROVE  /\ <<"lock">> \o Steps(op) \in Plans(op) /\ <<"lock">> \o Steps(op) # << >>
           /\ Head(<<"lock">> \o Steps(op)) = "lock"
           /\ Steps(op) \in Plans(op) /\ Steps(op) # << >> /\ ~Reserving(Steps(op))
           /\ Head(Steps(op)) \in {"check", "call", "init", "close"}
<1>1. CASE op \in {"init", "close"}
  <2>1. Steps(op) = <<op>> /\ Plans(op) = {<<"lock", op>>, <<op>>}
    BY <1>1 DEF Steps, Plans
  <2>2. <<"lock">> \o <<op>> = <<"lock", op>>
    BY Prefixes, SMTT(30)
  <2>3. Head(<<op>>) = op /\ <<op>> # << >> /\ <<"lock", op>> # << >> /\ Head(<<"lock", op>>) = "lock"
    BY SMTT(30)
  <2>4. ~Reserving(<<op>>)
    BY <1>1, SMTT(30) DEF Reserving
  <2> QED BY <1>1, <2>1, <2>2, <2>3, <2>4
<1>2. CASE op = "alloc"
  BY <1>2, Sequences, Prefixes, SMTT(30) DEF Steps, Plans, Reserving
<1>3. CASE op = "map"
  BY <1>3, Sequences, Prefixes, SMTT(30) DEF Steps, Plans, Reserving
<1>4. CASE op = "unmap"
  BY <1>4, Sequences, Prefixes, SMTT(30) DEF Steps, Plans, Reserving
<1>5. CASE op \notin {"init", "close", "alloc", "map", "unmap"}
  <2>1. Steps(op) = <<"call">> /\ Plans(op) = {<<"lock", "call">>, <<"call">>, <<"answer">>}
    BY <1>5 DEF Steps, Plans
  <2>2. <<"lock">> \o <<"call">> = <<"lock", "call">>
    BY Prefixes, SMTT(30)
  <2>3. /\ Head(<<"call">>) = "call" /\ <<"call">> # << >> /\ Tail(<<"call">>) = << >>
        /\ <<"lock", "call">> # << >> /\ Head(<<"lock", "call">>) = "lock"
    BY SMTT(30)
  <2>4. ~Reserving(<<"call">>)
    BY <2>3 DEF Reserving
  <2> QED BY <1>5, <2>1, <2>2, <2>3, <2>4
<1> QED BY <1>1, <1>2, <1>3, <1>4, <1>5

(***************************************************************************)
(* Threads that do nothing.                                                *)
(***************************************************************************)

\* All that is known of a thread stays.
Rests(u) == /\ call'[u] = call[u] /\ todo'[u] = todo[u] /\ reserved'[u] = reserved[u]
            /\ returned'[u] = returned[u] /\ told'[u] = told[u]

\* A thread outside the critical section has nothing reserved and nothing to wait for.
LEMMA WaitsMeans ==
    ASSUME ThreadsOk, NEW u \in Threads, Waits(todo[u])
    PROVE  ~Asked(todo[u]) /\ ~Reserving(todo[u]) /\ reserved[u] = None /\ ~Granted(u) /\ ~Released(u)
<1>1. ThreadOk(u)
  BY DEF ThreadsOk
<1>2. ~Asked(todo[u])
  BY DEF Waits, Asked
<1>3. ~Reserving(todo[u])
  <2>1. CASE todo[u] = << >>
    BY <2>1 DEF Reserving
  <2>2. CASE todo[u] # << >>
    <3>1. call[u] \in Calls /\ todo[u] \in Plans(call[u].op)
      BY <1>1, <2>2 DEF ThreadOk, InCall
    <3>2. call[u].op \in Ops
      BY <3>1 DEF Calls
    <3> QED BY <3>1, <3>2, PlanFacts DEF PlanOk
  <2> QED BY <2>1, <2>2
<1> QED BY <1>1, <1>2, <1>3 DEF ThreadOk, Granted, Released

\* Who is past the lock has the mutex, and all others wait.
LEMMA Holder ==
    ASSUME ApiInv, NEW t \in Threads, NEW step, At(t, step), step # "lock"
    PROVE  /\ mutex = t /\ running /\ todo[t] # << >> /\ Head(todo[t]) = step
           /\ call[t] # None /\ call[t].op \in Ops /\ todo[t] \in Plans(call[t].op)
           /\ InCall(call[t], todo[t], returned[t], told[t]) /\ PlanOk(call[t].op, todo[t])
           /\ \A u \in Threads \ {t} : Waits(todo[u])
<1>1. running /\ todo[t] # << >> /\ Head(todo[t]) = step
  BY DEF At
<1>2. ThreadOk(t) /\ \A u \in Threads : ThreadOk(u)
  BY DEF ApiInv, ThreadsOk
<1>3. mutex = t /\ call[t] # None /\ InCall(call[t], todo[t], returned[t], told[t])
  BY <1>1, <1>2 DEF ThreadOk, Waits
<1>4. call[t].op \in Ops /\ todo[t] \in Plans(call[t].op)
  BY <1>3 DEF InCall, Calls
<1>5. \A u \in Threads \ {t} : Waits(todo[u])
  BY <1>2, <1>3 DEF ThreadOk
<1> QED BY <1>1, <1>3, <1>4, <1>5, PlanFacts

\* A thread that rests outside the critical section is as it was.
LEMMA RestKeeps ==
    ASSUME ThreadsOk, NEW u \in Threads, Rests(u), mutex' = u <=> mutex = u
    PROVE  ThreadOk(u)'
<1>1. ThreadOk(u)
  BY DEF ThreadsOk
<1> QED BY <1>1 DEF ThreadOk, Rests

\* A step of a thread before which and after which it waits for no answer and no
\* window of it is in between.
Between(t) == ~Asked(todo[t]) /\ ~Granted(t) /\ ~Released(t)
LEMMA QuietStep ==
    ASSUME ApiInv, NEW t \in Threads, \A u \in Threads \ {t} : Waits(todo[u]) /\ Rests(u),
           mutex' \in {t, None}, mutex \in {t, None}, ThreadOk(t)', ApiTypes',
           UNCHANGED <<requests, replies, attached, mappings, forgotten>>,
           Live' => Live, Between(t), Between(t)'
    PROVE  ApiInv'
<1>t. ThreadsOk /\ SocketOk /\ MapsOk
  BY DEF ApiInv
<1>o. \A u \in Threads \ {t} : u # t /\ u # None
  BY NoneAssumption
<1>1. ThreadsOk'
  <2>1. ASSUME NEW u \in Threads \ {t} PROVE ThreadOk(u)'
    BY <1>t, <1>o, RestKeeps
  <2> QED BY <2>1 DEF ThreadsOk
<1>2. \A u \in Threads : Between(u) /\ Between(u)'
  <2>1. ASSUME NEW u \in Threads \ {t} PROVE Between(u) /\ Between(u)'
    <3>1. Between(u) /\ ~Reserving(todo[u])
      BY <1>t, WaitsMeans DEF Between
    <3>2. todo'[u] = todo[u]
      BY DEF Rests
    <3>3. ~Asked(todo'[u]) /\ ~Granted(u)' /\ ~Released(u)'
      BY <3>1, <3>2 DEF Between, Granted, Released
    <3> QED BY <3>1, <3>3 DEF Between
  <2> QED BY <2>1
<1>3. SocketOk'
  BY <1>t, <1>2 DEF SocketOk, Between
<1>4. MapsOk'
  BY <1>t, <1>2 DEF MapsOk, Between
<1> QED BY <1>1, <1>3, <1>4 DEF ApiInv

\* Returning gives the mutex back and leaves nothing behind.
LEMMA Returns ==
    ASSUME ApiInv, NEW t \in Threads, mutex = t, NEW v, NEW e, Return(t, v, e),
           told' = told, reserved'[t] = None,
           Reflects([op |-> call[t].op, value |-> v, errno |-> e], told[t])
    PROVE  ThreadOk(t)' /\ Between(t)' /\ \A u \in Threads \ {t} :
               call'[u] = call[u] /\ todo'[u] = todo[u] /\ returned'[u] = returned[u]
<1>1. /\ call'[t] = None /\ todo'[t] = << >> /\ mutex' = None
      /\ returned'[t] = [op |-> call[t].op, value |-> v, errno |-> e]
      /\ \A u \in Threads \ {t} : call'[u] = call[u] /\ todo'[u] = todo[u] /\ returned'[u] = returned[u]
  BY DEF Return, ApiInv, ApiTypes
<1>2. Waits(todo'[t]) /\ ~Reserving(todo'[t]) /\ ~Asked(todo'[t])
  BY <1>1 DEF Waits, Reserving, Asked
<1>3. told'[t] \in Answers \cup {None} /\ mutex' # t
  BY <1>1, NoneAssumption DEF ApiInv, ThreadsOk, ThreadOk
<1>4. ThreadOk(t)'
  BY <1>1, <1>2, <1>3 DEF ThreadOk
<1> QED BY <1>1, <1>2, <1>4 DEF Between, Granted, Released

\* DASIM_FATAL stops the process where it is.
LEMMA FatalKeeps ==
    ASSUME ApiInv, Fatal, UNCHANGED remote
    PROVE  ApiInv'
BY DEF ApiInv, ApiTypes, ThreadsOk, ThreadOk, SocketOk, RequestOf, MapsOk, Live, Fatal, remote

(***************************************************************************)
(* The library's steps.                                                    *)
(***************************************************************************)

\* A thread that gets the mutex finds nobody in the critical section.
LEMMA LockKeeps == ASSUME ApiInv, NEW t \in Threads, Lock(t) PROVE ApiInv'
<1>1. /\ running /\ todo[t] # << >> /\ Head(todo[t]) = "lock" /\ mutex = None /\ mutex' = t
      /\ todo' = [todo EXCEPT ![t] = Tail(@)]
      /\ UNCHANGED <<socket, call, reserved, attached, running, returned, remote>>
  BY DEF Lock, At, Done
<1>2. \A u \in Threads : Waits(todo[u]) /\ ThreadOk(u)
  BY <1>1, NoneAssumption DEF ApiInv, ThreadsOk, ThreadOk
<1>3. call[t] # None /\ InCall(call[t], todo[t], returned[t], told[t])
  BY <1>1, <1>2 DEF ThreadOk
<1>4. call[t].op \in Ops /\ todo[t] \in Plans(call[t].op) /\ told[t] = None
  BY <1>1, <1>3 DEF InCall, Calls, ToldOk
<1>5. todo'[t] = Steps(call[t].op) /\ \A u \in Threads \ {t} : todo'[u] = todo[u]
  <2>1. todo'[t] = Tail(todo[t]) /\ \A u \in Threads \ {t} : todo'[u] = todo[u]
    BY <1>1 DEF ApiInv, ApiTypes
  <2>2. PlanOk(call[t].op, todo[t])
    BY <1>4, PlanFacts
  <2> QED BY <1>1, <2>1, <2>2 DEF PlanOk
<1>6. \A u \in Threads \ {t} : Waits(todo[u]) /\ Rests(u)
  BY <1>1, <1>2, <1>5 DEF Rests, remote
<1>7. ThreadOk(t)'
  <2>1. ~Waits(todo'[t]) /\ ~Reserving(todo'[t])
    BY <1>4, <1>5, StartFacts DEF Waits
  <2>2. InCall(call'[t], todo'[t], returned'[t], told'[t])
    BY <1>1, <1>3, <1>4, <1>5, StartFacts DEF InCall, ToldOk, remote
  <2>3. reserved[t] = None
    BY <1>2, WaitsMeans DEF ApiInv
  <2> QED BY <1>1, <1>2, <1>3, <2>1, <2>2, <2>3 DEF ThreadOk, remote
<1>8. Between(t) /\ Between(t)'
  <2>1. Between(t)
    BY <1>2, WaitsMeans DEF ApiInv, Between
  <2>2. Between(t)'
    BY <1>4, <1>5, StartFacts DEF Between, Asked, Granted, Released, Answered
  <2> QED BY <2>1, <2>2
<1>9. ApiTypes' /\ (Live' => Live) /\ UNCHANGED <<requests, replies, attached, mappings, forgotten>>
  BY <1>1 DEF ApiInv, ApiTypes, Live, remote
<1> QED BY <1>1, <1>6, <1>7, <1>8, <1>9, QuietStep

\* Steps that return without an answer.
LEMMA ReturnKeeps ==
    ASSUME ApiInv, NEW t \in Threads, NEW step, At(t, step), step \notin {"lock", "answer", "attach", "detach"},
           NEW v, NEW e, Return(t, v, e), UNCHANGED <<reserved, attached, running, remote>>,
           ~Reserving(todo[t]), socket' # "closed" => socket # "closed",
           Reflects([op |-> call[t].op, value |-> v, errno |-> e], told[t])
    PROVE  ApiInv'
<1>1. /\ mutex = t /\ todo[t] # << >> /\ Head(todo[t]) = step
      /\ \A u \in Threads \ {t} : Waits(todo[u])
  BY Holder
<1>2. reserved'[t] = None
  BY DEF ApiInv, ThreadsOk, ThreadOk
<1>3. ThreadOk(t)' /\ Between(t)' /\ \A u \in Threads \ {t} :
          call'[u] = call[u] /\ todo'[u] = todo[u] /\ returned'[u] = returned[u]
  BY <1>1, <1>2, Returns DEF remote
<1>4. \A u \in Threads \ {t} : Waits(todo[u]) /\ Rests(u)
  BY <1>1, <1>3 DEF Rests, remote
<1>5. Between(t)
  BY <1>1 DEF Between, Asked, Granted, Released, Answered
<1>6. /\ ApiTypes' /\ (Live' => Live) /\ UNCHANGED <<requests, replies, attached, mappings, forgotten>>
      /\ mutex' = None
  BY DEF ApiInv, ApiTypes, Live, Return, remote
<1> QED BY <1>1, <1>3, <1>4, <1>5, <1>6, QuietStep

\* init and close.
LEMMA InitOrCloseKeeps == ASSUME ApiInv, NEW t \in Threads, InitOrClose(t) PROVE ApiInv'
<1>1. PICK op \in {"init", "close"} : At(t, op)
  BY DEF InitOrClose
<1>2. call[t].op = op /\ ~Reserving(todo[t])
  BY <1>1, Holder DEF PlanOk
<1>3. CASE Fatal
  BY <1>3, FatalKeeps DEF InitOrClose
<1>4. CASE ~Fatal
  <2>1. /\ socket' = CASE call[t].op = "init" /\ socket = "uninitialized" -> "open"
                       [] call[t].op = "close" /\ socket = "open" -> "closed"
                       [] OTHER -> socket
        /\ Return(t, 0, "unset") /\ UNCHANGED <<reserved, attached, running, remote>>
    BY <1>4 DEF InitOrClose
  <2>2. socket' # "closed" => socket # "closed"
    BY <2>1
  <2>3. Reflects([op |-> call[t].op, value |-> 0, errno |-> "unset"], told[t])
    BY <1>2 DEF Reflects
  <2> QED BY <1>1, <1>2, <2>1, <2>2, <2>3, ReturnKeeps
<1> QED BY <1>3, <1>4

\* A step that only takes the next one of the call, within the critical section.
LEMMA DoneKeeps ==
    ASSUME ApiInv, NEW t \in Threads, NEW step \in {"check", "reserve"}, At(t, step), Done(t),
           UNCHANGED <<socket, mutex, call, attached, running, returned, remote>>,
           reserved'[t] \in Windows \cup {None}, DOMAIN reserved' = Threads,
           reserved'[t] # None <=> Reserving(Tail(todo[t])),
           \A u \in Threads \ {t} : reserved'[u] = reserved[u]
    PROVE  ApiInv'
<1>1. /\ mutex = t /\ running /\ todo[t] # << >> /\ Head(todo[t]) = step
      /\ call[t] # None /\ call[t].op \in Ops /\ todo[t] \in Plans(call[t].op)
      /\ InCall(call[t], todo[t], returned[t], told[t]) /\ PlanOk(call[t].op, todo[t])
      /\ \A u \in Threads \ {t} : Waits(todo[u])
  BY Holder
<1>2. todo'[t] = Tail(todo[t]) /\ \A u \in Threads \ {t} : todo'[u] = todo[u]
  BY DEF Done, ApiInv, ApiTypes
<1>3. /\ Tail(todo[t]) \in Plans(call[t].op) /\ Tail(todo[t]) # << >>
      /\ Head(Tail(todo[t])) \in {"reserve", "call"}
      /\ Head(Tail(todo[t])) = "reserve" => step = "check" /\ call[t].op \in {"alloc", "unmap"}
  BY <1>1 DEF PlanOk
<1>4. ThreadOk(t)'
  <2>1. ~Waits(todo'[t])
    BY <1>2, <1>3 DEF Waits
  <2>2. ToldOk(call[t].op, Tail(todo[t]), told[t])
    BY <1>1, <1>3 DEF InCall, ToldOk
  <2>3. InCall(call'[t], todo'[t], returned'[t], told'[t])
    BY <1>1, <1>2, <1>3, <2>2 DEF InCall, remote
  <2>4. told[t] \in Answers \cup {None}
    BY DEF ApiInv, ThreadsOk, ThreadOk
  <2> QED BY <1>1, <1>2, <2>1, <2>3, <2>4 DEF ThreadOk, remote
<1>5. \A u \in Threads \ {t} : Waits(todo[u]) /\ Rests(u)
  BY <1>1, <1>2 DEF Rests, remote
<1>6. Between(t) /\ Between(t)'
  BY <1>1, <1>2, <1>3 DEF Between, Asked, Granted, Released, Answered
<1>7. ApiTypes' /\ (Live' => Live) /\ UNCHANGED <<requests, replies, attached, mappings, forgotten>>
  BY DEF ApiInv, ApiTypes, Live, Done, remote
<1> QED BY <1>1, <1>4, <1>5, <1>6, <1>7, QuietStep

\* The checks of alloc and unmap.
LEMMA CheckKeeps == ASSUME ApiInv, NEW t \in Threads, CheckArguments(t) PROVE ApiInv'
<1>1. At(t, "check") /\ UNCHANGED <<socket, reserved, attached, running, remote>>
  BY DEF CheckArguments
<1>2. /\ Head(todo[t]) = "check" /\ PlanOk(call[t].op, todo[t])
      /\ InCall(call[t], todo[t], returned[t], told[t])
  BY <1>1, Holder
<1>3. /\ call[t].op \in {"alloc", "unmap"} /\ ~Reserving(todo[t]) /\ ~Reserving(Tail(todo[t]))
      /\ told[t] = None
  BY <1>2 DEF PlanOk, InCall, ToldOk
<1>4. CASE Done(t) /\ UNCHANGED <<mutex, call, returned>>
  <2>1. reserved[t] = None /\ DOMAIN reserved = Threads
    BY <1>3 DEF ApiInv, ApiTypes, ThreadsOk, ThreadOk
  <2> QED BY <1>1, <1>3, <1>4, <2>1, DoneKeeps
<1>5. CASE Return(t, -1, "EINVAL")
  <2>1. Reflects([op |-> call[t].op, value |-> -1, errno |-> "EINVAL"], told[t])
    BY <1>3 DEF Reflects, Failure
  <2> QED BY <1>1, <1>3, <1>5, <2>1, ReturnKeeps
<1> QED BY <1>4, <1>5 DEF CheckArguments

\* Memory is reserved, or there is none.
LEMMA ReserveKeeps == ASSUME ApiInv, NEW t \in Threads, reserve_vmemory(t) PROVE ApiInv'
<1>1. At(t, "reserve") /\ UNCHANGED <<socket, attached, running, remote>>
  BY DEF reserve_vmemory
<1>2. /\ Head(todo[t]) = "reserve" /\ PlanOk(call[t].op, todo[t])
      /\ InCall(call[t], todo[t], returned[t], told[t])
  BY <1>1, Holder
<1>3. call[t].op \in {"alloc", "map"} /\ ~Reserving(todo[t]) /\ Reserving(Tail(todo[t]))
  BY <1>2 DEF PlanOk
<1>4. ASSUME NEW w \in Windows, reserved' = [reserved EXCEPT ![t] = w],
             Done(t), UNCHANGED <<mutex, call, returned>>
      PROVE  ApiInv'
  <2>1. /\ reserved'[t] = w /\ DOMAIN reserved' = Threads
        /\ \A u \in Threads \ {t} : reserved'[u] = reserved[u]
    BY <1>4 DEF ApiInv, ApiTypes, ApiTypes
  <2>2. w # None
    BY NoneAssumption
  <2> QED BY <1>1, <1>3, <1>4, <2>1, <2>2, DoneKeeps
<1>5. CASE Return(t, -1, "ENOMEM") /\ UNCHANGED reserved
  <2>1. told[t] = None \/ (told[t] # None /\ told[t].error = "0")
    BY <1>2, <1>3 DEF InCall, ToldOk
  <2>2. Reflects([op |-> call[t].op, value |-> -1, errno |-> "ENOMEM"], told[t])
    BY <1>3, <2>1 DEF Reflects, Failure
  <2> QED BY <1>1, <1>3, <1>5, <2>2, ReturnKeeps
<1> QED BY <1>4, <1>5 DEF reserve_vmemory

\* While a thread is in the critical section, the others neither ask nor have a
\* window in between.
LEMMA OthersQuiet ==
    ASSUME ThreadsOk, NEW t \in Threads, \A u \in Threads \ {t} : Waits(todo[u]) /\ Rests(u)
    PROVE  \A u \in Threads \ {t} : Between(u) /\ Between(u)'
<1> SUFFICES ASSUME NEW u \in Threads \ {t} PROVE Between(u) /\ Between(u)'
  OBVIOUS
<1>1. Between(u) /\ ~Reserving(todo[u])
  BY WaitsMeans DEF Between
<1>2. todo'[u] = todo[u] /\ Waits(todo[u])
  BY DEF Rests
<1>3. ~Asked(todo'[u]) /\ ~Granted(u)' /\ ~Released(u)'
  BY <1>1, <1>2 DEF Between, Granted, Released
<1> QED BY <1>1, <1>3 DEF Between

\* Nothing changes in what is mapped when the window in between stays so.
LEMMA MapsKeep ==
    ASSUME ApiInv, NEW t \in Threads, \A u \in Threads \ {t} : Waits(todo[u]) /\ Rests(u),
           UNCHANGED <<attached, mappings, forgotten>>, Live' => Live,
           Granted(t)' <=> Granted(t), Released(t)' <=> Released(t),
           Granted(t) => reserved'[t] = reserved[t], Released(t) => call'[t] = call[t]
    PROVE  MapsOk'
<1>1. \A u \in Threads \ {t} : Between(u) /\ Between(u)'
  BY OthersQuiet DEF ApiInv
<1>2. \A u \in Threads : (Granted(u)' <=> Granted(u)) /\ (Released(u)' <=> Released(u))
  BY <1>1 DEF Between
<1>3. \A u \in Threads : Granted(u) => reserved'[u] = reserved[u]
  BY <1>1 DEF Between
<1>4. \A u \in Threads : Released(u) => call'[u] = call[u]
  BY <1>1 DEF Between
<1>5. MapsOk
  BY DEF ApiInv
<1> QED BY <1>2, <1>3, <1>4, <1>5 DEF MapsOk

\* The threads after a step of one of them.
LEMMA ThreadsKeep ==
    ASSUME ApiInv, NEW t \in Threads, \A u \in Threads \ {t} : Waits(todo[u]) /\ Rests(u),
           mutex' \in {t, None}, mutex \in {t, None}, ThreadOk(t)'
    PROVE  ThreadsOk'
<1>1. ThreadsOk
  BY DEF ApiInv
<1>2. ASSUME NEW u \in Threads \ {t} PROVE ThreadOk(u)'
  <2>1. u # t /\ u # None
    BY NoneAssumption
  <2> QED BY <1>1, <2>1, RestKeeps
<1> QED BY <1>2 DEF ThreadsOk

\* call_manager writes its request to an empty socket.
LEMMA SendKeeps == ASSUME ApiInv, NEW t \in Threads, Send(t) PROVE ApiInv'
<1>1. At(t, "call") /\ UNCHANGED <<manager, mappings, replies, told, forgotten>>
  BY DEF Send
<1>2. /\ mutex = t /\ running /\ todo[t] # << >> /\ Head(todo[t]) = "call"
      /\ call[t] # None /\ call[t].op \in Ops /\ todo[t] \in Plans(call[t].op)
      /\ InCall(call[t], todo[t], returned[t], told[t]) /\ PlanOk(call[t].op, todo[t])
      /\ \A u \in Threads \ {t} : Waits(todo[u])
  BY <1>1, Holder
<1>3. CASE Fatal /\ UNCHANGED requests
  BY <1>1, <1>3, FatalKeeps DEF remote
<1>4. CASE socket = "open" /\ manager
  <2> DEFINE q == <<"answer">> \o Tail(todo[t])
  <2>1. /\ requests' = Append(requests, RequestOf(t)) /\ todo' = [todo EXCEPT ![t] = q]
        /\ UNCHANGED <<socket, mutex, call, reserved, attached, running, returned>>
    BY <1>4 DEF Send, RequestOf
  <2>2. /\ todo'[t] = q /\ \A u \in Threads \ {t} : todo'[u] = todo[u]
    BY <2>1 DEF ApiInv, ApiTypes
  <2>3. q \in Plans(call[t].op) /\ q # << >> /\ Head(q) = "answer" /\ (Reserving(q) <=> Reserving(todo[t]))
    BY <1>2 DEF PlanOk
  <2> HIDE DEF q
  <2>4. \A u \in Threads \ {t} : Waits(todo[u]) /\ Rests(u)
    BY <1>1, <1>2, <2>1, <2>2 DEF Rests
  <2>5. \A u \in Threads \ {t} : Between(u) /\ Between(u)'
    BY <2>4, OthersQuiet DEF ApiInv
  <2>6. requests = << >> /\ replies = << >>
    <3>1. ~Asked(todo[t])
      BY <1>2 DEF Asked
    <3> QED BY <2>5, <3>1 DEF ApiInv, SocketOk, Between
  <2>7. requests' = <<RequestOf(t)>> /\ RequestOf(t)' = RequestOf(t)
    BY <2>1, <2>6, Sequences DEF RequestOf
  <2>8. SocketOk'
    <3>1. Asked(todo'[t]) /\ \A u \in Threads \ {t} : ~Asked(todo'[u])
      BY <2>2, <2>3, <2>5 DEF Asked, Between
    <3> QED BY <1>1, <2>6, <2>7, <3>1 DEF SocketOk
  <2>9. ThreadOk(t)'
    <3>1. ~Waits(todo'[t])
      BY <2>2, <2>3 DEF Waits
    <3>2. InCall(call'[t], todo'[t], returned'[t], told'[t])
      BY <1>1, <1>2, <2>1, <2>2, <2>3 DEF InCall, ToldOk
    <3>3. ThreadOk(t)
      BY DEF ApiInv, ThreadsOk
    <3> QED BY <1>1, <1>2, <2>1, <2>2, <2>3, <3>1, <3>2, <3>3 DEF ThreadOk
  <2>10. ~Granted(t) /\ ~Released(t) /\ ~Granted(t)' /\ ~Released(t)'
    BY <1>1, <1>2, <2>2, <2>3, <2>6 DEF Granted, Released, Answered, Asked
  <2>11. MapsOk'
    BY <1>1, <2>1, <2>4, <2>10, MapsKeep DEF Live
  <2>12. ApiTypes' /\ ThreadsOk'
    <3>1. ThreadsOk'
      BY <1>2, <2>1, <2>4, <2>9, ThreadsKeep
    <3>2. ApiTypes'
      BY <1>1, <2>1 DEF ApiInv, ApiTypes
    <3> QED BY <3>1, <3>2
  <2> QED BY <2>8, <2>11, <2>12 DEF ApiInv
<1> QED BY <1>3, <1>4 DEF Send

\* A size that an int holds comes back as it is.
LEMMA NarrowKeeps == ASSUME NEW n \in Nat, n < 2^(IntBits - 1) PROVE narrow(n) = n
<1>1. n % 2^IntBits = n
  BY SMTT(30), PowersAssumption
<1> QED BY <1>1 DEF narrow

\* What a function makes of the last answer to it.
LEMMA AnswerReflected ==
    ASSUME NEW op \in Ops, NEW a \in Answers, a.error # "0" \/ op \notin {"alloc", "map", "unmap"}
    PROVE  Reflects([op |-> op, value |-> Value(op, a), errno |-> Errno(op, a)], a)
<1>0. a # None /\ a.size \in Nat
  BY NoneAssumption DEF Answers
<1>1. CASE a.error # "0"
  <2>1. Errno(op, a) = a.error
    BY <1>1 DEF Errno
  <2>2. op # "persist" => Value(op, a) = Failure(op)
    BY <1>1 DEF Value
  <2> QED BY <1>0, <1>1, <2>1, <2>2 DEF Reflects
<1>2. CASE a.error = "0" /\ op # "get_size"
  <2>1. Value(op, a) = 0 /\ Errno(op, a) = "0"
    BY <1>2 DEF Value, Errno
  <2> QED BY <1>0, <1>2, <2>1 DEF Reflects
<1>3. CASE a.error = "0" /\ op = "get_size"
  <2>1. Value(op, a) = narrow(a.size)
    BY <1>3 DEF Value
  <2>2. a.size < 2^(IntBits - 1) => Value(op, a) = a.size
    BY <1>0, <2>1, NarrowKeeps
  <2> QED BY <1>0, <1>3, <2>2 DEF Reflects
<1> QED BY <1>1, <1>2, <1>3

\* call_manager reads the answer to its own request.
LEMMA ReceiveKeeps == ASSUME ApiInv, NEW t \in Threads, Receive(t) PROVE ApiInv'
<1>1. At(t, "answer") /\ UNCHANGED <<manager, mappings, requests, told, forgotten>>
  BY DEF Receive
<1>2. /\ mutex = t /\ running /\ todo[t] # << >> /\ Head(todo[t]) = "answer"
      /\ call[t] # None /\ call[t].op \in Ops /\ todo[t] \in Plans(call[t].op)
      /\ InCall(call[t], todo[t], returned[t], told[t]) /\ PlanOk(call[t].op, todo[t])
      /\ \A u \in Threads \ {t} : Waits(todo[u])
  BY <1>1, Holder
<1>3. CASE replies = << >> /\ ~manager /\ Fatal /\ UNCHANGED replies
  BY <1>1, <1>3, FatalKeeps DEF remote
<1>4. CASE replies # << >>
  <2>1. Asked(todo[t]) /\ ThreadOk(t)
    BY <1>2 DEF Asked, ApiInv, ThreadsOk
  <2>2. requests = << >> /\ told[t] # None /\ replies = <<told[t]>> /\ told[t] \in Answers
    BY <1>4, <2>1 DEF ApiInv, SocketOk, ThreadOk
  <2>3. Head(replies) = told[t] /\ Tail(replies) = << >>
    BY <2>2, Sequences
  <2>4. requests' = << >> /\ replies' = << >> /\ UNCHANGED <<socket, attached, running>>
    BY <1>1, <1>4, <2>2, <2>3 DEF Receive
  <2>5. CASE told[t].error # "0" \/ Len(todo[t]) = 1
    <3>1. /\ Return(t, Value(call[t].op, told[t]), Errno(call[t].op, told[t]))
          /\ reserved' = [reserved EXCEPT ![t] = None]
      BY <1>4, <2>3, <2>5 DEF Receive, GiveBack
    <3>2. told[t].error = "0" => call[t].op \notin {"alloc", "map", "unmap"} /\ ~Reserving(todo[t])
      BY <1>2, <2>5 DEF PlanOk
    <3>3. Reflects([op |-> call[t].op, value |-> Value(call[t].op, told[t]),
                    errno |-> Errno(call[t].op, told[t])], told[t])
      BY <1>2, <2>2, <3>2, AnswerReflected
    <3>4. reserved'[t] = None /\ \A u \in Threads \ {t} : reserved'[u] = reserved[u]
      BY <3>1 DEF ApiInv, ApiTypes
    <3>5. ThreadOk(t)' /\ Between(t)' /\ \A u \in Threads \ {t} :
              call'[u] = call[u] /\ todo'[u] = todo[u] /\ returned'[u] = returned[u]
      BY <1>1, <1>2, <3>1, <3>3, <3>4, Returns
    <3>6. \A u \in Threads \ {t} : Waits(todo[u]) /\ Rests(u)
      BY <1>1, <1>2, <3>4, <3>5 DEF Rests
    <3>7. ~Granted(t) /\ ~Released(t)
      BY <1>2, <3>2 DEF Granted, Released, Answered
    <3>8. MapsOk'
      BY <1>1, <2>4, <3>5, <3>6, <3>7, MapsKeep DEF Between, Live
    <3>9. SocketOk'
      <4>1. \A u \in Threads : ~Asked(todo'[u])
        BY <3>5, <3>6, OthersQuiet DEF ApiInv, Between
      <4> QED BY <2>4, <4>1 DEF SocketOk
    <3>10. ThreadsOk'
      <4>1. mutex' = None
        BY <3>1 DEF Return
      <4> QED BY <1>2, <3>5, <3>6, <4>1, ThreadsKeep
    <3>11. ApiTypes'
      BY <1>1, <3>1 DEF ApiInv, ApiTypes, Return
    <3> QED BY <3>8, <3>9, <3>10, <3>11 DEF ApiInv
  <2>6. CASE told[t].error = "0" /\ Len(todo[t]) # 1
    <3>1. Done(t) /\ UNCHANGED <<mutex, call, returned, reserved>>
      BY <1>4, <2>3, <2>6 DEF Receive
    <3>2. todo'[t] = Tail(todo[t]) /\ \A u \in Threads \ {t} : todo'[u] = todo[u]
      BY <3>1 DEF Done, ApiInv, ApiTypes
    <3>3. /\ Tail(todo[t]) \in Plans(call[t].op) /\ Tail(todo[t]) # << >>
          /\ Head(Tail(todo[t])) \in {"reserve", "attach", "detach"}
          /\ Reserving(Tail(todo[t])) <=> Reserving(todo[t])
          /\ Head(Tail(todo[t])) = "attach" <=> Reserving(todo[t])
          /\ Head(Tail(todo[t])) = "detach" <=> call[t].op = "unmap"
          /\ Head(Tail(todo[t])) = "reserve" => call[t].op = "map"
      BY <1>2, <2>6 DEF PlanOk
    <3>4. \A u \in Threads \ {t} : Waits(todo[u]) /\ Rests(u)
      BY <1>1, <1>2, <3>1, <3>2 DEF Rests
    <3>5. ThreadOk(t)'
      <4>1. ~Waits(todo'[t])
        BY <3>2, <3>3 DEF Waits
      <4>2. InCall(call'[t], todo'[t], returned'[t], told'[t])
        BY <1>1, <1>2, <2>2, <2>6, <3>1, <3>2, <3>3 DEF InCall, ToldOk
      <4> QED BY <1>1, <1>2, <2>1, <3>1, <3>2, <3>3, <4>1, <4>2 DEF ThreadOk
    <3>6. Answered(t)
      BY <1>4, <2>1, <2>6 DEF Answered
    <3>7. (Granted(t)' <=> Granted(t)) /\ (Released(t)' <=> Released(t))
      <4>1. Granted(t) <=> Reserving(todo[t])
        BY <3>6 DEF Granted
      <4>2. Released(t) <=> call[t].op = "unmap"
        BY <1>2, <3>6 DEF Released, Waits
      <4>3. Granted(t)' <=> Reserving(todo[t])
        BY <3>2, <3>3 DEF Granted
      <4>4. Released(t)' <=> call[t].op = "unmap"
        BY <3>1, <3>2, <3>3 DEF Released, Waits, Answered, Asked
      <4> QED BY <4>1, <4>2, <4>3, <4>4
    <3>8. MapsOk'
      BY <1>1, <2>4, <3>1, <3>4, <3>7, MapsKeep DEF Live
    <3>9. SocketOk'
      <4>1. \A u \in Threads : ~Asked(todo'[u])
        BY <3>2, <3>3, <3>4, OthersQuiet DEF ApiInv, Between, Asked
      <4> QED BY <2>4, <4>1 DEF SocketOk
    <3>10. ThreadsOk'
      BY <1>2, <3>1, <3>4, <3>5, ThreadsKeep
    <3>11. ApiTypes'
      BY <1>1, <3>1 DEF ApiInv, ApiTypes, Done
    <3> QED BY <3>8, <3>9, <3>10, <3>11 DEF ApiInv
  <2> QED BY <2>5, <2>6
<1> QED BY <1>3, <1>4 DEF Receive

\* The window that the manager granted is attached.
LEMMA AttachKeeps == ASSUME ApiInv, NEW t \in Threads, attach_seg(t) PROVE ApiInv'
<1>1. /\ At(t, "attach") /\ attached' = attached \cup {reserved[t]}
      /\ reserved' = [reserved EXCEPT ![t] = None] /\ Return(t, 0, "unset")
      /\ UNCHANGED <<socket, running, remote>>
  BY DEF attach_seg
<1>2. /\ mutex = t /\ todo[t] # << >> /\ Head(todo[t]) = "attach" /\ call[t].op \in Ops
      /\ InCall(call[t], todo[t], returned[t], told[t]) /\ PlanOk(call[t].op, todo[t])
      /\ \A u \in Threads \ {t} : Waits(todo[u])
  BY <1>1, Holder
<1>3. Reserving(todo[t]) /\ call[t].op \in {"alloc", "map"} /\ told[t] # None /\ told[t].error = "0"
  BY <1>2 DEF PlanOk, InCall, ToldOk
<1>4. Reflects([op |-> call[t].op, value |-> 0, errno |-> "unset"], told[t])
  BY <1>3 DEF Reflects
<1>5. reserved'[t] = None /\ \A u \in Threads \ {t} : reserved'[u] = reserved[u]
  BY <1>1 DEF ApiInv, ApiTypes
<1>6. ThreadOk(t)' /\ Between(t)' /\ \A u \in Threads \ {t} :
          call'[u] = call[u] /\ todo'[u] = todo[u] /\ returned'[u] = returned[u]
  BY <1>1, <1>2, <1>4, <1>5, Returns DEF remote
<1>7. \A u \in Threads \ {t} : Waits(todo[u]) /\ Rests(u)
  BY <1>1, <1>2, <1>5, <1>6 DEF Rests, remote
<1>8. (\A u \in Threads \ {t} : Between(u)) /\ \A u \in Threads : Between(u)'
  BY <1>6, <1>7, OthersQuiet DEF ApiInv
<1>9. MapsOk'
  <2>1. Granted(t) /\ ~Released(t)
    BY <1>2, <1>3 DEF Granted, Released
  <2>2. \A u \in Threads : ~Released(u) /\ (Granted(u) => u = t)
    BY <1>8, <2>1 DEF Between
  <2>3. MapsOk
    BY DEF ApiInv
  <2> QED BY <1>1, <1>8, <2>1, <2>2, <2>3 DEF MapsOk, Live, Between, remote
<1>10. SocketOk'
  <2>1. ~Asked(todo[t])
    BY <1>2 DEF Asked
  <2> QED BY <1>1, <1>8, <2>1 DEF ApiInv, SocketOk, Between, remote
<1>11. ThreadsOk'
  <2>1. mutex' = None
    BY <1>1 DEF Return
  <2> QED BY <1>2, <1>6, <1>7, <2>1, ThreadsKeep
<1>12. ApiTypes'
  BY <1>1 DEF ApiInv, ApiTypes, Return, remote
<1> QED BY <1>9, <1>10, <1>11, <1>12 DEF ApiInv

\* The window that the manager gave up is detached.
LEMMA DetachKeeps == ASSUME ApiInv, NEW t \in Threads, Detach(t) PROVE ApiInv'
<1>1. /\ At(t, "detach") /\ attached' = attached \ {call[t].window} /\ Return(t, 0, "0")
      /\ UNCHANGED <<socket, reserved, running, remote>>
  BY DEF Detach
<1>2. /\ mutex = t /\ todo[t] # << >> /\ Head(todo[t]) = "detach" /\ call[t].op \in Ops
      /\ InCall(call[t], todo[t], returned[t], told[t]) /\ PlanOk(call[t].op, todo[t])
      /\ \A u \in Threads \ {t} : Waits(todo[u])
  BY <1>1, Holder
<1>3. ~Reserving(todo[t]) /\ call[t].op = "unmap" /\ told[t] # None /\ told[t].error = "0"
  BY <1>2 DEF PlanOk, InCall, ToldOk
<1>4. Reflects([op |-> call[t].op, value |-> 0, errno |-> "0"], told[t])
  BY <1>3 DEF Reflects
<1>5. reserved'[t] = None
  BY <1>1, <1>3 DEF ApiInv, ThreadsOk, ThreadOk
<1>6. ThreadOk(t)' /\ Between(t)' /\ \A u \in Threads \ {t} :
          call'[u] = call[u] /\ todo'[u] = todo[u] /\ returned'[u] = returned[u]
  BY <1>1, <1>2, <1>4, <1>5, Returns DEF remote
<1>7. \A u \in Threads \ {t} : Waits(todo[u]) /\ Rests(u)
  BY <1>1, <1>2, <1>6 DEF Rests, remote
<1>8. (\A u \in Threads \ {t} : Between(u)) /\ \A u \in Threads : Between(u)'
  BY <1>6, <1>7, OthersQuiet DEF ApiInv
<1>9. MapsOk'
  <2>1. Released(t) /\ ~Granted(t)
    BY <1>2, <1>3 DEF Granted, Released, Waits
  <2>2. \A u \in Threads : ~Granted(u) /\ (Released(u) => u = t)
    BY <1>8, <2>1 DEF Between
  <2>3. MapsOk
    BY DEF ApiInv
  <2> QED BY <1>1, <1>8, <2>1, <2>2, <2>3 DEF MapsOk, Live, Between, remote
<1>10. SocketOk'
  <2>1. ~Asked(todo[t])
    BY <1>2 DEF Asked
  <2> QED BY <1>1, <1>8, <2>1 DEF ApiInv, SocketOk, Between, remote
<1>11. ThreadsOk'
  <2>1. mutex' = None
    BY <1>1 DEF Return
  <2> QED BY <1>2, <1>6, <1>7, <2>1, ThreadsKeep
<1>12. ApiTypes'
  BY <1>1 DEF ApiInv, ApiTypes, Return, remote
<1> QED BY <1>9, <1>10, <1>11, <1>12 DEF ApiInv

\* A call starts outside the critical section, whoever is in it.
LEMMA StartKeeps ==
    ASSUME ApiInv, NEW t \in Threads, NEW op \in Ops, NEW w \in Windows \cup {None}, Start(t, op, w)
    PROVE  ApiInv'
<1> DEFINE c == [op |-> op, window |-> w]
<1>1. /\ call[t] = None /\ (op \notin {"unmap", "persist"} => w = None)
      /\ call' = [call EXCEPT ![t] = c] /\ todo' = [todo EXCEPT ![t] = <<"lock">> \o Steps(op)]
      /\ told' = [told EXCEPT ![t] = None] /\ returned' = [returned EXCEPT ![t] = None]
      /\ UNCHANGED <<socket, mutex, reserved, attached, running>>
      /\ UNCHANGED <<manager, mappings, requests, replies, forgotten>>
  BY DEF Start
<1>2. /\ call'[t] = c /\ todo'[t] = <<"lock">> \o Steps(op) /\ told'[t] = None /\ returned'[t] = None
      /\ \A u \in Threads \ {t} : Rests(u)
  BY <1>1 DEF ApiInv, ApiTypes, Rests
<1>3. c \in Calls /\ c # None /\ c.op = op /\ c.window = w
  <2>1. c \in Calls
    BY DEF Calls
  <2> QED BY <2>1, NoneAssumption
<1> HIDE DEF c
<1>4. ThreadOk(t) /\ todo[t] = << >>
  BY <1>1 DEF ApiInv, ThreadsOk, ThreadOk, InCall
<1>5. Waits(todo[t]) /\ Waits(todo'[t]) /\ Head(todo'[t]) = "lock" /\ todo'[t] \in Plans(op)
  BY <1>2, <1>4, StartFacts DEF Waits
<1>6. ~Reserving(todo'[t]) /\ ~Asked(todo'[t])
  <2>1. PlanOk(op, todo'[t])
    BY <1>5, PlanFacts
  <2> QED BY <1>5, <2>1 DEF PlanOk, Asked
<1>7. reserved[t] = None /\ Between(t)
  BY <1>5, WaitsMeans DEF ApiInv, Between
<1>8. ThreadOk(t)'
  <2>1. InCall(call'[t], todo'[t], returned'[t], told'[t])
    BY <1>1, <1>2, <1>3, <1>5 DEF InCall, ToldOk
  <2> QED BY <1>1, <1>2, <1>3, <1>4, <1>5, <1>6, <1>7, <2>1 DEF ThreadOk
<1>9. ThreadsOk'
  <2>1. ASSUME NEW u \in Threads \ {t} PROVE ThreadOk(u)'
    BY <1>1, <1>2, RestKeeps DEF ApiInv
  <2> QED BY <1>8, <2>1 DEF ThreadsOk
<1>10. Between(t)'
  BY <1>5, <1>6 DEF Between, Granted, Released
<1>11. ASSUME NEW u \in Threads \ {t}
       PROVE  /\ Asked(todo'[u]) <=> Asked(todo[u])
              /\ Granted(u)' <=> Granted(u)
              /\ Released(u)' <=> Released(u)
              /\ RequestOf(u)' = RequestOf(u) /\ told'[u] = told[u]
              /\ reserved'[u] = reserved[u] /\ call'[u] = call[u]
  <2>1. /\ call'[u] = call[u] /\ todo'[u] = todo[u] /\ reserved'[u] = reserved[u]
        /\ told'[u] = told[u] /\ replies' = replies
    BY <1>1, <1>2 DEF Rests
  <2>2. Asked(todo'[u]) <=> Asked(todo[u])
    BY <2>1
  <2>3. Answered(u)' <=> Answered(u)
    BY <2>1 DEF Answered
  <2> QED BY <2>1, <2>2, <2>3 DEF Granted, Released, RequestOf
<1>12. SocketOk'
  <2>1. SocketOk /\ UNCHANGED <<requests, replies, manager>>
    BY <1>1 DEF ApiInv
  <2>2. \A u \in Threads : Asked(todo'[u]) <=> Asked(todo[u])
    BY <1>7, <1>10, <1>11 DEF Between
  <2>3. \A u \in Threads : Asked(todo'[u]) => told'[u] = told[u] /\ RequestOf(u)' = RequestOf(u)
    BY <1>10, <1>11 DEF Between
  <2> QED BY <2>1, <2>2, <2>3 DEF SocketOk
<1>13. MapsOk'
  <2>1. MapsOk /\ (Live' <=> Live) /\ UNCHANGED <<attached, mappings, forgotten>>
    BY <1>1 DEF ApiInv, Live
  <2>2. \A u \in Threads : (Granted(u)' <=> Granted(u)) /\ (Released(u)' <=> Released(u))
    BY <1>7, <1>10, <1>11 DEF Between
  <2>3. \A u \in Threads : Granted(u) => reserved'[u] = reserved[u]
    BY <1>7, <1>11 DEF Between
  <2>4. \A u \in Threads : Released(u) => call'[u] = call[u]
    BY <1>7, <1>11 DEF Between
  <2> QED BY <2>1, <2>2, <2>3, <2>4 DEF MapsOk
<1>14. ApiTypes'
  BY <1>1 DEF ApiInv, ApiTypes
<1> QED BY <1>9, <1>12, <1>13, <1>14 DEF ApiInv

(***************************************************************************)
(* The manager's steps.                                                    *)
(***************************************************************************)

\* The answer goes to the thread that asked.
LEMMA AnswerKeeps ==
    ASSUME ApiInv, NEW e \in {"0", "EIO", "ENOENT"}, NEW n \in Sizes, handle_call(e, n)
    PROVE  ApiInv'
<1>1. requests # << >> /\ UNCHANGED <<library, manager>>
  BY DEF handle_call
<1>2. PICK t \in Threads : Asked(todo[t])
  BY <1>1 DEF ApiInv, SocketOk
<1>3. requests = <<RequestOf(t)>> /\ replies = << >>
  BY <1>1, <1>2 DEF ApiInv, SocketOk
<1> DEFINE a == [error |-> e, size |-> IF RequestOf(t).op = "get_size" THEN n ELSE 0]
           w == RequestOf(t).window
<1>4. Head(requests) = RequestOf(t) /\ Tail(requests) = << >> /\ Append(replies, a) = <<a>>
  BY <1>3, Sequences
<1>5. RequestOf(t).thread = t /\ RequestOf(t).op = call[t].op
  BY DEF RequestOf
<1>6. /\ requests' = << >> /\ replies' = <<a>> /\ told' = [told EXCEPT ![t] = a]
      /\ mappings' = CASE call[t].op \in {"alloc", "map"} /\ w # None /\ e = "0" -> mappings \cup {w}
                       [] call[t].op = "unmap" -> mappings \ {w}
                       [] OTHER -> mappings
      /\ forgotten' = IF call[t].op = "unmap" /\ e # "0" THEN forgotten \cup {w} ELSE forgotten
  BY <1>4, <1>5 DEF handle_call
<1>7. a \in Answers /\ a # None /\ a.error = e
  <2>1. n \in Nat /\ 0 \in Nat
    BY SMTT(30), WidthsAssumption
  <2>2. a \in Answers
    BY <2>1 DEF Answers
  <2> QED BY <2>2, NoneAssumption
<1>w. w = IF reserved[t] # None THEN reserved[t] ELSE call[t].window
  BY DEF RequestOf
<1> HIDE DEF a, w
<1>8. ThreadOk(t) /\ ThreadsOk /\ todo[t] # << >> /\ Head(todo[t]) = "answer"
  BY <1>2 DEF ApiInv, ThreadsOk, Asked
<1>9. /\ mutex = t /\ call[t] # None /\ InCall(call[t], todo[t], returned[t], told[t])
      /\ \A u \in Threads \ {t} : Waits(todo[u])
  BY <1>8 DEF ThreadsOk, ThreadOk, Waits
<1>10. told'[t] = a /\ \A u \in Threads \ {t} : Waits(todo[u]) /\ Rests(u)
  BY <1>1, <1>6, <1>9 DEF ApiInv, ApiTypes, Rests, library
<1>11. ThreadOk(t)'
  <2>1. InCall(call'[t], todo'[t], returned'[t], told'[t])
    BY <1>1, <1>8, <1>9 DEF InCall, ToldOk, library
  <2> QED BY <1>1, <1>7, <1>8, <1>9, <1>10, <2>1 DEF ThreadOk, library
<1>12. ThreadsOk'
  BY <1>1, <1>9, <1>10, <1>11, ThreadsKeep DEF library
<1>13. \A u \in Threads \ {t} : Between(u) /\ Between(u)'
  BY <1>8, <1>10, OthersQuiet
<1>14. SocketOk'
  <2>1. Asked(todo'[t]) /\ \A u \in Threads \ {t} : ~Asked(todo'[u])
    BY <1>1, <1>2, <1>13 DEF Between, library
  <2> QED BY <1>6, <1>7, <1>10, <2>1 DEF SocketOk
<1>15. MapsOk'
  <2>1. call[t].op \in Ops /\ PlanOk(call[t].op, todo[t]) /\ (call[t].op \notin {"unmap", "persist"} => call[t].window = None)
    BY <1>9, PlanFacts DEF InCall, Calls
  <2>2. ~Granted(t) /\ ~Released(t)
    BY <1>3, <1>8 DEF Granted, Released, Answered
  <2>3. \A u \in Threads : ~Granted(u) /\ ~Released(u)
    BY <1>13, <2>2 DEF Between
  <2>4. Answered(t)' <=> e = "0"
    BY <1>1, <1>2, <1>6, <1>7, <1>10, Sequences DEF Answered, library
  <2>5. Granted(t)' <=> Reserving(todo[t]) /\ e = "0"
    BY <1>1, <1>8, <2>4 DEF Granted, library
  <2>6. Released(t)' <=> call[t].op = "unmap" /\ e = "0"
    BY <1>1, <1>8, <2>4 DEF Released, Waits, library
  <2>7. Reserving(todo[t]) <=> reserved[t] # None
    BY <1>8 DEF ThreadOk
  <2>8. UNCHANGED <<call, reserved, attached>> /\ (Live' <=> Live)
    BY <1>1 DEF library, Live
  <2>9. MapsOk
    BY DEF ApiInv
  <2>10. \A u \in Threads \ {t} : ~Granted(u)' /\ ~Released(u)'
    BY <1>13 DEF Between
  <2>11. CASE call[t].op \in {"alloc", "map"} /\ w # None /\ e = "0"
    <3>1. w = reserved[t] /\ Granted(t)' /\ ~Released(t)' /\ mappings' = mappings \cup {w} /\ forgotten' = forgotten
      BY <1>6, <1>w, <2>1, <2>5, <2>6, <2>7, <2>11
    <3> QED BY <2>3, <2>8, <2>9, <2>10, <3>1 DEF MapsOk
  <2>12. CASE call[t].op = "unmap"
    <3>1. ~Reserving(todo[t]) /\ w = call[t].window
      BY <1>w, <2>1, <2>7, <2>12 DEF PlanOk
    <3>2. /\ ~Granted(t)' /\ mappings' = mappings \ {w}
          /\ forgotten' = IF e # "0" THEN forgotten \cup {w} ELSE forgotten
      BY <1>6, <2>5, <2>12, <3>1
    <3> QED BY <2>3, <2>6, <2>8, <2>9, <2>10, <2>12, <3>1, <3>2 DEF MapsOk
  <2>13. CASE call[t].op # "unmap" /\ ~(call[t].op \in {"alloc", "map"} /\ w # None /\ e = "0")
    <3>1. mappings' = mappings /\ forgotten' = forgotten
      BY <1>6, <2>13
    <3>2. ~Granted(t)' /\ ~Released(t)'
      BY <1>w, <2>1, <2>5, <2>6, <2>7, <2>13 DEF PlanOk
    <3> QED BY <2>3, <2>8, <2>9, <2>10, <3>1, <3>2 DEF MapsOk
  <2> QED BY <2>11, <2>12, <2>13
<1>16. ApiTypes'
  BY <1>1, <1>6 DEF ApiInv, ApiTypes, library
<1> QED BY <1>12, <1>14, <1>15, <1>16 DEF ApiInv

\* The end of the manager takes unread requests with it; a closed socket ends the mappings.
LEMMA EndsKeep == ASSUME ApiInv, ManagerEnds \/ CleanUp PROVE ApiInv'
<1>1. CASE ManagerEnds
  <2>1. /\ manager' = FALSE /\ requests' = << >>
        /\ UNCHANGED <<library, mappings, replies, told, forgotten>>
    BY <1>1 DEF ManagerEnds
  <2>2. ThreadsOk' /\ ApiTypes' /\ MapsOk'
    BY <2>1 DEF ApiInv, ApiTypes, ThreadsOk, ThreadOk, MapsOk, Live, library
  <2>3. SocketOk'
    BY <2>1 DEF ApiInv, SocketOk, library
  <2> QED BY <2>2, <2>3 DEF ApiInv
<1>2. CASE CleanUp
  <2>1. /\ socket = "closed" \/ ~running
        /\ UNCHANGED <<library, manager, requests, replies, told, forgotten>>
    BY <1>2 DEF CleanUp
  <2>2. ThreadsOk' /\ ApiTypes' /\ MapsOk'
    BY <2>1 DEF ApiInv, ApiTypes, ThreadsOk, ThreadOk, MapsOk, Live, library
  <2>3. SocketOk'
    BY <2>1 DEF ApiInv, SocketOk, RequestOf, library
  <2> QED BY <2>2, <2>3 DEF ApiInv
<1> QED BY <1>1, <1>2

(***************************************************************************)
(* The theorems.                                                           *)
(***************************************************************************)

\* The library starts without calls.
LEMMA InitApi == Init => ApiInv
<1> SUFFICES ASSUME Init PROVE ApiInv
  OBVIOUS
<1>1. ApiTypes
  BY DEF Init, ApiTypes
<1>2. ASSUME NEW t \in Threads PROVE ThreadOk(t) /\ Waits(todo[t]) /\ ~Asked(todo[t]) /\ ~Reserving(todo[t])
  BY NoneAssumption DEF Init, ThreadOk, Waits, Asked, Reserving, Reflects
<1>3. SocketOk
  BY <1>2 DEF Init, SocketOk
<1>4. MapsOk
  BY <1>2 DEF Init, MapsOk, Granted, Released
<1> QED BY <1>1, <1>2, <1>3, <1>4 DEF ApiInv, ThreadsOk

\* Every step of library and manager keeps the invariant.
LEMMA NextApi == ApiInv /\ [Next]_vars => ApiInv'
<1> SUFFICES ASSUME ApiInv, [Next]_vars PROVE ApiInv'
  OBVIOUS
<1>1. ASSUME NEW t \in Threads, ThreadStep(t) PROVE ApiInv'
  BY <1>1, LockKeeps, InitOrCloseKeeps, CheckKeeps, ReserveKeeps, SendKeeps, ReceiveKeeps,
     AttachKeeps, DetachKeeps DEF ThreadStep
<1>2. CASE UNCHANGED vars
  BY <1>2 DEF ApiInv, ApiTypes, ThreadsOk, ThreadOk, SocketOk, RequestOf, MapsOk, Granted,
     Released, Answered, Live, vars, library, remote
<1> QED BY <1>1, <1>2, StartKeeps, AnswerKeeps, EndsKeep DEF Next

\* The invariant holds in every state of library and manager.
THEOREM ApiHolds == Spec => []ApiInv
BY InitApi, NextApi, PTL DEF Spec

\* For any number of threads, every function returns what the manager answered
\* to its own last request.
THEOREM ResultsReflected == Spec => []ResultsReflectAnswers
<1>1. ApiInv => ResultsReflectAnswers
  <2> SUFFICES ASSUME ApiInv, NEW t \in Threads PROVE Reflects(returned[t], told[t])
    BY DEF ResultsReflectAnswers, Reflects
  <2>1. ThreadOk(t)
    BY DEF ApiInv, ThreadsOk
  <2> QED BY <2>1 DEF ThreadOk, InCall, Reflects
<1> QED BY <1>1, ApiHolds, PTL

\* Between calls library and manager agree on what is mapped, for any windows.
THEOREM WindowsMatch == Spec => []WindowsAgree
<1>1. ApiInv => WindowsAgree
  <2> SUFFICES ASSUME ApiInv, running,
                      \A t \in Threads : todo[t] = << >> \/ Head(todo[t]) = "lock"
               PROVE  /\ \A t \in Threads : reserved[t] = None
                      /\ socket = "open" /\ manager =>
                            mappings \subseteq attached /\ attached \ mappings \subseteq forgotten
    BY DEF WindowsAgree
  <2>1. \A t \in Threads : reserved[t] = None /\ ~Granted(t) /\ ~Released(t)
    BY WaitsMeans DEF ApiInv, Waits
  <2> QED BY <2>1 DEF ApiInv, MapsOk, Live
<1> QED BY <1>1, ApiHolds, PTL


(***************************************************************************)
(* The threads of the manager.                                             *)
(***************************************************************************)

\* Who is past a join knows that the thread has ended; who holds the mutex is in
\* the middle of a call; and only a running thread has mappings to give back.
ThreadInv ==
    /\ thread \in [Clients -> {"none", "poll", "lock", "call", "answer", "cleanup", "ended"}]
    /\ main \in {"join_userfault", "clear", "close", "exited"} => acceptor = "ended"
    /\ main \in {"clear", "close", "exited"} => userfaults = "ended"
    /\ main \in {"close", "exited"} => \A c \in Clients : thread[c] = "none"
    /\ m_mutex # NoClient => m_mutex \in Clients /\ thread[m_mutex] = "call"
    /\ \A c \in mapped : c \in Clients /\ thread[c] \notin {"none", "ended"}

\* At the start there are no clients.
LEMMA InitThreads == M!Init => ThreadInv
BY DEF M!Init, ThreadInv

\* Steps of main and of the destructor.
LEMMA MainThreads == ASSUME ThreadInv, M!MainNext PROVE ThreadInv'
<1>1. CASE M!MainWoken
  BY <1>1 DEF ThreadInv, M!MainWoken
<1>2. CASE M!DestroyStarts
  BY <1>2 DEF ThreadInv, M!DestroyStarts
<1>3. CASE M!Join
  BY <1>3 DEF ThreadInv, M!Join, M!Joined
<1>4. CASE M!ClearClients
  BY <1>4 DEF ThreadInv, M!ClearClients
<1>5. CASE M!CloseFds
  BY <1>5 DEF ThreadInv, M!CloseFds
<1> QED BY <1>1, <1>2, <1>3, <1>4, <1>5 DEF M!MainNext

\* Steps of the accept thread: it adds a client only while it runs, and only over
\* a thread that has given its mappings back.
LEMMA AcceptThreads == ASSUME ThreadInv, M!AcceptNext PROVE ThreadInv'
<1>1. CASE M!AcceptStops
  BY <1>1 DEF ThreadInv, M!AcceptStops
<1>2. CASE M!Accept
  BY <1>2 DEF ThreadInv, M!Accept
<1>3. CASE M!ReadPid
  BY <1>3 DEF ThreadInv, M!ReadPid
<1>4. CASE M!AddClient
  BY <1>4 DEF ThreadInv, M!AddClient, M!MayReplace
<1> QED BY <1>1, <1>2, <1>3, <1>4 DEF M!AcceptNext

\* Steps of the userfault thread and failing polls.
LEMMA UserfaultThreads ==
    ASSUME ThreadInv, M!UserfaultStops \/ M!UserfaultReady \/ M!HandleUserfault \/ M!PollFails
    PROVE  ThreadInv'
<1>1. CASE M!UserfaultStops
  BY <1>1 DEF ThreadInv, M!UserfaultStops
<1>2. CASE M!UserfaultReady
  BY <1>2 DEF ThreadInv, M!UserfaultReady
<1>3. CASE M!HandleUserfault
  BY <1>3 DEF ThreadInv, M!HandleUserfault
<1>4. CASE M!PollFails
  BY <1>4 DEF ThreadInv, M!PollFails, M!Step
<1> QED BY <1>1, <1>2, <1>3, <1>4

\* Steps of a client's thread.
LEMMA ClientThreads ==
    ASSUME ThreadInv, NEW c \in Clients, M!ThreadNext(c) \/ M!LockClient(c) \/ M!CleanUp(c)
    PROVE  ThreadInv'
<1>1. CASE M!PollClient(c)
  BY <1>1 DEF ThreadInv, M!PollClient, M!Step
<1>2. CASE M!LockClient(c)
  BY <1>2 DEF ThreadInv, M!LockClient, M!Step
<1>3. CASE M!HandleCall(c)
  BY <1>3 DEF ThreadInv, M!HandleCall, M!Step
<1>4. CASE M!Answer(c)
  BY <1>4 DEF ThreadInv, M!Answer, M!Step
<1>5. CASE M!AnswerFails(c)
  BY <1>5 DEF ThreadInv, M!AnswerFails, M!Step
<1>6. CASE M!CleanUp(c)
  BY <1>6 DEF ThreadInv, M!CleanUp, M!Step
<1> QED BY <1>1, <1>2, <1>3, <1>4, <1>5, <1>6 DEF M!ThreadNext

\* Every step of the manager, its clients and the kernel.
LEMMA NextThreads == ThreadInv /\ [M!Next]_M!vars => ThreadInv'
<1> SUFFICES ASSUME ThreadInv, [M!Next]_M!vars PROVE ThreadInv'
  OBVIOUS
<1>1. ASSUME M!Signal \/ \E c \in Clients : M!ProcessNext(c) PROVE UNCHANGED M!manager
  BY <1>1 DEF M!Signal, M!ProcessNext, M!Connect, M!SendPid, M!Call, M!CallFails, M!Fault, M!Die, M!Reuse
<1>2. ASSUME UNCHANGED M!manager PROVE ThreadInv'
  BY <1>2 DEF ThreadInv, M!manager
<1>3. ASSUME UNCHANGED M!vars PROVE UNCHANGED M!manager
  BY <1>3 DEF M!vars
<1> QED
  BY <1>1, <1>2, <1>3, MainThreads, AcceptThreads, UserfaultThreads, ClientThreads DEF M!Next

\* The invariant holds in every state the manager reaches.
THEOREM ThreadsHold == M!Spec => []ThreadInv
BY InitThreads, NextThreads, PTL DEF M!Spec

\* When ~client_manager closes the file descriptors and main returns, all threads
\* have been joined, nobody holds m_mutex and no mapping is left.
THEOREM NothingIsLeft == M!Spec => []NothingOutlivesMain
<1>1. ThreadInv => NothingOutlivesMain
  BY DEF ThreadInv, NothingOutlivesMain, M!NothingOutlivesMain
<1> QED BY <1>1, ThreadsHold, PTL

(***************************************************************************)
(* Processes that come back under the pid of an earlier one.               *)
(***************************************************************************)

\* No thread serves c, or the socket it serves has been closed by the client.
Gone(c) == thread[c] \in {"none", "ended"} \/ c \in hup

\* A process that has ended or that is connecting is not the one its pid's thread
\* serves, and the accept thread adds a client only after reading its pid.
RejoinInv ==
    /\ conn \in [Clients -> {"none", "silent", "sent"}]
    /\ lib \in [Clients -> {"off", "joining", "idle", "calling", "faulting", "dead"}]
    /\ backlog \in Seq(Clients)
    /\ acceptor \in {"read_pid", "replace"} => taken \in Clients
    /\ acceptor = "replace" => conn[taken] = "sent"
    /\ \A c \in Clients : lib[c] \in {"off", "joining", "dead"} \/ conn[c] # "none" => Gone(c)
    /\ \A c \in Clients : lib[c] = "joining" => conn[c] # "sent"
    /\ \A c \in Clients : lib[c] = "off" => conn[c] = "none"

\* At the start nobody is connected.
LEMMA InitRejoin == M!Init => RejoinInv
BY SMTT(30) DEF M!Init, RejoinInv, Gone

\* Steps of main: closing the sockets happens after all threads have ended.
LEMMA MainRejoin == ASSUME ThreadInv, RejoinInv, M!MainNext PROVE RejoinInv'
<1>1. CASE M!MainWoken \/ M!DestroyStarts \/ M!Join
  BY <1>1 DEF RejoinInv, Gone, M!MainWoken, M!DestroyStarts, M!Join, M!kernel
<1>2. CASE M!ClearClients
  BY <1>2 DEF RejoinInv, Gone, M!ClearClients, M!kernel
<1>3. CASE M!CloseFds
  BY <1>3, SMTT(30) DEF ThreadInv, RejoinInv, Gone, M!CloseFds
<1> QED BY <1>1, <1>2, <1>3 DEF M!MainNext

\* Steps of the accept thread.
LEMMA AcceptRejoin == ASSUME ThreadInv, RejoinInv, M!AcceptNext PROVE RejoinInv'
<1>1. CASE M!AcceptStops
  BY <1>1 DEF RejoinInv, Gone, M!AcceptStops, M!kernel
<1>2. CASE M!Accept
  BY <1>2, SMTT(30) DEF RejoinInv, Gone, M!Accept
<1>3. CASE M!ReadPid
  BY <1>3 DEF RejoinInv, Gone, M!ReadPid
<1>4. CASE M!AddClient
  BY <1>4 DEF ThreadInv, RejoinInv, Gone, M!AddClient, M!MayReplace
<1> QED BY <1>1, <1>2, <1>3, <1>4 DEF M!AcceptNext

\* Steps of the userfault thread and failing polls.
LEMMA UserfaultRejoin ==
    ASSUME ThreadInv, RejoinInv, M!UserfaultStops \/ M!UserfaultReady \/ M!HandleUserfault \/ M!PollFails
    PROVE  RejoinInv'
<1>1. CASE M!UserfaultStops \/ M!UserfaultReady
  BY <1>1 DEF RejoinInv, Gone, M!UserfaultStops, M!UserfaultReady, M!kernel
<1>2. CASE M!HandleUserfault
  BY <1>2 DEF RejoinInv, Gone, M!HandleUserfault
<1>3. CASE M!PollFails
  BY <1>3 DEF ThreadInv, RejoinInv, Gone, M!PollFails, M!Step
<1> QED BY <1>1, <1>2, <1>3

\* Steps of a client's thread: it answers only while the process that called lives.
LEMMA ClientRejoin ==
    ASSUME ThreadInv, RejoinInv, NEW c \in Clients, M!ThreadNext(c) \/ M!LockClient(c) \/ M!CleanUp(c)
    PROVE  RejoinInv'
<1>1. CASE M!PollClient(c)
  BY <1>1 DEF ThreadInv, RejoinInv, Gone, M!PollClient, M!Step
<1>2. CASE M!LockClient(c)
  BY <1>2 DEF ThreadInv, RejoinInv, Gone, M!LockClient, M!Step, M!kernel
<1>3. CASE M!HandleCall(c)
  BY <1>3 DEF ThreadInv, RejoinInv, Gone, M!HandleCall, M!Step, M!kernel
<1>4. CASE M!Answer(c)
  BY <1>4 DEF ThreadInv, RejoinInv, Gone, M!Answer, M!Step, M!kernel
<1>5. CASE M!AnswerFails(c)
  BY <1>5 DEF ThreadInv, RejoinInv, Gone, M!AnswerFails, M!Step, M!kernel
<1>6. CASE M!CleanUp(c)
  BY <1>6 DEF ThreadInv, RejoinInv, Gone, M!CleanUp, M!Step, M!kernel
<1> QED BY <1>1, <1>2, <1>3, <1>4, <1>5, <1>6 DEF M!ThreadNext

\* Steps of a process.
LEMMA ProcessRejoin ==
    ASSUME RejoinInv, NEW c \in Clients, M!ProcessNext(c)
    PROVE  RejoinInv'
<1>1. CASE M!Connect(c)
  BY <1>1, SMTT(30) DEF RejoinInv, Gone, M!Connect, M!manager
<1>2. CASE M!SendPid(c)
  BY <1>2 DEF RejoinInv, Gone, M!SendPid, M!manager
<1>3. CASE M!Call(c) \/ M!CallFails(c)
  BY <1>3 DEF RejoinInv, Gone, M!Call, M!CallFails, M!Served, M!manager
<1>4. CASE M!Fault(c)
  BY <1>4 DEF RejoinInv, Gone, M!Fault, M!manager
<1>5. CASE M!Die(c)
  BY <1>5 DEF RejoinInv, Gone, M!Die, M!manager
<1>6. CASE M!Reuse(c)
  BY <1>6 DEF RejoinInv, Gone, M!Reuse, M!manager, M!kernel
<1> QED BY <1>1, <1>2, <1>3, <1>4, <1>5, <1>6 DEF M!ProcessNext

\* Every step.
LEMMA NextRejoin == ThreadInv /\ RejoinInv /\ [M!Next]_M!vars => RejoinInv'
<1> SUFFICES ASSUME ThreadInv, RejoinInv, [M!Next]_M!vars PROVE RejoinInv'
  OBVIOUS
<1>1. ASSUME M!Signal \/ UNCHANGED M!vars PROVE RejoinInv'
  BY <1>1 DEF RejoinInv, Gone, M!Signal, M!vars, M!manager, M!kernel
<1> QED
  BY <1>1, MainRejoin, AcceptRejoin, UserfaultRejoin, ClientRejoin, ProcessRejoin DEF M!Next

\* The invariant holds in every state the manager and its clients reach.
THEOREM RejoinHolds == M!Spec => []RejoinInv
BY InitRejoin, NextRejoin, ThreadsHold, PTL DEF M!Spec

\* accept_client replaces the record of an earlier process with the same pid only
\* when that one's thread has given its mappings back.
THEOREM ReusedPidsAreClean == M!Spec => PidReuseStartsClean
<1> DEFINE Clean == \A c \in Clients : thread[c] # "poll" /\ thread'[c] = "poll"
                        /\ acceptor = "replace" /\ taken = c => c \notin mapped
<1>1. ThreadInv /\ RejoinInv /\ [M!Next]_M!vars => [Clean]_(M!vars)
  <2> SUFFICES ASSUME ThreadInv, RejoinInv, M!Next, NEW c \in Clients, thread[c] # "poll",
                      thread'[c] = "poll", acceptor = "replace", taken = c
               PROVE  thread[c] \in {"none", "ended"}
    BY DEF ThreadInv
  <2>1. Gone(c)
    BY DEF RejoinInv
  <2>2. CASE M!MainNext
    BY <2>2 DEF M!MainNext, M!MainWoken, M!DestroyStarts, M!Join, M!ClearClients, M!CloseFds
  <2>3. CASE M!AcceptNext
    BY <2>3 DEF M!AcceptNext, M!AcceptStops, M!Accept, M!ReadPid, M!AddClient, M!MayReplace
  <2>4. CASE M!UserfaultStops \/ M!UserfaultReady \/ M!HandleUserfault \/ M!PollFails
    BY <2>4 DEF ThreadInv, M!UserfaultStops, M!UserfaultReady, M!HandleUserfault, M!PollFails, M!Step
  <2>5. CASE \E d \in Clients : M!ThreadNext(d) \/ M!LockClient(d) \/ M!CleanUp(d)
    BY <2>1, <2>5 DEF ThreadInv, Gone, M!ThreadNext, M!PollClient, M!LockClient, M!HandleCall, M!Answer,
                      M!AnswerFails, M!CleanUp, M!Step
  <2>6. CASE M!Signal \/ \E d \in Clients : M!ProcessNext(d)
    BY <2>6 DEF M!Signal, M!ProcessNext, M!Connect, M!SendPid, M!Call, M!CallFails, M!Fault, M!Die, M!Reuse, M!manager
  <2> QED BY <2>2, <2>3, <2>4, <2>5, <2>6 DEF M!Next
<1> QED BY <1>1, ThreadsHold, RejoinHolds, PTL DEF M!Spec, PidReuseStartsClean, M!PidReuseStartsClean
=============================================================================

------------------------------- MODULE PageIo -------------------------------
(***************************************************************************)
(* The loops that move a page between RAM and a file: init_file fills a    *)
(* new file, swap_out_page_data writes a frame, swap_in_page reads a page  *)
(* into m_tmp_page.  One step is one pread() or pwrite(), which may move   *)
(* fewer bytes than asked for, or fail.  BufferManager takes each loop as  *)
(* a single step.                                                          *)
(*                                                                         *)
(* A byte is [v, j]: which contents it belongs to and at which offset of   *)
(* the page.                                                               *)
(***************************************************************************)
EXTENDS Integers

CONSTANTS
    NPages,   \* pages of the file
    PageSize, \* PAGE_SIZE, in units that one call moves whole
    Width,    \* bits of a size_t
    Contents  \* what clients put into frames

\* A size_t holds any index into a page.
Sized ==
    /\ NPages \in Nat \ {0} /\ PageSize \in Nat \ {0} /\ Width \in Nat
    /\ 2^Width \in Nat /\ PageSize < 2^Width

VARIABLES
    file,       \* byte at each offset
    m_tmp_page, \* byte at each offset
    room,       \* up to where in each page the file system has room
    broken,     \* the device fails
    op,         \* the loop that runs; op.i is its index
    last        \* ghost: the loop that ended last

vars == <<file, m_tmp_page, room, broken, op, last>>

Pages == 0..(NPages - 1)
Offsets == 0..(PageSize - 1)
Versions == Contents \cup {"hole", "A"}
Idle == [kind |-> "none", page |-> 0, v |-> "A", i |-> 0, failed |-> FALSE, short |-> FALSE]

PageAt(p, f) == [j \in Offsets |-> f[p * PageSize + j]]
Of(v) == [j \in Offsets |-> [v |-> v, j |-> j]]

Init ==
    /\ file = [q \in 0..(NPages * PageSize - 1) |-> [v |-> "hole", j |-> q % PageSize]]
    /\ m_tmp_page = Of("hole") /\ room \in [Pages -> 0..PageSize] /\ broken = FALSE
    /\ op = [Idle EXCEPT !.kind = "init"] /\ last = Idle

\* External: other files go and come, but what was written once can be written again.
RoomChanges(p, n) ==
    /\ \A j \in Offsets : PageAt(p, file)[j].v # "hole" => j < n
    /\ room' = [room EXCEPT ![p] = n]
    /\ UNCHANGED <<file, m_tmp_page, broken, op, last>>
DeviceChanges == broken' = ~broken /\ UNCHANGED <<file, m_tmp_page, room, op, last>>

(***************************************************************************)
(* The loops.                                                              *)
(***************************************************************************)
SwapOut(p, v) ==
    /\ op.kind = "none" /\ op' = [Idle EXCEPT !.kind = "out", !.page = p, !.v = v] /\ last' = Idle
    /\ UNCHANGED <<file, m_tmp_page, room, broken>>
SwapIn(p) ==
    /\ op.kind = "none" /\ op' = [Idle EXCEPT !.kind = "in", !.page = p] /\ last' = Idle
    /\ UNCHANGED <<file, m_tmp_page, room, broken>>

\* The loop goes on with o, or has ended: init_file then takes the next page.
Continue(o) ==
    IF o.i < PageSize THEN op' = o /\ last' = last
    ELSE /\ last' = [o EXCEPT !.i = 0]
         /\ op' = IF o.kind = "init" /\ o.page + 1 < NPages
                  THEN [Idle EXCEPT !.kind = "init", !.page = o.page + 1] ELSE Idle

Writing == op.kind \in {"init", "out"}
NoRoom == broken \/ op.i >= room[op.page]

\* What n bytes of the frame from offset i on leave in the file.
Written_FromStart(n) ==
    [q \in DOMAIN file |->
        LET k == q - (op.page * PageSize + op.i)
        IN  IF k \in 0..(n - 1) THEN [v |-> op.v, j |-> k] ELSE file[q]]
Written(n) ==
    [q \in DOMAIN file |->
        LET k == q - (op.page * PageSize + op.i)
        IN  IF k \in 0..(n - 1) THEN [v |-> op.v, j |-> op.i + k] ELSE file[q]]

pwrite_Skips(n) ==
    /\ Writing /\ ~NoRoom /\ n \in 1..(room[op.page] - op.i)
    /\ file' = Written(n)
    /\ Continue([op EXCEPT !.i = @ + n + 1])
    /\ UNCHANGED <<m_tmp_page, room, broken>>
pwrite(n) ==
    /\ Writing /\ ~NoRoom /\ n \in 1..(room[op.page] - op.i)
    /\ file' = Written(n)
    /\ Continue([op EXCEPT !.i = (@ + n) % 2^Width])
    /\ UNCHANGED <<m_tmp_page, room, broken>>

\* pwrite() returns -1, which is added to the index all the same.
AfterError_Stays(i) == i
AfterError(i) == (i - 1) % 2^Width

PwriteFails ==
    /\ Writing /\ NoRoom
    /\ Continue([op EXCEPT !.i = AfterError(@), !.failed = TRUE])
    /\ UNCHANGED <<file, m_tmp_page, room, broken>>

\* The buffer is the start of m_tmp_page in every round.
ReadInto(n) ==
    [j \in Offsets |-> IF j < n THEN file[op.page * PageSize + op.i + j] ELSE m_tmp_page[j]]

pread(n) ==
    /\ op.kind = "in" /\ ~broken /\ n \in 1..(PageSize - op.i)
    /\ m_tmp_page' = ReadInto(n)
    /\ Continue([op EXCEPT !.i = @ + n, !.short = @ \/ n < PageSize - op.i])
    /\ UNCHANGED <<file, room, broken>>

\* An error ends the loop.
PreadFails ==
    /\ op.kind = "in" /\ broken
    /\ last' = [op EXCEPT !.i = 0, !.failed = TRUE] /\ op' = Idle
    /\ UNCHANGED <<file, m_tmp_page, room, broken>>

Transfer == (\E n \in 1..PageSize : pwrite(n) \/ pread(n)) \/ PwriteFails \/ PreadFails

Next ==
    \/ \E p \in Pages : \E v \in Contents : SwapOut(p, v)
    \/ \E p \in Pages : SwapIn(p)
    \/ Transfer
    \/ \E p \in Pages : \E n \in 0..PageSize : RoomChanges(p, n)
    \/ DeviceChanges

Spec == Init /\ [][Next]_vars

\* A running loop runs on; nothing is assumed of the device or of free space.
FairSpec == Spec /\ WF_vars(Transfer)

(***************************************************************************)
(* Properties.                                                             *)
(***************************************************************************)

\* Type invariant.
TypeOK ==
    /\ file \in [0..(NPages * PageSize - 1) -> [v : Versions, j : Offsets]]
    /\ m_tmp_page \in [Offsets -> [v : Versions, j : Offsets]]
    /\ room \in [Pages -> 0..PageSize] /\ broken \in BOOLEAN
    /\ op.kind \in {"none", "init", "out", "in"} /\ op.page \in Pages /\ op.i \in Offsets

\* However the calls are cut short and however often they fail and are repeated
\* one byte earlier, a byte of a page is only ever written to its own place.
WrittenInPlace == \A q \in DOMAIN file : file[q].j = q % PageSize

\* A write loop in which no call failed has written the whole page, however its
\* calls were cut short; a page that was read in one call is what the file holds.
CompleteUnlessFailed ==
    ~last.failed =>
        /\ last.kind \in {"init", "out"} => PageAt(last.page, file) = Of(last.v)
        /\ last.kind = "in" /\ ~last.short => m_tmp_page = PageAt(last.page, file)

\* If the device works and has room from some time on, or fails for good, every loop
\* ends.  A file system that stays full is left out: see LoopsEndAlways.
LoopsEnd ==
    (\/ <>[](~broken /\ \A p \in Pages : room[p] = PageSize)
     \/ <>[]broken)
    => []<>(op.kind = "none")

\* Every loop ends even when the file system stays full.
\* Does not hold; the README says where and why.
LoopsEndAlways == (<>[][UNCHANGED <<room, broken>>]_vars) => []<>(op.kind = "none")

\* A page that was read without an error is what the file holds.
\* Does not hold; the README says where and why.
SwapInReturnsPage ==
    last.kind = "in" /\ ~last.failed =>
        m_tmp_page = PageAt(last.page, file)

\* When the loop has ended, the page is in the file.
\* Does not hold; the README says where and why.
SwapOutWritesPage ==
    last.kind = "out" => PageAt(last.page, file) = Of(last.v)
=============================================================================

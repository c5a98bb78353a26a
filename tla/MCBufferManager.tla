-------------------------- MODULE MCBufferManager ---------------------------
(***************************************************************************)
(* BufferManager for TLC.  Frames and swap entries are interchangeable, so *)
(* are region identifiers.                                                 *)
(*                                                                         *)
(* What is overwritten before it is read does not tell states apart: the   *)
(* contents of free frames and of free swap entries, the dirty bit of an   *)
(* anonymous page, and the ghost of a page whose dirty bit was cleared     *)
(* (the properties except such a page until mem is set again).             *)
(***************************************************************************)
EXTENDS BufferManager, TLC

Symmetry == Permutations(Ids) \cup Permutations(Frames) \cup Permutations(SwapSlots)

View == <<nr_pages, persistent, anchored, ptes, free_pages, used_before, free_swap_entries,
          nr_available_pages,
          [p \in used_pages |-> <<page_infos[p].slot, shm[p],
                                 page_infos[p].dirty /\ ~is_anon(page_infos[p].slot[1])>>],
          [ix \in SwapSlots \ free_swap_entries |-> swapfile[ix]],
          disk, writable, [s \in Slots \ undirtied |-> mem[s]], promised>>
=============================================================================

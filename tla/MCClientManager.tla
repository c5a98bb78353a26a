-------------------------- MODULE MCClientManager --------------------------
EXTENDS ClientManager, TLC

\* Processes, windows and ids are interchangeable.
Symmetry == Permutations(Clients) \cup Permutations(Windows) \cup Permutations(Ids)

\* Segids matter only up to renaming: one that is live is the one of its
\* region.  Handles and faults on a segment that is gone are all alike.
Seen(x) == IF x = None THEN None ELSE IF Live(x.segid) THEN [x EXCEPT !.segid = 0] ELSE "dead"
View ==
    <<store, addr, region_map, mappings, thread, shutting, proc,
      [id \in Ids |-> IF Known(id) THEN [regions[id] EXCEPT !.segid = 0] ELSE None],
      [c \in Clients |-> IF lib[c].at = "granted" THEN <<lib[c].w, Seen(lib[c])>> ELSE lib[c]],
      [c \in Clients |-> [w \in Windows |-> Seen(handles[c][w])]],
      [c \in Clients |-> Seen(fault[c])]>>
=============================================================================

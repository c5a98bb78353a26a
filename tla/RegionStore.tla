----------------------------- MODULE RegionStore -----------------------------
(***************************************************************************)
(* What the client manager relies on in a buffer manager, seen from        *)
(* outside: which regions exist, how large they are, which are anchored,   *)
(* and which files of persistent regions outlive the process.  Pages,      *)
(* frames and swap entries do not show.  BufferManager implements this     *)
(* specification; ClientManager is built on it.                            *)
(***************************************************************************)
EXTENDS Integers

CONSTANTS
    Ids,        \* region identifiers
    MaxPages,   \* bound on a region's size in pages
    Sizes       \* the sizes clients ask for

VARIABLES
    nr_pages,     \* size of each loaded region, 0 if it is not loaded
    persistent,   \* loaded regions with a file of their own
    anchored,     \* loaded regions with m_anchored set
    file_pages    \* size of the file of each id, NoFile if there is none

store == <<nr_pages, persistent, anchored, file_pages>>

NoFile == -1
Loaded(id) == nr_pages[id] > 0

StoreInit ==
    /\ nr_pages = [id \in Ids |-> 0]
    /\ persistent = {}
    /\ anchored = {}
    /\ file_pages = [id \in Ids |-> NoFile]

allocate(id, n, pers) ==
    /\ ~Loaded(id)
    /\ pers => file_pages[id] = NoFile
    /\ nr_pages' = [nr_pages EXCEPT ![id] = n]
    /\ persistent' = IF pers THEN persistent \cup {id} ELSE persistent
    /\ file_pages' = IF pers THEN [file_pages EXCEPT ![id] = n] ELSE file_pages
    /\ UNCHANGED anchored

\* allocate gives up after it has created the file of a persistent region.
AllocateFails(id, n) ==
    /\ ~Loaded(id)
    /\ file_pages[id] = NoFile
    /\ file_pages' = [file_pages EXCEPT ![id] = n]
    /\ UNCHANGED <<nr_pages, persistent, anchored>>

\* Loads the region of a file left by an earlier process.
get_anchored_region(id) ==
    /\ ~Loaded(id)
    /\ file_pages[id] > 0
    /\ nr_pages' = [nr_pages EXCEPT ![id] = file_pages[id]]
    /\ persistent' = persistent \cup {id}
    /\ anchored' = anchored \cup {id}
    /\ UNCHANGED file_pages

anchor(id) ==
    /\ Loaded(id)
    /\ id \in persistent
    /\ anchored' = anchored \cup {id}
    /\ UNCHANGED <<nr_pages, persistent, file_pages>>

unanchor(id) ==
    /\ Loaded(id)
    /\ anchored' = anchored \ {id}
    /\ UNCHANGED <<nr_pages, persistent, file_pages>>

\* The regions of S go, with their files.
Drop(S) ==
    /\ nr_pages' = [id \in Ids |-> IF id \in S THEN 0 ELSE nr_pages[id]]
    /\ persistent' = persistent \ S
    /\ anchored' = anchored \ S
    /\ file_pages' = [id \in Ids |-> IF id \in S \cap persistent THEN NoFile ELSE file_pages[id]]

free(id) == Loaded(id) /\ id \notin anchored /\ Drop({id})

\* A new process: nothing is loaded, the files are what the old one left.
Restart ==
    /\ nr_pages' = [id \in Ids |-> 0]
    /\ persistent' = {}
    /\ anchored' = {}
    /\ UNCHANGED file_pages

StoreNext ==
    \/ \E id \in Ids, n \in Sizes, pers \in BOOLEAN : allocate(id, n, pers)
    \/ \E id \in Ids, n \in Sizes \cup {0} : AllocateFails(id, n)
    \/ \E id \in Ids : get_anchored_region(id) \/ anchor(id) \/ unanchor(id) \/ free(id)
    \/ Restart

StoreSpec == StoreInit /\ [][StoreNext]_store
=============================================================================

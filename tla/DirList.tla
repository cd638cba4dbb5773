------------------------------ MODULE DirList ------------------------------
(***************************************************************************)
(* The intrusive doubly-linked list of src/libvdf/list.h, at the level of *)
(* its next and prev pointers, as used for a directory's entries          *)
(* (dir.entries and each file's dirlist node): list_add, list_add_tail    *)
(* and list_del as create_file, vdf_move_file and vdf_delete_file call    *)
(* them, and the pointer exchanges of vdf_file_up and vdf_file_down       *)
(* (src/libvdf/file.c).  The order seen by list_foreach_item is shown to  *)
(* implement EntryOrder.                                                  *)
(***************************************************************************)
EXTENDS Integers, Sequences, FiniteSets

CONSTANTS
    Items,      \* the list_head nodes embedded in files
    Entries,       \* the list_head of the directory, dir.entries
    Null        \* NULL

Cells == Items \cup {Entries}

VARIABLES next, prev
vars == <<next, prev>>

\* INIT_LIST_HEAD(&dir->dir.entries); a file's node is NULL when unlinked
\* (list_del leaves it so; a fresh file is linked before any other use).
Init == /\ next = [c \in Cells |-> IF c = Entries THEN Entries ELSE Null]
        /\ prev = [c \in Cells |-> IF c = Entries THEN Entries ELSE Null]

Unlinked(i) == next[i] = Null

\* _list_add without its first store, next->prev = item
LinkBetweenNoBackLink(item, p, n) ==
    /\ next' = [next EXCEPT ![item] = n, ![p] = item]
    /\ prev' = [prev EXCEPT ![item] = p]

\* _list_add(item, p, n): the four stores, to four distinct fields
LinkBetween(item, p, n) ==
    /\ next' = [next EXCEPT ![item] = n, ![p] = item]
    /\ prev' = [prev EXCEPT ![n] = item, ![item] = p]

\* list_add that links after the first entry instead of after the head
ListAddSecond(i) == Unlinked(i) /\ LinkBetween(i, next[Entries], next[next[Entries]])

\* list_add(item, head): insert right after the head
ListAdd(i) == Unlinked(i) /\ LinkBetween(i, Entries, next[Entries])

\* list_add_tail(item, head): insert right before the head
ListAddTail(i) == Unlinked(i) /\ LinkBetween(i, prev[Entries], Entries)

\* list_del(item): _list_del(item->prev, item->next), then both NULL
ListDel(i) ==
    /\ ~Unlinked(i)
    /\ next' = [next EXCEPT ![prev[i]] = next[i], ![i] = Null]
    /\ prev' = [prev EXCEPT ![next[i]] = prev[i], ![i] = Null]

\* vdf_file_up: p = file->dirlist.prev; ERANGE when p is the head; then
\* tp = p->prev, tn = p->next, p takes the file's links, the file takes
\* p's.  No neighbour's pointer is touched.
FileUp(f) ==
    LET p == prev[f] IN
    /\ ~Unlinked(f)
    /\ p # Entries
    /\ next' = [next EXCEPT ![p] = next[f], ![f] = next[p]]
    /\ prev' = [prev EXCEPT ![p] = prev[f], ![f] = prev[p]]

\* vdf_file_down: the same exchange with p = file->dirlist.next
FileDown(f) ==
    LET p == next[f] IN
    /\ ~Unlinked(f)
    /\ p # Entries
    /\ next' = [next EXCEPT ![p] = next[f], ![f] = next[p]]
    /\ prev' = [prev EXCEPT ![p] = prev[f], ![f] = prev[p]]

\* the calls create_file, vdf_move_file and vdf_delete_file make
Next == \E i \in Items : ListAdd(i) \/ ListAddTail(i) \/ ListDel(i)

Spec == Init /\ [][Next]_vars

\* the same with the sibling reordering of vdf_file_up and vdf_file_down
ReorderNext == Next \/ \E i \in Items : FileUp(i) \/ FileDown(i)

ReorderSpec == Init /\ [][ReorderNext]_vars

-----------------------------------------------------------------------------
\* The entries list_foreach_item visits from the head, in order; the walk
\* stops at the head, at an unlinked node, or after as many steps as there
\* are items.
RECURSIVE WalkFrom(_, _)
WalkFrom(c, k) == IF c \notin Items \/ k = 0 THEN <<>>
                  ELSE <<c>> \o WalkFrom(next[c], k - 1)

Visited == WalkFrom(next[Entries], Cardinality(Items) + 1)

TypeOK == /\ next \in [Cells -> Cells \cup {Null}]
          /\ prev \in [Cells -> Cells \cup {Null}]

(* The list is a consistent ring: every linked node's successor points    *)
(* back to it and its predecessor forward to it, and an unlinked node has *)
(* both pointers NULL.  list_del and list_foreach rely on it.             *)
ListConsistent ==
    \A c \in Cells :
        IF c # Entries /\ Unlinked(c) THEN prev[c] = Null
        ELSE /\ next[c] # Null /\ prev[c] # Null
             /\ prev[next[c]] = c /\ next[prev[c]] = c

(* Walking the list from its head visits the entries in the order        *)
(* EntryOrder describes, whatever sequence of calls built it.             *)
Abstract == INSTANCE EntryOrder WITH order <- Visited

EntryOrderRefined == Abstract!Spec

=============================================================================

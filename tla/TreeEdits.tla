----------------------------- MODULE TreeEdits ------------------------------
(***************************************************************************)
(* Who changes the tree of library items, at the same time: edits of a     *)
(* row's kind or parent (KatalogService.update_item), scans that add files *)
(* (apply_scan) and removals (delete_item).                                *)
(*                                                                         *)
(* An edit validates the whole hierarchy first and writes later, in a      *)
(* transaction that takes SQLite's writer lock with its first write only;  *)
(* a scan reads the items of its root first and inserts later, in such a   *)
(* transaction too.  Neither holds the lock while it reads, and nothing in *)
(* the tables but the foreign key of parent_id looks at the tree again.  A *)
(* removal holds the lock from its first read: one step.                   *)
(*                                                                         *)
(* The reads of a transaction are one step here.  They are several         *)
(* statements, but a write of another edit or scan between them is a race  *)
(* just as one after them.                                                 *)
(***************************************************************************)
EXTENDS WatchState

CONSTANT Writers   \* transactions that edit or scan at the same time

VARIABLES
    txn,     \* what each of them has read and is about to write
    raced    \* one has written after another wrote what it had read

treeVars == <<kind, parent, media, watch, revision, txn, raced>>

NoTxn == [phase |-> "none"]

TreeInit == Init /\ txn = [t \in Writers |-> NoTxn] /\ raced = FALSE

-----------------------------------------------------------------------------
Ancestors(p) == {a \in Items : p \in Subtree(a)}

(* Mutant: the edit does not look at the row's children. *)
EditIsAllowed_IgnoresChildren(i, k, p) ==
    /\ kind[i] # "absent" /\ <<k, p>> # <<kind[i], parent[i]>>
    /\ p # i /\ ValidParent(kind, k, p)
    /\ k \notin PlayableKinds => i \notin media

(* _validate_item_hierarchy: the walk up from the new parent meets neither  *)
(* the row itself nor a cycle, the parent may hold the kind, a container    *)
(* owns no media, and the row's children may hang under the kind.           *)
EditIsAllowed(i, k, p) ==
    /\ kind[i] # "absent" /\ <<k, p>> # <<kind[i], parent[i]>>
    /\ i # p /\ \A a \in Ancestors(p) : a # i /\ parent[a] \notin Subtree(a)
    /\ ValidParent(kind, k, p)
    /\ k \notin PlayableKinds => i \notin media
    /\ \A c \in Items : parent[c] = i => k \in AllowedParentKinds(kind[c])

ValidateEdit(t, i, k, p) ==
    /\ txn[t] = NoTxn /\ EditIsAllowed(i, k, p)
    /\ txn' = [txn EXCEPT ![t] =
                 [phase |-> "edit", item |-> i, kind |-> k, parent |-> p,
                  setsKind |-> k # kind[i], setsParent |-> p # parent[i], stale |-> FALSE]]
    /\ UNCHANGED <<vars, raced>>

(* The catalogue has so many rows of the file's path.  A maintenance job    *)
(* scans a root, and no other scan of it runs meanwhile.                    *)
ReadForScan(t, path, chain, n) ==
    /\ txn[t] = NoTxn /\ \A s \in Writers : txn[s].phase # "scan"
    /\ Found(path, chain, n)
    /\ txn' = [txn EXCEPT ![t] =
                 [phase |-> "scan", path |-> path, chain |-> chain, found |-> n,
                  stale |-> FALSE]]
    /\ UNCHANGED <<vars, raced>>

-----------------------------------------------------------------------------
(* A row refers to a parent that is there (FOREIGN KEY parent_id). *)
MayRefer(p) == p \in Items => kind[p] # "absent"

(* t's write commits: what the others have read is out of date. *)
Written(t) ==
    /\ raced' = (raced \/ txn[t].stale)
    /\ txn' = [s \in Writers |->
                 IF s = t \/ txn[s] = NoTxn THEN NoTxn ELSE [txn[s] EXCEPT !.stale = TRUE]]

(* The UPDATE names the columns that differ from the row as it was read. *)
WriteEdit(t) ==
    LET q == txn[t]
    IN  /\ q.phase = "edit" /\ kind[q.item] # "absent"
        /\ q.setsParent => MayRefer(q.parent)
        /\ kind' = IF q.setsKind THEN [kind EXCEPT ![q.item] = q.kind] ELSE kind
        /\ parent' = IF q.setsParent THEN [parent EXCEPT ![q.item] = q.parent] ELSE parent
        /\ Written(t)
        /\ UNCHANGED <<media, watch, revision>>

(* The first row to insert, or the file alone, refers to the last row found; *)
(* inserted rows get identifiers no row has.                                 *)
WriteScan(t) ==
    LET q == txn[t]
    IN  /\ q.phase = "scan"
        /\ q.found > 0 => kind[q.chain[q.found]] # "absent"
        /\ \A m \in (q.found + 1)..Len(q.path) : Absent(q.chain[m])
        /\ InsertRows(q.path, q.chain, q.found)
        /\ Written(t)
        /\ UNCHANGED <<watch, revision>>

(* A row is gone, a reference is refused, the lock is not had in time.       *)
Fail(t) ==
    /\ txn[t] # NoTxn
    /\ txn' = [txn EXCEPT ![t] = NoTxn]
    /\ UNCHANGED <<vars, raced>>

-----------------------------------------------------------------------------
TreeNext ==
    \/ \E t \in Writers :
          \/ \E i \in Items, k \in Kinds, p \in Items \cup {NoItem} : ValidateEdit(t, i, k, p)
          \/ \E path \in FilePaths : \E chain \in Chains(path), n \in 0..Len(path) :
                ReadForScan(t, path, chain, n)
          \/ WriteEdit(t) \/ WriteScan(t) \/ Fail(t)
    \/ \E i \in Items : DeleteItem(i) /\ UNCHANGED <<txn, raced>>

TreeSpec == TreeInit /\ [][TreeNext]_treeVars

-----------------------------------------------------------------------------
(* No row is left without its parent, whatever edits, scans and removals    *)
(* overlap: each of them can miss what another has removed.  And the tree   *)
(* has its shape as long as none has written after another edit or scan     *)
(* wrote what it had read: removals never make an edit or a scan break it.  *)
(* Overlapping edits do break it (_validate_item_hierarchy does not hold    *)
(* the lock): each of two can allow what the other then makes invalid.      *)
HierarchyUnlessRaced ==
    /\ \A i \in Items : kind[i] # "absent" => MayRefer(parent[i])
    /\ raced \/ HierarchyIsValid
=============================================================================

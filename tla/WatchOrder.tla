----------------------------- MODULE WatchOrder -----------------------------
(***************************************************************************)
(* One watch order of a collection: rows with a position each, a revision  *)
(* that every edit names and advances, and the editors that read both in   *)
(* several requests.  Edits, item removals and repair merges are immediate *)
(* transactions, hence single steps; reads are not.                        *)
(*                                                                         *)
(* An entry stands for its item: the unique index on order and item makes  *)
(* the two interchangeable while the entry exists.                         *)
(***************************************************************************)
EXTENDS Integers, Sequences, FiniteSets, Functions

CONSTANTS
    Items,        \* the playable items
    NoItem,       \* no anchor
    RootOf,       \* RootOf[i]: the library root of item i
    Editors,      \* the clients that read and edit the order
    Upkeep,       \* which of "delete_item", "merge", "delete_root" happen
    MaxEntries,   \* MAX_WATCH_ORDER_ENTRIES
    PageSize,     \* the most entries one page of a read holds
    MaxBlock,     \* bound: the most items of one insertion
    MaxRevision   \* bound on revisions

ASSUME WatchOrderAssumption ==
    /\ IsFiniteSet(Items) /\ NoItem \notin Items
    /\ MaxEntries \in Nat \ {0} /\ PageSize \in Nat \ {0}
    /\ MaxBlock \in Nat /\ MaxRevision \in Nat \ {0}
    /\ Upkeep \subseteq {"delete_item", "merge", "delete_root"}

VARIABLES
    catalogue, \* the items that exist
    position,  \* position[i] of the items that have an entry
    revision,  \* watch_order.revision
    editor,    \* what each client has read
    answered   \* the last request that was carried out

vars == <<catalogue, position, revision, editor, answered>>

-----------------------------------------------------------------------------
(* The rows in order, and the positions a sequence is stored under.         *)
Rank(p, i) == Cardinality({j \in DOMAIN p : p[j] < p[i]})

InOrder(p) ==
    [n \in 1..Cardinality(DOMAIN p) |-> CHOOSE i \in DOMAIN p : Rank(p, i) = n - 1]

Numbered(seq) == [i \in Range(seq) |-> (CHOOSE n \in DOMAIN seq : seq[n] = i) - 1]

Distinct(items) ==
    UNION {{seq \in [1..n -> items] : IsInjective(seq)} : n \in 0..Cardinality(items)}

Entries == DOMAIN position

Highest(p) ==
    CHOOSE n \in Range(p) \cup {-1} : \A i \in DOMAIN p : p[i] <= n

-----------------------------------------------------------------------------
(* _shift_positions, and the two statements it takes under a unique index   *)
(* that SQLite checks row by row: off to free numbers, then into place.     *)
Shift(p, first, last, delta) ==
    [i \in DOMAIN p |-> IF p[i] \in first..last THEN p[i] + delta ELSE p[i]]

(* Mutant: the detour is only as long as the range. *)
Offset_Short(p, first, last, delta) == last - first + 1

Offset(p, first, last, delta) ==
    Highest(p) + (last - first + 1) + (IF delta < 0 THEN -delta ELSE delta) + 1

ShiftCollides(p, first, last, delta) ==
    LET rows == {i \in DOMAIN p : p[i] \in first..last}
        away == [i \in DOMAIN p |->
                    IF i \in rows THEN p[i] + Offset(p, first, last, delta) ELSE p[i]]
    IN  \/ {away[i] : i \in rows} \cap Range(p) # {}
        \/ {p[i] + delta : i \in rows} \cap Range(away) # {}

(* An anchor is an entry of the order, and not both are given. *)
AnchorExists(before, after) ==
    /\ before \in Entries \cup {NoItem} /\ after \in Entries \cup {NoItem}
    /\ NoItem \in {before, after}

InsertionPosition(p, before, after) ==
    IF before # NoItem THEN p[before]
    ELSE IF after # NoItem THEN p[after] + 1
    ELSE Highest(p) + 1

Inserted(p, block, before, after) ==
    LET at == InsertionPosition(p, before, after)
        shifted == Shift(p, at, Highest(p), Len(block))
    IN  [i \in DOMAIN p \cup Range(block) |->
            IF i \in DOMAIN p THEN shifted[i] ELSE at + Numbered(block)[i]]

(* Mutant: the moved entry is counted among those it moves past. *)
MoveTarget_CountsItself(p, item, before, after) ==
    IF before # NoItem THEN Rank(p, before)
    ELSE IF after # NoItem THEN Rank(p, after) + 1
    ELSE Cardinality(DOMAIN p) - 1

(* _move_target_position counts entries; the move itself uses positions.    *)
MoveTarget(p, item, before, after) ==
    LET rest == Restrict(p, DOMAIN p \ {item})
    IN  IF before # NoItem THEN Rank(rest, before)
        ELSE IF after # NoItem THEN Rank(rest, after) + 1
        ELSE Cardinality(DOMAIN rest)

Parked(p, item) == [p EXCEPT ![item] = Highest(p) + 1]

MoveShift(old, target) ==
    IF target < old THEN <<target, old - 1, 1>> ELSE <<old + 1, target, -1>>

Moved(p, item, before, after) ==
    LET target == MoveTarget(p, item, before, after)
        by == MoveShift(p[item], target)
    IN  IF target = p[item] THEN p
        ELSE [Shift(Parked(p, item), by[1], by[2], by[3]) EXCEPT ![item] = target]

Removed(p, item) ==
    LET rest == Restrict(p, DOMAIN p \ {item})
    IN  Shift(rest, p[item] + 1, Highest(p), -1)

Normalised(p) == [i \in DOMAIN p |-> Rank(p, i)]

-----------------------------------------------------------------------------
Closed == [revision |-> 0, list |-> <<>>, cursor |-> -1, loading |-> FALSE]

(* An order starts empty, copied from another one or generated. *)
Init ==
    /\ catalogue = Items
    /\ \E seq \in Distinct(Items) : Len(seq) <= MaxEntries /\ position = Numbered(seq)
    /\ revision = 1
    /\ editor = [e \in Editors |-> Closed]
    /\ answered = [op |-> "create"]

(* An editor reads the revision, then page after page of entries.  The      *)
(* cursor is the last entry's position and id: an entry that has come to    *)
(* stand on that position is on the next page if its id is larger.          *)
Open(e) ==
    /\ ~editor[e].loading
    /\ editor' = [editor EXCEPT ![e] = [Closed EXCEPT !.revision = revision, !.loading = TRUE]]
    /\ UNCHANGED <<catalogue, position, revision, answered>>

(* Mutant: the revision is taken from the last page. *)
LoadPage_LastRevision(e) ==
    /\ editor[e].loading
    /\ LET rest == {i \in Entries : position[i] > editor[e].cursor}
           ahead == InOrder(Restrict(position, rest))
           size == IF Len(ahead) < PageSize THEN Len(ahead) ELSE PageSize
       IN  editor' = [editor EXCEPT ![e] =
               [revision |-> revision,
                list     |-> @.list \o SubSeq(ahead, 1, size),
                cursor   |-> IF size = 0 THEN @.cursor ELSE position[ahead[size]],
                loading  |-> Len(ahead) > size]]
    /\ UNCHANGED <<catalogue, position, revision, answered>>

LoadPage(e) ==
    /\ editor[e].loading
    /\ \E again \in BOOLEAN :
       LET seen == Range(editor[e].list)
           rest == {i \in Entries : \/ position[i] > editor[e].cursor
                                    \/ /\ again /\ position[i] = editor[e].cursor
                                       /\ i # editor[e].list[Len(editor[e].list)]}
           ahead == InOrder(Restrict(position, rest))
           size == IF Len(ahead) < PageSize THEN Len(ahead) ELSE PageSize
       IN  editor' = [editor EXCEPT ![e] =
               [revision |-> @.revision,
                list     |-> @.list \o SubSeq(ahead, 1, size),
                cursor   |-> IF size = 0 THEN @.cursor ELSE position[ahead[size]],
                loading  |-> Len(ahead) > size]]
    /\ UNCHANGED <<catalogue, position, revision, answered>>

-----------------------------------------------------------------------------
(* An edit is carried out if it names the current revision.                 *)
MayEdit(e) ==
    /\ editor[e].revision = revision /\ ~editor[e].loading
    /\ revision < MaxRevision

Answer(e, request, p) ==
    /\ position' = p
    /\ revision' = revision + 1
    /\ answered' = request
    /\ editor' = [editor EXCEPT ![e] = Closed]
    /\ UNCHANGED catalogue

(* update_watch_order: the editor goes on with what it has saved. *)
Save(e) ==
    /\ MayEdit(e)
    /\ \E seq \in Distinct(catalogue) :
        /\ Len(seq) <= MaxEntries
        /\ position' = Numbered(seq)
        /\ revision' = revision + 1
        /\ answered' = [op |-> "replace", by |-> e, block |-> seq]
        /\ editor' = [editor EXCEPT ![e] =
                         [Closed EXCEPT !.revision = revision + 1, !.list = seq]]
    /\ UNCHANGED catalogue

(* add_watch_order_entry and add_watch_order_entries, with their own limits *)
Insert(e, block, before, after) ==
    /\ MayEdit(e) /\ AnchorExists(before, after)
    /\ Range(block) \subseteq catalogue \ Entries
    /\ Answer(e, [op |-> "insert", by |-> e, block |-> block, before |-> before,
                  after |-> after], Inserted(position, block, before, after))

AddEntry(e) ==
    /\ Highest(position) + 2 <= MaxEntries
    /\ \E i \in catalogue, before, after \in Items \cup {NoItem} :
          Insert(e, <<i>>, before, after)

(* Mutant: the limit is compared before the batch is counted. *)
AddEntries_BeforeTheBatch(e) ==
    \E block \in Distinct(catalogue), before, after \in Items \cup {NoItem} :
        /\ Len(block) \in 1..MaxBlock
        /\ Cardinality(Entries) < MaxEntries
        /\ Insert(e, block, before, after)

AddEntries(e) ==
    \E block \in Distinct(catalogue), before, after \in Items \cup {NoItem} :
        /\ Len(block) \in 1..MaxBlock
        /\ Cardinality(Entries) + Len(block) <= MaxEntries
        /\ Insert(e, block, before, after)

MoveEntry(e) ==
    \E i \in Entries, before, after \in Items \cup {NoItem} :
        /\ MayEdit(e) /\ AnchorExists(before, after) /\ i \notin {before, after}
        /\ Answer(e, [op |-> "move", by |-> e, item |-> i, before |-> before,
                      after |-> after], Moved(position, i, before, after))

RemoveEntry(e) ==
    \E i \in Entries :
        /\ MayEdit(e)
        /\ Answer(e, [op |-> "remove", by |-> e, item |-> i], Removed(position, i))

(* apply_watch_order_generation: dated items of the collection replace the  *)
(* entries, or follow those that are there.                                 *)
ApplyGeneration(e) ==
    \E kept \in {<<>>, InOrder(position)} :
        \E generated \in Distinct(catalogue \ Range(kept)) :
            LET seq == kept \o generated
            IN  /\ MayEdit(e)
                /\ Len(seq) <= MaxEntries
                /\ Answer(e, [op |-> "replace", by |-> e, block |-> seq], Numbered(seq))

(* A conflict: "Your draft is here. Review the saved order before retrying." *)
Conflict(e) ==
    /\ editor[e].revision \notin {0, revision} /\ ~editor[e].loading
    /\ editor' = [editor EXCEPT ![e] = Closed]
    /\ UNCHANGED <<catalogue, position, revision, answered>>

-----------------------------------------------------------------------------
(* Mutant: the entries that stay keep their positions. *)
WithoutGone_LeavesGaps(gone) == Restrict(position, Entries \ gone)

(* _normalise_watch_order_positions, for an order that loses entries. *)
WithoutGone(gone) ==
    IF gone \cap Entries = {} THEN position
    ELSE Normalised(Restrict(position, Entries \ gone))

(* delete_item: a subtree goes, with its entries; the order is renumbered.  *)
DeleteItem ==
    \E gone \in SUBSET catalogue \ {{}} :
        /\ "delete_item" \in Upkeep
        /\ \A i, j \in gone : RootOf[i] = RootOf[j]
        /\ catalogue' = catalogue \ gone
        /\ position' = WithoutGone(gone)
        /\ revision < MaxRevision
        /\ revision' = IF gone \cap Entries # {} THEN revision + 1 ELSE revision
        /\ answered' = [op |-> "vanish", gone |-> gone]
        /\ UNCHANGED editor

(* A repair or a manual merge: the entry passes to the kept item, or goes.  *)
Merge ==
    \E item, target \in catalogue :
        /\ "merge" \in Upkeep /\ item # target /\ RootOf[item] = RootOf[target]
        /\ catalogue' = catalogue \ {item}
        /\ position' =
              IF item \in Entries /\ target \notin Entries
              THEN [i \in (Entries \ {item}) \cup {target} |->
                       IF i = target THEN position[item] ELSE position[i]]
              ELSE Restrict(position, Entries \ {item})
        /\ revision < MaxRevision
        /\ revision' = IF item \in Entries THEN revision + 1 ELSE revision
        /\ answered' = [op |-> "merge", item |-> item, target |-> target]
        /\ UNCHANGED editor

(* delete_library_root: everything below it goes, by cascade only. *)
DeleteRoot ==
    \E root \in {RootOf[i] : i \in Items} :
        LET gone == {i \in catalogue : RootOf[i] = root} IN
        /\ "delete_root" \in Upkeep /\ gone # {}
        /\ catalogue' = catalogue \ gone
        /\ position' = Restrict(position, Entries \ gone)
        /\ answered' = [op |-> "vanish", gone |-> gone]
        /\ UNCHANGED <<revision, editor>>

-----------------------------------------------------------------------------
Edit(e) ==
    \/ Save(e) \/ AddEntry(e) \/ AddEntries(e) \/ MoveEntry(e) \/ RemoveEntry(e)
    \/ ApplyGeneration(e)

Next ==
    \/ \E e \in Editors : Open(e) \/ LoadPage(e) \/ Edit(e) \/ Conflict(e)
    \/ DeleteItem \/ Merge \/ DeleteRoot

Spec == Init /\ [][Next]_vars

-----------------------------------------------------------------------------
(* The sequence of items that the rows stand for. *)
Sequence == INSTANCE WatchSequence WITH list <- InOrder(position)

TypeOK ==
    /\ catalogue \subseteq Items
    /\ Entries \subseteq Items /\ \A i \in Entries : position[i] \in Nat
    /\ revision \in 1..MaxRevision
    /\ \A e \in Editors :
        /\ editor[e].revision \in Nat /\ editor[e].revision <= revision
        /\ editor[e].list \in Seq(Items)

(* Positions are 0, 1, ... without gaps: moves count entries and take the   *)
(* count for a position.                                                    *)
PositionsContiguous == {position[i] : i \in Entries} = 0..(Cardinality(Entries) - 1)

(* No entry of an item that is gone. *)
EntriesHaveItems == Entries \subseteq catalogue

(* An order never holds more than MAX_WATCH_ORDER_ENTRIES entries, although  *)
(* a single addition compares the next position with the limit, a batch the *)
(* count, and a sequence its own length.                                    *)
LimitRespected == Cardinality(Entries) <= MaxEntries

(* No edit that could be asked for next runs into the unique index on       *)
(* (watch_order_id, position), at any row of any of its statements, gaps or *)
(* no gaps: otherwise a legal request would fail for good.                  *)
MoveCollides(i, before, after) ==
    LET target == MoveTarget(position, i, before, after)
        by == MoveShift(position[i], target)
        parked == Parked(position, i)
    IN  /\ target # position[i]
        /\ \/ ShiftCollides(parked, by[1], by[2], by[3])
           \/ target \in Range(Shift(parked, by[1], by[2], by[3]))

InsertCollides(n, before, after) ==
    LET at == InsertionPosition(position, before, after)
    IN  \/ ShiftCollides(position, at, Highest(position), n)
        \/ Range(Shift(position, at, Highest(position), n)) \cap at..(at + n - 1) # {}

RemoveCollides(i) ==
    ShiftCollides(Restrict(position, Entries \ {i}), position[i] + 1, Highest(position), -1)

NoEditCollides ==
    /\ IsInjective(position)
    /\ \A i \in Entries : ~RemoveCollides(i)
    /\ \A before, after \in Entries \cup {NoItem} :
        NoItem \in {before, after} =>
            /\ \A n \in 1..MaxBlock : ~InsertCollides(n, before, after)
            /\ \A i \in Entries \ {before, after} : ~MoveCollides(i, before, after)

(* An edit is only carried out for an editor that has seen the entries as   *)
(* they are, in their order, although it read them page by page while       *)
(* others edited; what it has seen beside them are items that are gone.     *)
AcceptedEditsSawTheOrder ==
    [][\A e \in Editors :
          (revision' # revision /\ "by" \in DOMAIN answered' /\ answered'.by = e) =>
              Sequence!Remaining(editor[e].list, catalogue) = InOrder(position)]_vars

(* "Move an entry before or after another entry, or to the end." *)
MovesKeepTheirAnchor ==
    [][(answered'.op = "move" /\ revision' # revision) =>
          LET seq == InOrder(position')
              n == CHOOSE k \in DOMAIN seq : seq[k] = answered'.item
          IN  IF answered'.before # NoItem
              THEN n < Len(seq) /\ seq[n + 1] = answered'.before
              ELSE IF answered'.after # NoItem
              THEN n > 1 /\ seq[n - 1] = answered'.after
              ELSE n = Len(seq)]_vars

(* Numbered rows behave as the sequence of items they stand for. *)
SequenceSpec == Sequence!Spec
=============================================================================

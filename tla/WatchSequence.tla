---------------------------- MODULE WatchSequence ----------------------------
(***************************************************************************)
(* What a watch order promises its users: a sequence of distinct items     *)
(* that changes only by the requests answered, each of which names its     *)
(* place by a neighbouring entry.  WatchOrder implements it with numbered  *)
(* rows.                                                                   *)
(***************************************************************************)
EXTENDS Naturals, Sequences, FiniteSets, Functions

CONSTANTS Items, NoItem

VARIABLES
    list,     \* the items in order
    answered  \* the last request that was carried out

(* What is left of a sequence of which only the items of S stay.            *)
Remaining(seq, S) ==
    LET places == {n \in DOMAIN seq : seq[n] \in S}
        Place(k) == CHOOSE n \in places : Cardinality({m \in places : m < n}) = k - 1
    IN  [k \in 1..Cardinality(places) |-> seq[Place(k)]]

Without(gone) == Remaining(list, Items \ gone)

(* block put before one entry, after another, or at the end, of a sequence  *)
(* that holds the anchor.                                                   *)
Index(seq, i) == CHOOSE n \in DOMAIN seq : seq[n] = i

Put(seq, block, before, after) ==
    LET n == IF before # NoItem THEN Index(seq, before) - 1
             ELSE IF after # NoItem THEN Index(seq, after)
             ELSE Len(seq)
    IN  SubSeq(seq, 1, n) \o block \o SubSeq(seq, n + 1, Len(seq))

Result(r) ==
    CASE r.op = "replace" -> r.block
      [] r.op = "insert"  -> Put(list, r.block, r.before, r.after)
      [] r.op = "move"    -> Put(Without({r.item}), <<r.item>>, r.before, r.after)
      [] r.op = "remove"  -> Without({r.item})
      [] r.op = "vanish"  -> Without(r.gone)
      [] r.op = "merge"   -> IF r.target \in Range(list) THEN Without({r.item})
                             ELSE [n \in DOMAIN list |->
                                      IF list[n] = r.item THEN r.target ELSE list[n]]
      [] OTHER            -> list

Init == list \in Seq(Items) /\ IsInjective(list)

Next ==
    /\ list' = Result(answered')
    /\ IsInjective(list')

Spec == Init /\ [][Next]_<<list, answered>>
=============================================================================

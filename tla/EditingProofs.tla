--------------------------- MODULE EditingProofs ---------------------------
(***************************************************************************)
(* Proofs about the two editors of the browser that MCEditing checks: the  *)
(* form that edits an item and the draft of a watch order.  Each has an    *)
(* inductive invariant of its own; each theorem is stated both for the     *)
(* editor and for the specification the runs check.                        *)
(***************************************************************************)
EXTENDS MCEditing, FiniteSetTheorems, SequenceTheorems, WellFoundedInduction, TLAPS

-----------------------------------------------------------------------------
(* ItemEditor. *)

(* What the form shows belongs together: the checked locks are those of     *)
(* its kind, and so are the parents to choose from and the parent that is   *)
(* chosen, if they are there.                                               *)
FormFits ==
  /\ DOMAIN form = {"kind", "checks", "parents", "parent"}
  /\ form.kind \in Kinds
  /\ form.checks \subseteq Form!Locks(form.kind)
  /\ form.parents \in Kinds =>
       form.parents = form.kind /\ form.parent \in MCEligible[form.kind] \cup {None}

(* The latest request asks for the parents of the kind that is shown.       *)
LoadsFit ==
  /\ latest \in Nat
  /\ \A l \in loads : l.token \in Nat /\ l.token <= latest
  /\ dialog = "open" /\ form.parents = "loading" =>
       \A l \in loads : l.token = latest => l.kind = form.kind

ItemFits == item.kind \in Kinds /\ item.parent \in MCEligible[item.kind] \cup {None}

FormInv ==
  /\ ItemFits
  /\ LoadsFit
  /\ dialog = "open" => FormFits /\ wanted = Form!LocksOfForm
  /\ Form!SavedParentFits

LEMMA FormStarts == Form!Init => FormInv
BY DEF Form!Init, Form!ParentKinds, FormInv, ItemFits, LoadsFit, Form!SavedParentFits

(* A form that is shown anew fits the item.                                 *)
LEMMA RenderedFits ==
  ASSUME NEW delivered \in BOOLEAN, FormInv, Form!Rendered(delivered)
  PROVE  FormInv'
<1>1. CASE delivered
  <2>1. FormFits'
    BY <1>1, EditingAssumption DEF Form!Rendered, FormInv, ItemFits, FormFits
  <2>2. wanted' = (Form!LocksOfForm)'
    BY <1>1 DEF Form!Rendered, Form!LocksOfForm
  <2>3. form'.parents # "loading"
    BY <1>1, EditingAssumption DEF Form!Rendered, FormInv, ItemFits
  <2>4. LoadsFit' /\ ItemFits' /\ (Form!SavedParentFits)'
    BY <1>1, <2>3 DEF Form!Rendered, Form!saves, FormInv, ItemFits, LoadsFit, Form!SavedParentFits
  <2> QED
    BY <2>1, <2>2, <2>4 DEF FormInv
<1>2. CASE ~delivered
  BY <1>2 DEF Form!Rendered, Form!saves, Form!edits, FormInv, ItemFits, LoadsFit, Form!SavedParentFits
<1> QED
  BY <1>1, <1>2

(* Changing the kind keeps every lock as it was left, and drops the parent  *)
(* until the parents of the new kind are there.                             *)
LEMMA ChangeKindFits ==
  ASSUME NEW kind \in Kinds, FormInv, Form!ChangeKind(kind)
  PROVE  FormInv'
<1>1. dialog = "open" /\ FormFits /\ wanted = Form!LocksOfForm
  BY DEF Form!ChangeKind, Form!Open, FormInv
<1> DEFINE all == Form!LocksOfForm
           parent == IF form.parents \in Kinds THEN form.parent ELSE item.parent
           shown == [kind |-> kind, checks |-> all \cap Form!Locks(kind),
                     parents |-> None, parent |-> None]
           asked == [token |-> latest + 1, kind |-> kind, parent |-> parent]
<1>2. /\ dialog' = "open" /\ item' = item /\ sent' = sent
      /\ locked' = all /\ wanted' = all /\ latest' = latest + 1
  BY <1>1 DEF Form!ChangeKind, Form!saves
<1>3. \/ form' = [shown EXCEPT !.parents = "loading"] /\ loads' = loads \cup {asked}
      \/ form' = shown /\ loads' = loads
  BY DEF Form!ChangeKind
<1>4. /\ DOMAIN form' = {"kind", "checks", "parents", "parent"}
      /\ form'.kind = kind /\ form'.checks = all \cap Form!Locks(kind)
      /\ form'.parents \notin Kinds
  BY <1>3, EditingAssumption
<1>5. FormFits'
  BY <1>4 DEF FormFits, Form!Locks
<1>6. wanted' = (Form!LocksOfForm)'
  BY <1>2, <1>4 DEF Form!LocksOfForm, Form!Locks
<1>7. LoadsFit'
  <2>1. latest' \in Nat /\ \A l \in loads : l.token \in Nat /\ l.token < latest'
    BY <1>2 DEF FormInv, LoadsFit
  <2>2. asked.token = latest' /\ asked.kind = kind
    BY <1>2
  <2> HIDE DEF asked
  <2>3. loads' \subseteq loads \cup {asked}
    BY <1>3
  <2> QED
    BY <1>4, <2>1, <2>2, <2>3 DEF LoadsFit
<1> QED
  BY <1>2, <1>5, <1>6, <1>7 DEF FormInv, ItemFits, Form!SavedParentFits

(* Parents that arrive are those of the kind that is shown.                 *)
LEMMA ParentsAnsweredFits ==
  ASSUME NEW l \in loads, NEW delivered \in BOOLEAN, FormInv, Form!ParentsAnswered(l, delivered)
  PROVE  FormInv'
<1>1. /\ item' = item /\ dialog' = dialog /\ sent' = sent /\ locked' = locked /\ wanted' = wanted
      /\ latest' = latest /\ loads' = loads \ {l}
  BY DEF Form!ParentsAnswered, Form!saves
<1>2. CASE Form!LatestLoad(l) /\ dialog = "open" /\ form.parents = "loading"
  <2>1. FormFits /\ wanted = Form!LocksOfForm /\ l.kind = form.kind
    BY <1>2 DEF FormInv, LoadsFit, Form!LatestLoad
  <2> DEFINE choice == IF delivered THEN Form!Selected(l.parent, l.kind) ELSE None
  <2>2. form' = [form EXCEPT !.parents = l.kind, !.parent = choice]
    BY <1>2 DEF Form!ParentsAnswered
  <2>3. choice \in MCEligible[form.kind] \cup {None}
    BY <2>1 DEF Form!Selected
  <2> HIDE DEF choice
  <2>4. /\ DOMAIN form' = {"kind", "checks", "parents", "parent"}
        /\ form'.kind = form.kind /\ form'.checks = form.checks
        /\ form'.parents = form.kind /\ form'.parent = choice
    BY <2>1, <2>2 DEF FormFits
  <2>5. FormFits' /\ form'.parents # "loading"
    BY <2>1, <2>3, <2>4, EditingAssumption DEF FormFits, Form!Locks
  <2>6. wanted' = (Form!LocksOfForm)'
    BY <1>1, <2>1, <2>4 DEF Form!LocksOfForm, Form!Locks
  <2> QED
    BY <1>1, <2>5, <2>6 DEF FormInv, LoadsFit, ItemFits, Form!SavedParentFits
<1>3. CASE ~(Form!LatestLoad(l) /\ dialog = "open" /\ form.parents = "loading")
  <2>1. form' = form
    BY <1>3 DEF Form!ParentsAnswered
  <2> QED
    BY <1>1, <2>1 DEF FormInv, FormFits, LoadsFit, ItemFits, Form!SavedParentFits,
       Form!LocksOfForm, Form!Locks
<1> QED
  BY <1>2, <1>3

(* A click on a lock is both what the form shows and what is wanted.        *)
LEMMA SetLockFits ==
  ASSUME NEW f \in Fields, NEW on \in BOOLEAN, FormInv, Form!SetLock(f, on)
  PROVE  FormInv'
<1>1. FormFits /\ wanted = Form!LocksOfForm
  BY DEF Form!SetLock, Form!Open, FormInv
<1>2. /\ item' = item /\ dialog' = dialog /\ sent' = sent /\ locked' = locked
      /\ latest' = latest /\ loads' = loads /\ f \in Form!Locks(form.kind)
  BY DEF Form!SetLock, Form!saves
<1>3. /\ DOMAIN form' = {"kind", "checks", "parents", "parent"}
      /\ form'.kind = form.kind /\ form'.parents = form.parents /\ form'.parent = form.parent
      /\ form'.checks = IF on THEN form.checks \cup {f} ELSE form.checks \ {f}
  BY <1>1 DEF Form!SetLock, FormFits
<1>4. wanted' = IF on THEN wanted \cup {f} ELSE wanted \ {f}
  BY DEF Form!SetLock
<1>5. FormFits'
  BY <1>1, <1>2, <1>3 DEF FormFits, Form!Locks
<1>6. wanted' = (Form!LocksOfForm)'
  BY <1>1, <1>2, <1>3, <1>4 DEF Form!LocksOfForm, Form!Locks
<1> QED
  BY <1>2, <1>3, <1>5, <1>6 DEF FormInv, LoadsFit, ItemFits, Form!SavedParentFits

(* Only a parent that is offered can be chosen.                             *)
LEMMA ChooseParentFits ==
  ASSUME NEW p, FormInv, Form!ChooseParent(p)
  PROVE  FormInv'
<1>1. FormFits /\ wanted = Form!LocksOfForm
  BY DEF Form!ChooseParent, Form!Open, FormInv
<1>2. /\ item' = item /\ dialog' = dialog /\ sent' = sent /\ locked' = locked /\ wanted' = wanted
      /\ latest' = latest /\ loads' = loads /\ p \in MCEligible[form.parents]
      /\ form.parents \in Kinds
  BY DEF Form!ChooseParent, Form!saves
<1>3. /\ DOMAIN form' = {"kind", "checks", "parents", "parent"}
      /\ form'.kind = form.kind /\ form'.parents = form.parents /\ form'.parent = p
      /\ form'.checks = form.checks
  BY <1>1 DEF Form!ChooseParent, FormFits
<1>4. FormFits'
  BY <1>1, <1>2, <1>3 DEF FormFits, Form!Locks
<1>5. wanted' = (Form!LocksOfForm)'
  BY <1>1, <1>2, <1>3 DEF Form!LocksOfForm, Form!Locks
<1> QED
  BY <1>2, <1>3, <1>4, <1>5 DEF FormInv, LoadsFit, ItemFits, Form!SavedParentFits

(* What is sent is what the form shows.                                     *)
LEMMA PayloadFits ==
  ASSUME FormInv, dialog = "open"
  PROVE  Form!Payload.parent \in MCEligible[Form!Payload.kind] \cup {None}
BY DEF Form!Payload, FormInv, FormFits

LEMMA SendingFits ==
  ASSUME FormInv, Form!Submit \/ Form!ApplyMatch
  PROVE  FormInv'
<1>1. /\ item' = item /\ dialog' = dialog /\ form' = form /\ locked' = locked /\ wanted' = wanted
      /\ latest' = latest /\ loads' = loads
      /\ sent' \in {sent, Form!Payload} /\ dialog = "open"
  BY DEF Form!Submit, Form!ApplyMatch, Form!Open, Form!edits
<1>2. (Form!SavedParentFits)'
  BY <1>1, PayloadFits DEF FormInv, Form!SavedParentFits
<1> QED
  BY <1>1, <1>2 DEF FormInv, FormFits, LoadsFit, ItemFits, Form!LocksOfForm, Form!Locks

(* No other handler touches the form, and none but Rendered opens it.       *)
LEMMA OthersFit ==
  ASSUME FormInv,
         item' = item /\ form' = form /\ locked' = locked /\ wanted' = wanted,
         latest' = latest /\ loads' = loads /\ sent' = sent,
         dialog' = "open" => dialog = "open"
  PROVE  FormInv'
BY DEF FormInv, FormFits, LoadsFit, ItemFits, Form!SavedParentFits, Form!LocksOfForm, Form!Locks

LEMMA FormStep == FormInv /\ [Form!Next]_(Form!vars) => FormInv'
<1> SUFFICES ASSUME FormInv, [Form!Next]_(Form!vars) PROVE FormInv'
  OBVIOUS
<1>1. CASE Form!OpenDialog
  BY <1>1, OthersFit DEF Form!OpenDialog, Form!edits, Form!saves
<1>2. CASE Form!Close
  BY <1>2, OthersFit DEF Form!Close, Form!Closed, Form!edits
<1>3. CASE Form!Remove
  BY <1>3, OthersFit DEF Form!Remove, Form!edits, Form!saves
<1>4. ASSUME NEW yes \in BOOLEAN, Form!Answer(yes) PROVE FormInv'
  BY <1>4, OthersFit DEF Form!Answer, Form!Closed, Form!edits
<1>5. ASSUME NEW done \in BOOLEAN, Form!Submitted(done) PROVE FormInv'
  BY <1>5, OthersFit DEF Form!Submitted, Form!Gone
<1>6. ASSUME NEW done \in BOOLEAN, Form!Matched(done) PROVE FormInv'
  BY <1>6, OthersFit DEF Form!Matched, Form!Gone, Form!edits
<1>7. ASSUME NEW done \in BOOLEAN, Form!Removed(done) PROVE FormInv'
  BY <1>7, OthersFit DEF Form!Removed, Form!Gone, Form!edits
<1>8. CASE UNCHANGED Form!vars
  BY <1>8, OthersFit DEF Form!vars, Form!edits, Form!saves
<1> QED
  BY <1>1, <1>2, <1>3, <1>4, <1>5, <1>6, <1>7, <1>8, RenderedFits, SendingFits, SetLockFits,
     ChangeKindFits, ChooseParentFits, ParentsAnsweredFits
     DEF Form!Next

LEMMA FormAlways == Form!Spec => []FormInv
BY FormStarts, FormStep, PTL DEF Form!Spec

LEMMA FormAlwaysHere == EditingSpec => [](part = "form" => FormInv)
<1> DEFINE Inv == part = "form" => FormInv
<1>1. EditingInit => Inv
  BY FormStarts DEF EditingInit
<1>2. Inv /\ [EditingNext]_editingVars => Inv'
  <2> SUFFICES ASSUME Inv, [EditingNext]_editingVars, part' = "form"
               PROVE  FormInv'
    OBVIOUS
  <2>1. part = "form" /\ [Form!Next]_(Form!vars)
    BY DEF EditingNext, editingVars, formVars, Form!vars, Form!edits, Form!saves
  <2> QED
    BY <2>1, FormStep
<1> QED
  BY <1>1, <1>2, PTL DEF EditingSpec

(* However the kind was changed while parents were being loaded: a parent   *)
(* that is sent with a save is one that an item of the kind sent with it    *)
(* may have.                                                                *)
THEOREM SavedParentAlwaysFits ==
  /\ Form!Spec => []Form!SavedParentFits
  /\ EditingSpec => []SavedParentFits
<1>1. FormInv => Form!SavedParentFits
  BY DEF FormInv
<1>2. (part = "form" => FormInv) => SavedParentFits
  BY DEF FormInv, SavedParentFits
<1> QED
  BY <1>1, <1>2, FormAlways, FormAlwaysHere, PTL

(* A lock that was set or cleared while one kind was selected is sent as it *)
(* was left, whatever kinds were selected since.                            *)
THEOREM LocksAreAlwaysKept ==
  /\ Form!Spec => []Form!LocksAreKept
  /\ EditingSpec => []LocksAreKept
<1>1. FormInv => Form!LocksAreKept
  BY DEF FormInv, Form!LocksAreKept
<1>2. (part = "form" => FormInv) => LocksAreKept
  BY DEF FormInv, LocksAreKept, Form!LocksAreKept
<1> QED
  BY <1>1, <1>2, FormAlways, FormAlwaysHere, PTL

-----------------------------------------------------------------------------
(* OrderEditor: what its operators on sequences return.                     *)

(* A sequence of titles: a draft that was read from a saved order page by   *)
(* page while others saved theirs may have a title twice.                   *)
IsList(s) == s \in Seq(Titles)

LEMMA SequenceFacts ==
  ASSUME NEW S, NEW s \in Seq(S)
  PROVE  /\ Len(s) \in Nat /\ DOMAIN s = 1 .. Len(s)
         /\ \A i \in 1 .. Len(s) : s[i] \in S
BY LenProperties, ElementOfSeq

(* The smallest and the largest of some places are places.                  *)
LEMMA MinimumExists ==
  ASSUME NEW S \in SUBSET Nat, S # {}
  PROVE  \E i \in S : \A j \in S : i <= j
<1>1. PICK i \in S : \A j \in S : <<j, i>> \notin OpToRel(<, Nat)
  BY NatLessThanWellFounded, WFMin
<1>2. ASSUME NEW j \in S PROVE i <= j
  <2>1. <<j, i>> \in Nat \X Nat /\ i \in Nat /\ j \in Nat
    OBVIOUS
  <2>2. ~(j < i)
    BY <1>1, <2>1 DEF OpToRel
  <2> QED
    BY <2>1, <2>2
<1> QED
  BY <1>2

LEMMA SmallestIsThere ==
  ASSUME NEW S \in SUBSET Nat, S # {}
  PROVE  Draft!Smallest(S) \in S /\ \A j \in S : Draft!Smallest(S) <= j
BY MinimumExists DEF Draft!Smallest

LEMMA LargestIsThere ==
  ASSUME NEW n \in Nat, NEW S \in SUBSET (0 .. n), S # {}
  PROVE  Draft!Largest(S) \in S /\ \A j \in S : j <= Draft!Largest(S)
<1> DEFINE Minus(i) == n - i
           T == {Minus(i) : i \in S}
<1>1. \A i \in S : i \in Nat /\ Minus(i) \in Nat
  OBVIOUS
<1>2. T \in SUBSET Nat /\ T # {}
  BY <1>1
<1>3. PICK i \in T : \A j \in T : i <= j
  <2> HIDE DEF T
  <2> QED
    BY <1>2, MinimumExists
<1>4. PICK k \in S : i = Minus(k)
  OBVIOUS
<1>5. ASSUME NEW j \in S PROVE j <= k
  <2>1. Minus(j) \in T
    OBVIOUS
  <2>2. Minus(k) <= Minus(j)
    BY <1>3, <1>4, <2>1
  <2> QED
    BY <1>1, <2>2
<1> QED
  BY <1>5 DEF Draft!Largest

(* The editor counts as the library does.                                   *)
LEMMA DraftCounts == \A S : Draft!Cardinality(S) = Cardinality(S)
BY DEF Draft!Cardinality, Cardinality

(* A place of the sequence that is kept is the one before which so many of  *)
(* the kept places are.                                                     *)
LEMMA RankNumbersPlaces ==
  ASSUME NEW n \in Nat, NEW P \in SUBSET (1 .. n)
  PROVE  /\ Cardinality(P) \in Nat
         /\ \A i, j \in P : i < j => Draft!Rank(P, i) < Draft!Rank(P, j)
         /\ \A k \in 1 .. Cardinality(P) : \E i \in P : Draft!Rank(P, i) = k
         /\ \A i \in P : Draft!Rank(P, i) \in 1 .. Cardinality(P)
<1>1. IsFiniteSet(P) /\ Cardinality(P) \in Nat
  <2>1. IsFiniteSet(1 .. n)
    BY FS_Interval
  <2> QED
    BY <2>1, FS_Subset, FS_CardinalityType
<1> DEFINE UpTo(i) == {j \in P : j <= i}
<1>2. \A i : IsFiniteSet(UpTo(i)) /\ Cardinality(UpTo(i)) \in Nat /\ UpTo(i) \in SUBSET P
                /\ Cardinality(UpTo(i)) <= Cardinality(P)
  BY <1>1, FS_Subset, FS_CardinalityType
<1>3. \A i \in P : i \in UpTo(i)
  OBVIOUS
<1>4. \A i \in P : Cardinality(UpTo(i)) \in 1 .. Cardinality(P)
  <2> TAKE i \in P
  <2>1. UpTo(i) # {}
    BY <1>3
  <2>2. Cardinality(UpTo(i)) # 0
    <3> HIDE DEF UpTo
    <3> QED
      BY <1>2, <2>1, FS_EmptySet
  <2> HIDE DEF UpTo
  <2> QED
    BY <1>1, <1>2, <2>2
<1>5. \A i, j \in P : i < j => Cardinality(UpTo(i)) < Cardinality(UpTo(j))
  <2> SUFFICES ASSUME NEW i \in P, NEW j \in P, i < j
               PROVE  Cardinality(UpTo(i)) < Cardinality(UpTo(j))
    OBVIOUS
  <2>0. i < j
    OBVIOUS
  <2>1. UpTo(i) \in SUBSET UpTo(j) /\ j \in UpTo(j) /\ j \notin UpTo(i)
    <3>1. i \in Int /\ j \in Int /\ \A k \in P : k \in Int
      OBVIOUS
    <3>2. ASSUME NEW k \in UpTo(i) PROVE k \in UpTo(j)
      <4>1. k \in P /\ k <= i /\ k \in Int
        BY <3>1
      <4> QED
        BY <2>0, <3>1, <4>1
    <3>3. j <= j /\ ~(j <= i)
      BY <2>0, <3>1
    <3> QED
      BY <3>2, <3>3
  <2>2. UpTo(i) # UpTo(j)
    BY <2>1
  <2> HIDE DEF UpTo
  <2>3. Cardinality(UpTo(i)) <= Cardinality(UpTo(j)) /\ Cardinality(UpTo(i)) # Cardinality(UpTo(j))
    BY <1>2, <2>1, <2>2, FS_Subset
  <2> QED
    BY <1>2, <2>3
<1> DEFINE rank == [i \in P |-> Cardinality(UpTo(i))]
<1>6. rank \in Injection(P, 1 .. Cardinality(P))
  <2>1. rank \in [P -> 1 .. Cardinality(P)]
    BY <1>4
  <2>2. \A i, j \in P : rank[i] = rank[j] => i = j
    <3> SUFFICES ASSUME NEW i \in P, NEW j \in P, rank[i] = rank[j], i # j PROVE FALSE
      OBVIOUS
    <3>1. i < j \/ j < i
      OBVIOUS
    <3>2. rank[i] < rank[j] \/ rank[j] < rank[i]
      BY <1>5, <3>1
    <3>3. rank[i] \in Int /\ rank[j] \in Int
      BY <1>2
    <3> HIDE DEF rank
    <3> QED
      BY <3>2, <3>3
  <2> HIDE DEF rank
  <2> QED
    BY <2>1, <2>2 DEF Injection, IsInjective
<1>7. IsFiniteSet(1 .. Cardinality(P)) /\ Cardinality(1 .. Cardinality(P)) = Cardinality(P)
  BY <1>1, FS_Interval
<1>8. rank \in Surjection(P, 1 .. Cardinality(P))
  <2> HIDE DEF rank
  <2> QED
    BY <1>6, <1>7, FS_Injection
<1>9. \A k \in 1 .. Cardinality(P) : \E i \in P : Cardinality(UpTo(i)) = k
  <2>1. \A k \in 1 .. Cardinality(P) : \E i \in P : rank[i] = k
    <3> HIDE DEF rank
    <3> QED
      BY <1>8 DEF Surjection
  <2> QED
    BY <2>1
<1> QED
  <2>1. \A i : Draft!Rank(P, i) = Cardinality(UpTo(i))
    BY DraftCounts DEF Draft!Rank
  <2> HIDE DEF UpTo
  <2> QED
    BY <1>1, <1>4, <1>5, <1>9, <2>1

(* What is kept of a sequence: exactly the entries of a set, in the order    *)
(* they had.                                                                 *)
Keeps(kept, s, S) ==
  /\ \A k \in DOMAIN kept : kept[k] \in S
  /\ \A i \in DOMAIN s : s[i] \in S => \E k \in DOMAIN kept : kept[k] = s[i]
  /\ \E place \in [DOMAIN kept -> DOMAIN s] :
       /\ \A k \in DOMAIN kept : kept[k] = s[place[k]]
       /\ \A k, l \in DOMAIN kept : k < l => place[k] < place[l]

LEMMA KeptEntries ==
  ASSUME NEW T, NEW s \in Seq(T), NEW S
  PROVE  Draft!Keep(s, S) \in Seq(T) /\ Keeps(Draft!Keep(s, S), s, S)
<1> DEFINE P == Draft!PlacesOf(s, S)
           n == Cardinality(P)
           place == [k \in 1 .. n |-> Draft!Place(P, k)]
<1>1. Len(s) \in Nat /\ DOMAIN s = 1 .. Len(s) /\ \A i \in 1 .. Len(s) : s[i] \in T
  BY SequenceFacts
<1>2. P \in SUBSET (1 .. Len(s)) /\ \A i \in P : s[i] \in S
  BY <1>1 DEF Draft!PlacesOf
<1>0. \A i \in P : i \in Int
  <2>1. \A i \in 1 .. Len(s) : i \in Int
    BY <1>1
  <2> HIDE DEF P
  <2> QED
    BY <1>2, <2>1
<1>3. Draft!Keep(s, S) = [k \in 1 .. n |-> s[Draft!Place(P, k)]]
  BY DraftCounts DEF Draft!Keep
<1> HIDE DEF P
<1>4. /\ n \in Nat
      /\ \A i, j \in P : i < j => Draft!Rank(P, i) < Draft!Rank(P, j)
      /\ \A k \in 1 .. n : \E i \in P : Draft!Rank(P, i) = k
      /\ \A i \in P : Draft!Rank(P, i) \in 1 .. n
  BY <1>1, <1>2, RankNumbersPlaces
<1>5. \A k \in 1 .. n : Draft!Place(P, k) \in P /\ Draft!Rank(P, Draft!Place(P, k)) = k
  BY <1>4 DEF Draft!Place
<1>6. \A k \in 1 .. n : place[k] \in P /\ Draft!Rank(P, place[k]) = k
  BY <1>5
<1>7. \A k \in 1 .. n : Draft!Keep(s, S)[k] = s[place[k]]
  BY <1>3
<1>8. DOMAIN Draft!Keep(s, S) = 1 .. n /\ place \in [1 .. n -> DOMAIN s]
  BY <1>1, <1>2, <1>3, <1>6
<1> HIDE DEF place, n
<1>9. Draft!Keep(s, S) \in Seq(T)
  <2>1. Draft!Keep(s, S) \in [1 .. n -> T]
    <3>1. \A k \in 1 .. n : s[Draft!Place(P, k)] \in T
      BY <1>1, <1>2, <1>5
    <3> QED
      BY <1>3, <3>1
  <2> QED
    BY <1>4, <2>1, SeqDef
<1>10. \A k, l \in 1 .. n : k < l => place[k] < place[l]
  <2> SUFFICES ASSUME NEW k \in 1 .. n, NEW l \in 1 .. n, k < l
               PROVE  place[k] < place[l]
    OBVIOUS
  <2>1. place[k] \in P /\ place[l] \in P /\ place[k] \in Int /\ place[l] \in Int
    BY <1>0, <1>6
  <2>2. place[l] < place[k] => l < k
    BY <1>4, <1>6, <2>1
  <2>3. place[l] = place[k] => l = k
    BY <1>6
  <2> QED
    BY <1>4, <2>1, <2>2, <2>3
<1>11. \A i \in P : \E k \in 1 .. n : s[place[k]] = s[i]
  <2> SUFFICES ASSUME NEW i \in P PROVE \E k \in 1 .. n : place[k] = i
    OBVIOUS
  <2>1. Draft!Rank(P, i) \in 1 .. n
    BY <1>4
  <2>2. place[Draft!Rank(P, i)] \in P /\ Draft!Rank(P, place[Draft!Rank(P, i)]) = Draft!Rank(P, i)
    BY <1>6, <2>1
  <2>3. place[Draft!Rank(P, i)] = i
    <3> DEFINE j == place[Draft!Rank(P, i)]
    <3>1. j \in P /\ j \in Int /\ i \in Int /\ Draft!Rank(P, j) = Draft!Rank(P, i)
      BY <1>0, <2>2
    <3> HIDE DEF j
    <3>2. ~(j < i) /\ ~(i < j)
      BY <1>4, <2>1, <3>1
    <3> QED
      BY <3>1, <3>2 DEF j
  <2> QED
    BY <2>1, <2>3
<1>12. \A i \in DOMAIN s : s[i] \in S => i \in P
  BY DEF P, Draft!PlacesOf
<1> QED
  BY <1>2, <1>6, <1>7, <1>8, <1>9, <1>10, <1>11, <1>12 DEF Keeps

LEMMA ListFacts ==
  ASSUME NEW s, IsList(s)
  PROVE  /\ Len(s) \in Nat /\ DOMAIN s = 1 .. Len(s)
         /\ \A i \in 1 .. Len(s) : s[i] \in Titles /\ s[i] \in Draft!Set(s)
         /\ \A x \in Draft!Set(s) : x \in Titles /\ \E i \in 1 .. Len(s) : s[i] = x
<1>1. /\ Len(s) \in Nat /\ DOMAIN s = 1 .. Len(s)
      /\ \A i \in 1 .. Len(s) : s[i] \in Titles
  BY SequenceFacts DEF IsList
<1> QED
  BY <1>1 DEF IsList, Draft!Set

LEMMA KeptList ==
  ASSUME NEW s, IsList(s), NEW S
  PROVE  IsList(Draft!Keep(s, S)) /\ Draft!Set(Draft!Keep(s, S)) = Draft!Set(s) \cap S
<1> DEFINE kept == Draft!Keep(s, S)
<1>1. kept \in Seq(Titles) /\ Keeps(kept, s, S)
  BY KeptEntries DEF IsList
<1> HIDE DEF kept
<1>2. PICK place \in [DOMAIN kept -> DOMAIN s] : \A k \in DOMAIN kept : kept[k] = s[place[k]]
  BY <1>1 DEF Keeps
<1>3. Draft!Set(kept) = Draft!Set(s) \cap S
  BY <1>1, <1>2 DEF Draft!Set, Keeps
<1> QED
  BY <1>1, <1>3 DEF IsList, kept

LEMMA JoinedList ==
  ASSUME NEW a, IsList(a), NEW b, IsList(b)
  PROVE  IsList(a \o b) /\ Draft!Set(a \o b) = Draft!Set(a) \cup Draft!Set(b)
<1> DEFINE m == Len(a)
           n == Len(b)
           both == a \o b
<1>1. /\ m \in Nat /\ n \in Nat /\ DOMAIN a = 1 .. m /\ DOMAIN b = 1 .. n
      /\ \A i \in 1 .. m : a[i] \in Draft!Set(a)
      /\ \A i \in 1 .. n : b[i] \in Draft!Set(b)
  BY ListFacts
<1>2. /\ both \in Seq(Titles) /\ Len(both) = m + n
      /\ \A i \in 1 .. m + n : both[i] = IF i <= m THEN a[i] ELSE b[i - m]
  BY ConcatProperties DEF IsList
<1>3. DOMAIN both = 1 .. m + n
  BY <1>2, SequenceFacts
<1> HIDE DEF both, m, n
<1>4. \A i \in 1 .. m + n : \/ i \in 1 .. m /\ both[i] = a[i]
                            \/ i - m \in 1 .. n /\ ~(i \in 1 .. m) /\ both[i] = b[i - m]
  BY <1>1, <1>2
<1>6. Draft!Set(both) \subseteq Draft!Set(a) \cup Draft!Set(b)
  BY <1>1, <1>3, <1>4 DEF Draft!Set
<1>7. ASSUME NEW i \in 1 .. m PROVE a[i] \in Draft!Set(both)
  <2>1. i \in 1 .. m + n /\ both[i] = a[i]
    BY <1>1, <1>2
  <2> QED
    BY <1>3, <2>1 DEF Draft!Set
<1>8. ASSUME NEW i \in 1 .. n PROVE b[i] \in Draft!Set(both)
  <2>1. i + m \in 1 .. m + n /\ both[i + m] = b[(i + m) - m]
    BY <1>1, <1>2
  <2>2. (i + m) - m = i
    BY <1>1
  <2> QED
    BY <1>3, <2>1, <2>2 DEF Draft!Set
<1>9. Draft!Set(a) \cup Draft!Set(b) \subseteq Draft!Set(both)
  BY <1>1, <1>7, <1>8 DEF Draft!Set
<1>10. IsList(both)
  BY <1>2 DEF IsList
<1> QED
  BY <1>6, <1>9, <1>10 DEF both

LEMMA PartOfList ==
  ASSUME NEW s, IsList(s), NEW m \in Nat, NEW n \in Nat, 1 <= m, n <= Len(s)
  PROVE  /\ IsList(SubSeq(s, m, n))
         /\ \A x : x \in Draft!Set(SubSeq(s, m, n)) <=> \E i \in m .. n : s[i] = x
<1> DEFINE slice == SubSeq(s, m, n)
           length == IF m <= n THEN n - m + 1 ELSE 0
<1>1. /\ Len(s) \in Nat /\ DOMAIN s = 1 .. Len(s)
      /\ \A i \in 1 .. Len(s) : s[i] \in Titles
  BY ListFacts
<1>2. m .. n \subseteq 1 .. Len(s)
  BY <1>1
<1>3. /\ slice \in Seq(Titles) /\ Len(slice) = length
      /\ \A i \in 1 .. n - m + 1 : slice[i] = s[m + i - 1]
  <2>1. \A i \in m .. n : s[i] \in Titles
    BY <1>1, <1>2
  <2> HIDE DEF slice
  <2> QED
    BY <2>1, SubSeqProperties DEF slice
<1>4. DOMAIN slice = 1 .. length
  BY <1>3, SequenceFacts
<1> HIDE DEF slice
<1>5. \A i \in 1 .. length : slice[i] = s[m + i - 1] /\ m + i - 1 \in m .. n
  BY <1>3
<1>7. ASSUME NEW i \in m .. n PROVE \E j \in 1 .. length : slice[j] = s[i]
  <2>1. i - m + 1 \in 1 .. length /\ m + (i - m + 1) - 1 = i
    OBVIOUS
  <2> HIDE DEF length
  <2> QED
    BY <1>5, <2>1
<1> HIDE DEF length
<1>8. IsList(slice)
  BY <1>3 DEF IsList
<1>9. \A x : x \in Draft!Set(slice) <=> \E i \in m .. n : s[i] = x
  BY <1>4, <1>5, <1>7 DEF Draft!Set
<1> QED
  BY <1>8, <1>9 DEF slice

(* Entries that are put between those that stay.                            *)
LEMMA InsertedList ==
  ASSUME NEW a, IsList(a), NEW b, IsList(b), NEW at \in 0 .. Len(a)
  PROVE  LET new == SubSeq(a, 1, at) \o b \o SubSeq(a, at + 1, Len(a))
         IN  IsList(new) /\ Draft!Set(new) = Draft!Set(a) \cup Draft!Set(b)
<1> DEFINE head == SubSeq(a, 1, at)
           tail == SubSeq(a, at + 1, Len(a))
<1>1. /\ Len(a) \in Nat /\ \A i \in 1 .. Len(a) : a[i] \in Draft!Set(a)
      /\ \A x \in Draft!Set(a) : \E i \in 1 .. Len(a) : a[i] = x
  BY ListFacts
<1>2. at \in Nat /\ at + 1 \in Nat /\ 1 <= at + 1 /\ at <= Len(a)
  BY <1>1
<1>3. IsList(head) /\ \A x : x \in Draft!Set(head) <=> \E i \in 1 .. at : a[i] = x
  BY <1>1, <1>2, PartOfList
<1>4. IsList(tail) /\ \A x : x \in Draft!Set(tail) <=> \E i \in at + 1 .. Len(a) : a[i] = x
  BY <1>1, <1>2, PartOfList
<1> HIDE DEF head, tail
<1>6. Draft!Set(head) \cup Draft!Set(tail) = Draft!Set(a)
  <2>1. \A i \in 1 .. Len(a) : i \in 1 .. at \/ i \in at + 1 .. Len(a)
    BY <1>1
  <2>2. 1 .. at \subseteq 1 .. Len(a) /\ at + 1 .. Len(a) \subseteq 1 .. Len(a)
    BY <1>1
  <2> QED
    BY <1>1, <1>3, <1>4, <2>1, <2>2
<1>7. IsList(head \o b) /\ Draft!Set(head \o b) = Draft!Set(head) \cup Draft!Set(b)
  BY <1>3, JoinedList
<1>8. /\ IsList((head \o b) \o tail)
      /\ Draft!Set((head \o b) \o tail) = Draft!Set(head) \cup Draft!Set(b) \cup Draft!Set(tail)
  BY <1>4, <1>7, JoinedList
<1> QED
  BY <1>6, <1>8 DEF head, tail

-----------------------------------------------------------------------------
(* OrderEditor: the draft.                                                   *)

RequestFields == {"operation", "revision", "ids", "read", "reply"}

(* A preview that is applied by merging still has all of the draft: whatever *)
(* changes the draft drops the preview, and the draft is loaded once, before *)
(* there is any.                                                             *)
PreviewFits ==
  preview # None =>
    /\ IsList(preview.ids)
    /\ preview.apply = "merge" => Draft!Set(ids) \subseteq Draft!Set(preview.ids)

ReadFits(read) ==
  DOMAIN read = {"revision", "ids", "at"} /\ IsList(read.ids) /\ read.at \in Nat

RequestFits ==
  request # None =>
    /\ DOMAIN request = RequestFields /\ IsList(request.ids)
    /\ request.read # None => ReadFits(request.read)
    /\ request.reply # None /\ request.reply.done => IsList(request.reply.ids)
    /\ request.operation = "load" => preview = None

DraftInv ==
  /\ IsList(ids) /\ IsList(server.ids) /\ selected \subseteq Titles
  /\ history \in Seq(Seq(Titles)) /\ \A i \in DOMAIN history : IsList(history[i])
  /\ PreviewFits
  /\ RequestFits

LEMMA SourceIsList ==
  ASSUME NEW s \in Sources
  PROVE  IsList(s)
<1>1. s \in Draft!Orders
  BY EditingAssumption
<1>2. s \in Seq(Titles)
  BY <1>1, EditingAssumption DEF Draft!Orders, Draft!Lists
<1> QED
  BY <1>2 DEF IsList

LEMMA EmptyIsList == IsList(<<>>)
BY EmptySeq DEF IsList

LEMMA DraftStarts == Draft!Init => DraftInv
<1> SUFFICES ASSUME Draft!Init PROVE DraftInv
  OBVIOUS
<1>1. IsList(server.ids)
  BY SourceIsList, EmptyIsList DEF Draft!Init
<1>2. history \in Seq(Seq(Titles)) /\ DOMAIN history = {}
  BY EmptySeq DEF Draft!Init
<1> QED
  BY <1>1, <1>2, EmptyIsList
     DEF Draft!Init, Draft!Request, DraftInv, PreviewFits, RequestFits, RequestFields

(* Where a moved selection ends up among the entries that stay.              *)
LEMMA MovedList ==
  ASSUME IsList(ids), selected \subseteq Titles,
         NEW before \in Draft!Set(ids) \cup {None}
  PROVE  LET new == Draft!MovedItems(ids, selected, before)
         IN  IsList(new) /\ Draft!Set(new) = Draft!Set(ids)
<1> DEFINE rest == Draft!Keep(ids, Titles \ selected)
           moved == Draft!Keep(ids, selected)
           at == IF before = None THEN Len(rest) ELSE Draft!Index(rest, before) - 1
<1>1. IsList(rest) /\ Draft!Set(rest) = Draft!Set(ids) \cap (Titles \ selected)
  BY KeptList
<1>2. IsList(moved) /\ Draft!Set(moved) = Draft!Set(ids) \cap selected
  BY KeptList
<1>3. Draft!Set(ids) \subseteq Titles
  BY ListFacts
<1>4. Draft!MovedItems(ids, selected, before)
        = IF before \in selected THEN ids
          ELSE SubSeq(rest, 1, at) \o moved \o SubSeq(rest, at + 1, Len(rest))
  BY DEF Draft!MovedItems
<1> HIDE DEF rest, moved
<1>5. Len(rest) \in Nat
  BY <1>1, ListFacts
<1>6. before \notin selected => at \in 0 .. Len(rest)
  <2>1. CASE before = None
    BY <1>5, <2>1
  <2>2. CASE before # None /\ before \notin selected
    <3>1. before \in Draft!Set(rest)
      BY <1>1, <1>3, <2>2
    <3>2. \E i \in DOMAIN rest : rest[i] = before
      BY <3>1 DEF Draft!Set
    <3> DEFINE places == {i \in DOMAIN rest : rest[i] = before}
    <3>3. Draft!Index(rest, before) \in 1 .. Len(rest)
      <4>1. DOMAIN rest = 1 .. Len(rest) /\ places \in SUBSET Nat /\ places # {}
        BY <1>1, <3>2, ListFacts
      <4> HIDE DEF places
      <4>2. Draft!Smallest(places) \in places
        BY <4>1, SmallestIsThere
      <4> QED
        BY <4>1, <4>2 DEF places, Draft!Index
    <3> QED
      BY <1>5, <2>2, <3>3
  <2> QED
    BY <2>1, <2>2
<1> HIDE DEF at
<1>7. CASE before \notin selected
  <2> DEFINE new == SubSeq(rest, 1, at) \o moved \o SubSeq(rest, at + 1, Len(rest))
  <2>1. IsList(new) /\ Draft!Set(new) = Draft!Set(rest) \cup Draft!Set(moved)
    BY <1>1, <1>2, <1>6, <1>7, InsertedList
  <2> HIDE DEF new
  <2>2. Draft!MovedItems(ids, selected, before) = new
    BY <1>4, <1>7 DEF new
  <2> QED
    BY <1>1, <1>2, <1>3, <2>1, <2>2
<1> QED
  BY <1>4, <1>7

(* A row starts at a place of the draft, wherever it is looked for.          *)
LEMMA RowsAreThere ==
  ASSUME IsList(ids)
  PROVE  /\ Len(ids) \in Nat /\ DOMAIN ids = 1 .. Len(ids)
         /\ Draft!RowStarts \in SUBSET (1 .. Len(ids))
         /\ Len(ids) > 0 => 1 \in Draft!RowStarts
<1>1. Len(ids) \in Nat /\ DOMAIN ids = 1 .. Len(ids)
  BY ListFacts
<1>2. Draft!RowStarts \in SUBSET (1 .. Len(ids))
  BY <1>1 DEF Draft!RowStarts
<1>3. Len(ids) > 0 => 1 \in Draft!RowStarts
  BY <1>1 DEF Draft!RowStarts, Draft!GroupStarts
<1> QED
  BY <1>1, <1>2, <1>3

LEMMA MoveUpMoves ==
  ASSUME IsList(ids), Draft!MoveUp
  PROVE  \E before \in Draft!Set(ids) \cup {None} : Draft!MoveBefore(before)
<1> DEFINE edge == Draft!Smallest(Draft!SelectedRows)
           above == {r \in Draft!RowStarts : r <= edge - 1}
<1>1. Draft!SelectedRows # {} /\ edge # 1 /\ Draft!MoveBefore(ids[Draft!Largest(above)])
  BY DEF Draft!MoveUp, Draft!RowStart
<1>2. Draft!SelectedRows \in SUBSET (1 .. Len(ids)) /\ Draft!SelectedRows \in SUBSET Nat
  BY RowsAreThere DEF Draft!SelectedRows
<1>3. edge \in 1 .. Len(ids) /\ Len(ids) \in Nat
  BY <1>1, <1>2, SmallestIsThere, RowsAreThere
<1>4. 1 \in above
  BY <1>1, <1>3, RowsAreThere
<1>5. above \in SUBSET (0 .. Len(ids)) /\ above # {}
  BY <1>4, RowsAreThere
<1>6. Draft!Largest(above) \in above
  <2> HIDE DEF above
  <2> QED
    BY <1>3, <1>5, LargestIsThere
<1>7. Draft!Largest(above) \in DOMAIN ids
  BY <1>6, RowsAreThere
<1> QED
  BY <1>1, <1>7 DEF Draft!Set

LEMMA MoveDownMoves ==
  ASSUME IsList(ids), Draft!MoveDown
  PROVE  \E before \in Draft!Set(ids) \cup {None} : Draft!MoveBefore(before)
<1> DEFINE edge == Draft!Largest(Draft!SelectedRows)
           below == {r \in Draft!RowStarts : r > edge}
           beyond == below \ {Draft!Smallest(below)}
<1>1. Draft!MoveBefore(IF beyond = {} THEN None ELSE ids[Draft!Smallest(beyond)])
  BY DEF Draft!MoveDown
<1>2. beyond \in SUBSET Nat /\ beyond \subseteq DOMAIN ids
  BY RowsAreThere
<1>3. beyond # {} => Draft!Smallest(beyond) \in DOMAIN ids
  <2> HIDE DEF beyond
  <2> QED
    BY <1>2, SmallestIsThere
<1> QED
  BY <1>1, <1>3 DEF Draft!Set

LEMMA MoveToMoves ==
  ASSUME Draft!MoveTo
  PROVE  \E before \in Draft!Set(ids) \cup {None} : Draft!MoveBefore(before)
BY DEF Draft!MoveTo

(* An edit puts the draft into the history, at most HistoryLimit of them.    *)
LEMMA HistoryKept ==
  ASSUME IsList(ids), history \in Seq(Seq(Titles)), \A i \in DOMAIN history : IsList(history[i]),
         NEW kept, kept = (LET all == Append(history, ids)
                           IN  IF Len(all) > HistoryLimit THEN Tail(all) ELSE all)
  PROVE  kept \in Seq(Seq(Titles)) /\ \A i \in DOMAIN kept : IsList(kept[i])
<1> DEFINE all == Append(history, ids)
           n == Len(history)
<1>1. n \in Nat /\ DOMAIN history = 1 .. n
  BY SequenceFacts
<1>2. /\ all \in Seq(Seq(Titles)) /\ Len(all) = n + 1
      /\ \A i \in 1 .. n + 1 : all[i] = IF i <= n THEN history[i] ELSE ids
  BY <1>1, AppendProperties DEF IsList
<1> HIDE DEF all, n
<1>3. DOMAIN all = 1 .. n + 1 /\ \A i \in 1 .. n + 1 : IsList(all[i])
  <2>1. \A i \in 1 .. n + 1 : i <= n => i \in 1 .. n
    BY <1>1
  <2>2. DOMAIN all = 1 .. n + 1
    BY <1>2, SequenceFacts
  <2> QED
    BY <1>1, <1>2, <2>1, <2>2
<1>4. all # <<>>
  BY <1>1, <1>2, EmptySeq
<1>5. /\ Tail(all) \in Seq(Seq(Titles)) /\ Len(Tail(all)) = n
      /\ \A i \in 1 .. n : Tail(all)[i] = all[i + 1]
  BY <1>1, <1>2, <1>4, HeadTailProperties
<1>6. DOMAIN Tail(all) = 1 .. n /\ \A i \in 1 .. n : IsList(Tail(all)[i])
  <2>1. \A i \in 1 .. n : i + 1 \in 1 .. n + 1
    BY <1>1
  <2>2. DOMAIN Tail(all) = 1 .. n
    BY <1>5, SequenceFacts
  <2> QED
    BY <1>3, <1>5, <2>1, <2>2
<1>7. kept = all \/ kept = Tail(all)
  BY DEF all
<1> QED
  BY <1>2, <1>3, <1>5, <1>6, <1>7

LEMMA EditKeeps ==
  ASSUME DraftInv, NEW new, IsList(new), Draft!SetSequence(new)
  PROVE  DraftInv'
<1>1. /\ ids' = new /\ server' = server /\ request' = request /\ preview' = None
      /\ selected' \subseteq selected
  BY DEF Draft!SetSequence, Draft!saved, Draft!PreviewAfterEdit
<1>2. history' = LET all == Append(history, ids)
                 IN  IF Len(all) > HistoryLimit THEN Tail(all) ELSE all
  BY DEF Draft!SetSequence
<1>3. history' \in Seq(Seq(Titles)) /\ \A i \in DOMAIN history' : IsList(history'[i])
  BY <1>2, HistoryKept DEF DraftInv
<1>4. PreviewFits' /\ RequestFits'
  BY <1>1 DEF DraftInv, PreviewFits, RequestFits, ReadFits
<1> QED
  BY <1>1, <1>3, <1>4 DEF DraftInv

LEMMA MoveKeeps ==
  ASSUME DraftInv, NEW before \in Draft!Set(ids) \cup {None}, Draft!MoveBefore(before)
  PROVE  DraftInv' /\ Draft!Set(ids') = Draft!Set(ids)
<1> DEFINE new == Draft!MovedItems(ids, selected, before)
<1>1. IsList(new) /\ Draft!Set(new) = Draft!Set(ids)
  BY MovedList DEF DraftInv
<1>2. Draft!SetSequence(new) /\ ids' = new
  BY DEF Draft!MoveBefore, Draft!SetSequence
<1> HIDE DEF new
<1> QED
  BY <1>1, <1>2, EditKeeps

LEMMA AddKeeps ==
  ASSUME DraftInv, NEW source \in Sources, NEW first \in DOMAIN source, NEW last \in DOMAIN source,
         Draft!AddRange(source, first, last)
  PROVE  DraftInv'
<1> DEFINE range == SubSeq(source, first, last)
           news == Draft!Keep(range, Titles \ Draft!Set(ids))
           places == {i \in DOMAIN ids : ids[i] \in selected}
           at == IF selected \cap Draft!Set(ids) = {} THEN Len(ids) ELSE Draft!Smallest(places) - 1
           new == SubSeq(ids, 1, at) \o news \o SubSeq(ids, at + 1, Len(ids))
<1>1. IsList(range)
  <2>1. IsList(source)
    BY SourceIsList
  <2>2. first \in Nat /\ last \in Nat /\ 1 <= first /\ last <= Len(source)
    BY <2>1, ListFacts
  <2> QED
    BY <2>1, <2>2, PartOfList
<1>2. IsList(news) /\ Draft!Set(news) = Draft!Set(range) \cap (Titles \ Draft!Set(ids))
  BY <1>1, KeptList
<1>3. Draft!SetSequence(new)
  BY DEF Draft!AddRange, Draft!AddItems
<1> HIDE DEF news, range
<1>4. IsList(ids) /\ Len(ids) \in Nat /\ DOMAIN ids = 1 .. Len(ids)
  BY ListFacts DEF DraftInv
<1>5. at \in 0 .. Len(ids)
  <2>1. CASE selected \cap Draft!Set(ids) = {}
    BY <1>4, <2>1
  <2>2. CASE selected \cap Draft!Set(ids) # {}
    <3>1. places # {} /\ places \in SUBSET Nat /\ places \subseteq 1 .. Len(ids)
      BY <1>4, <2>2 DEF Draft!Set
    <3>2. Draft!Smallest(places) \in 1 .. Len(ids)
      <4> HIDE DEF places
      <4> QED
        BY <3>1, SmallestIsThere
    <3> QED
      BY <1>4, <2>2, <3>2
  <2> QED
    BY <2>1, <2>2
<1> HIDE DEF at, places
<1>6. IsList(new)
  BY <1>2, <1>4, <1>5, InsertedList
<1> HIDE DEF new
<1> QED
  BY <1>3, <1>6, EditKeeps

LEMMA RemoveKeeps ==
  ASSUME DraftInv, Draft!Remove
  PROVE  DraftInv'
<1>1. IsList(Draft!Keep(ids, Titles \ selected))
  BY KeptList DEF DraftInv
<1> QED
  BY <1>1, EditKeeps DEF Draft!Remove

LEMMA UndoKeeps ==
  ASSUME DraftInv, Draft!Undo
  PROVE  DraftInv'
<1> DEFINE n == Len(history)
<1>1. n \in Nat /\ DOMAIN history = 1 .. n /\ history # <<>> /\ n # 0
  BY SequenceFacts, EmptySeq DEF DraftInv, Draft!Undo
<1>2. /\ ids' = history[n] /\ history' = SubSeq(history, 1, n - 1)
      /\ selected' = {} /\ preview' = None /\ server' = server /\ request' = request
  BY DEF Draft!Undo, Draft!saved
<1> HIDE DEF n
<1>3. IsList(ids')
  BY <1>1, <1>2 DEF DraftInv
<1>4. history' \in Seq(Seq(Titles)) /\ \A i \in DOMAIN history' : IsList(history'[i])
  <2>1. \A i \in 1 .. n - 1 : i \in 1 .. n
    BY <1>1
  <2>2. \A i \in 1 .. n : history[i] \in Seq(Titles) /\ IsList(history[i])
    BY <1>1 DEF DraftInv, IsList
  <2>3. /\ history' \in Seq(Seq(Titles)) /\ Len(history') = n - 1
        /\ \A i \in 1 .. (n - 1) - 1 + 1 : history'[i] = history[1 + i - 1]
    BY <1>1, <1>2, <2>1, <2>2, SubSeqProperties
  <2>4. \A i \in 1 .. n - 1 : history'[i] = history[i]
    BY <1>1, <2>3
  <2>5. DOMAIN history' = 1 .. n - 1
    BY <2>3, SequenceFacts
  <2> QED
    BY <2>1, <2>2, <2>3, <2>4, <2>5
<1> QED
  BY <1>2, <1>3, <1>4 DEF DraftInv, PreviewFits, RequestFits, ReadFits

(* A step that leaves the draft, its history and its preview alone.          *)
LEMMA DraftUntouched ==
  ASSUME DraftInv, ids' = ids, history' = history, preview' = preview,
         IsList(server'.ids), selected' \subseteq Titles, RequestFits'
  PROVE  DraftInv'
BY DEF DraftInv, PreviewFits

LEMMA SelectKeeps ==
  ASSUME DraftInv, NEW from \in DOMAIN ids, NEW to \in DOMAIN ids, NEW checked \in BOOLEAN,
         Draft!Select(from, to, checked)
  PROVE  DraftInv'
<1> DEFINE chosen == {ids[i] : i \in from .. to}
<1>1. IsList(ids) /\ DOMAIN ids = 1 .. Len(ids) /\ Len(ids) \in Nat
      /\ \A i \in 1 .. Len(ids) : ids[i] \in Titles
  BY ListFacts DEF DraftInv
<1>2. chosen \subseteq Titles
  <2>1. from .. to \subseteq 1 .. Len(ids)
    BY <1>1
  <2> QED
    BY <1>1, <2>1
<1>3. selected' = IF checked THEN selected \cup chosen ELSE selected \ chosen
  BY DEF Draft!Select
<1> HIDE DEF chosen
<1>4. selected' \subseteq Titles
  BY <1>2, <1>3 DEF DraftInv
<1> QED
  BY <1>4, DraftUntouched DEF Draft!Select, Draft!saved, DraftInv, RequestFits, ReadFits

LEMMA SendKeeps ==
  ASSUME DraftInv, NEW operation, operation # "load", Draft!Send(operation)
  PROVE  DraftInv'
<1>1. request' = Draft!Request(operation, draftRevision)
  BY DEF Draft!Send
<1>2. /\ DOMAIN request' = RequestFields /\ request'.ids = ids
      /\ request'.read = None /\ request'.reply = None /\ request'.operation = operation
  BY <1>1 DEF RequestFields, Draft!Request
<1>3. RequestFits'
  BY <1>2 DEF RequestFits, DraftInv
<1> QED
  BY <1>3, DraftUntouched DEF Draft!Send, Draft!draft, DraftInv

LEMMA RetryKeeps ==
  ASSUME DraftInv, Draft!RetrySave
  PROVE  DraftInv'
<1> DEFINE sending == Draft!Request("save", draftRevision')
<1>1. request' = None \/ request' = sending
  BY DEF Draft!RetrySave
<1>2. /\ DOMAIN sending = RequestFields /\ sending.ids = ids
      /\ sending.read = None /\ sending.reply = None /\ sending.operation = "save"
  BY DEF RequestFields, Draft!Request
<1> HIDE DEF sending
<1>3. RequestFits'
  BY <1>1, <1>2 DEF RequestFits, DraftInv, Draft!RetrySave
<1> QED
  BY <1>3, DraftUntouched DEF Draft!RetrySave, DraftInv

(* A request that is served only changes what has been read or answered.     *)
LEMMA RequestServed ==
  ASSUME DraftInv, request # None,
         ids' = ids, history' = history, preview' = preview, selected' = selected,
         IsList(server'.ids), DOMAIN request' = RequestFields, request'.ids = request.ids,
         request'.operation = request.operation,
         request'.read # None => ReadFits(request'.read),
         request'.reply # None /\ request'.reply.done => IsList(request'.reply.ids)
  PROVE  DraftInv'
<1>1. RequestFits'
  BY DEF DraftInv, RequestFits, ReadFits
<1> QED
  BY <1>1, DraftUntouched DEF DraftInv

(* What a page adds, and where the next one starts.                          *)
LEMMA PageRead ==
  ASSUME DraftInv, Draft!ReadPage
  PROVE  \E from, upTo \in Nat, list \in Seq(Titles) :
           /\ 1 <= from /\ upTo <= Len(server.ids)
           /\ \/ from = request.read.at + 1
              \/ /\ from = request.read.at /\ from \in DOMAIN server.ids
                 /\ server.ids[from] # request.read.ids[Len(request.read.ids)]
           /\ upTo < from => upTo = Len(server.ids)
           /\ list = request.read.ids \o SubSeq(server.ids, from, upTo) /\ IsList(list)
           /\ IF upTo < Len(server.ids)
              THEN request' = [request EXCEPT !.read = [@ EXCEPT !.ids = list, !.at = upTo]]
              ELSE request' = [request EXCEPT !.reply =
                       [done |-> TRUE, revision |-> Draft!Told(request.read), ids |-> list]]
<1>1. PICK from \in {request.read.at, request.read.at + 1} :
        /\ from = request.read.at => /\ from \in DOMAIN server.ids
                                     /\ server.ids[from] # request.read.ids[Len(request.read.ids)]
        /\ LET upTo == Draft!Smallest({from + EntryPage - 1, Len(server.ids)})
               list == request.read.ids \o SubSeq(server.ids, from, upTo)
           IN  request' = IF upTo < Len(server.ids)
                          THEN [request EXCEPT !.read = [@ EXCEPT !.ids = list, !.at = upTo]]
                          ELSE [request EXCEPT !.reply =
                                  [done |-> TRUE, revision |-> Draft!Told(request.read), ids |-> list]]
  BY DEF Draft!ReadPage
<1>2. /\ request # None /\ request.read # None /\ IsList(server.ids)
      /\ request.read.at \in Nat /\ IsList(request.read.ids)
  BY DEF Draft!ReadPage, DraftInv, RequestFits, ReadFits
<1>3. Len(server.ids) \in Nat /\ DOMAIN server.ids = 1 .. Len(server.ids) /\ EntryPage \in Nat \ {0}
  BY <1>2, ListFacts, EditingAssumption
<1>4. from \in Nat /\ 1 <= from
  BY <1>1, <1>2, <1>3
<1> DEFINE ends == {from + EntryPage - 1, Len(server.ids)}
           upTo == Draft!Smallest(ends)
           list == request.read.ids \o SubSeq(server.ids, from, upTo)
<1>5. /\ upTo \in Nat /\ upTo <= Len(server.ids) /\ upTo <= from + EntryPage - 1
      /\ upTo \in {from + EntryPage - 1, Len(server.ids)}
  <2>1. ends \in SUBSET Nat /\ ends # {}
    BY <1>3, <1>4
  <2>2. upTo \in ends /\ \A j \in ends : upTo <= j
    <3> HIDE DEF ends
    <3> QED
      BY <2>1, SmallestIsThere
  <2> QED
    BY <2>1, <2>2
<1>6. request' = IF upTo < Len(server.ids)
                 THEN [request EXCEPT !.read = [@ EXCEPT !.ids = list, !.at = upTo]]
                 ELSE [request EXCEPT !.reply =
                         [done |-> TRUE, revision |-> Draft!Told(request.read), ids |-> list]]
  BY <1>1
<1> HIDE DEF upTo
<1>7. upTo < from => upTo = Len(server.ids)
  BY <1>3, <1>4, <1>5
<1>8. IsList(list)
  BY <1>2, <1>4, <1>5, PartOfList, JoinedList
<1> HIDE DEF list
<1>9. list = request.read.ids \o SubSeq(server.ids, from, upTo)
  BY DEF list
<1>10. \/ from = request.read.at + 1
       \/ /\ from = request.read.at /\ from \in DOMAIN server.ids
          /\ server.ids[from] # request.read.ids[Len(request.read.ids)]
  BY <1>1
<1>11. from \in Nat /\ upTo \in Nat /\ list \in Seq(Titles)
  BY <1>4, <1>5, <1>8 DEF IsList
<1> USE <1>11
<1> WITNESS from \in Nat, upTo \in Nat, list \in Seq(Titles)
<1> QED
  BY <1>4, <1>5, <1>6, <1>7, <1>8, <1>9, <1>10

LEMMA ReadKeeps ==
  ASSUME DraftInv, Draft!ReadRevision \/ Draft!ReadPage
  PROVE  DraftInv'
<1>1. /\ request # None /\ server' = server /\ ids' = ids /\ history' = history
      /\ preview' = preview /\ selected' = selected
  BY DEF Draft!ReadRevision, Draft!ReadPage, Draft!draft
<1>2. /\ DOMAIN request = RequestFields /\ IsList(server.ids) /\ IsList(server'.ids)
      /\ request.read # None => ReadFits(request.read)
      /\ request.reply # None /\ request.reply.done => IsList(request.reply.ids)
  BY <1>1 DEF DraftInv, RequestFits, ReadFits
<1>3. CASE Draft!ReadRevision
  <2> DEFINE read == [revision |-> server.revision, ids |-> <<>>, at |-> 0]
  <2>1. request' = [request EXCEPT !.read = read]
    BY <1>3 DEF Draft!ReadRevision
  <2>2. ReadFits(read)
    BY EmptyIsList DEF ReadFits
  <2> HIDE DEF read
  <2>3. /\ DOMAIN request' = RequestFields /\ request'.ids = request.ids
        /\ request'.operation = request.operation /\ request'.read = read
        /\ request'.reply = request.reply
    BY <1>2, <2>1 DEF RequestFields
  <2> QED
    BY <1>1, <1>2, <2>2, <2>3, RequestServed
<1>4. CASE Draft!ReadPage
  <2>1. request.read # None /\ request.reply = None /\ ReadFits(request.read)
    BY <1>2, <1>4 DEF Draft!ReadPage
  <2>2. PICK upTo \in Nat, list \in Seq(Titles) :
          /\ IsList(list)
          /\ \/ request' = [request EXCEPT !.read = [@ EXCEPT !.ids = list, !.at = upTo]]
             \/ request' = [request EXCEPT !.reply =
                      [done |-> TRUE, revision |-> Draft!Told(request.read), ids |-> list]]
    BY <1>4, PageRead
  <2>3. CASE request' = [request EXCEPT !.read = [@ EXCEPT !.ids = list, !.at = upTo]]
    <3> DEFINE read == [request.read EXCEPT !.ids = list, !.at = upTo]
    <3>1. request' = [request EXCEPT !.read = read]
      BY <1>2, <2>3 DEF RequestFields
    <3>2. ReadFits(read)
      BY <2>1, <2>2 DEF ReadFits
    <3> HIDE DEF read
    <3>3. /\ DOMAIN request' = RequestFields /\ request'.ids = request.ids
          /\ request'.operation = request.operation /\ request'.read = read
          /\ request'.reply = request.reply
      BY <1>2, <3>1 DEF RequestFields
    <3> QED
      BY <1>1, <1>2, <3>2, <3>3, RequestServed
  <2>4. CASE request' = [request EXCEPT !.reply =
                  [done |-> TRUE, revision |-> Draft!Told(request.read), ids |-> list]]
    <3> DEFINE reply == [done |-> TRUE, revision |-> Draft!Told(request.read), ids |-> list]
    <3>1. reply.ids = list
      OBVIOUS
    <3> HIDE DEF reply
    <3>2. /\ DOMAIN request' = RequestFields /\ request'.ids = request.ids
          /\ request'.operation = request.operation /\ request'.read = request.read
          /\ request'.reply = reply
      BY <1>2, <2>4 DEF RequestFields, reply
    <3> QED
      BY <1>1, <1>2, <2>2, <3>1, <3>2, RequestServed
  <2> QED
    BY <2>2, <2>3, <2>4
<1> QED
  BY <1>3, <1>4

LEMMA ServedKeeps ==
  ASSUME DraftInv, Draft!SaveServed \/ Draft!PreviewServed
  PROVE  DraftInv'
<1>1. /\ request # None /\ ids' = ids /\ history' = history
      /\ preview' = preview /\ selected' = selected
  BY DEF Draft!SaveServed, Draft!PreviewServed, Draft!draft
<1>2. /\ DOMAIN request = RequestFields /\ IsList(request.ids) /\ IsList(server.ids)
      /\ request.read # None => ReadFits(request.read)
  BY <1>1 DEF DraftInv, RequestFits, ReadFits
<1> DEFINE Result(s, r) == [done |-> TRUE, revision |-> r, ids |-> s]
           Failure(c) == [done |-> FALSE, conflict |-> c]
<1>3. /\ \/ \E s, r : IsList(s) /\ request' = [request EXCEPT !.reply = Result(s, r)]
         \/ \E c : request' = [request EXCEPT !.reply = Failure(c)]
      /\ IsList(server'.ids)
  <2>1. CASE Draft!SaveServed
    <3>1. \/ /\ server' = [revision |-> server.revision + 1, ids |-> request.ids]
             /\ request' = [request EXCEPT !.reply = Result(request.ids, server.revision + 1)]
          \/ /\ request' = [request EXCEPT !.reply = Failure(Draft!Distinct(request.ids))]
             /\ server' = server
      BY <2>1 DEF Draft!SaveServed
    <3>2. IsList([revision |-> server.revision + 1, ids |-> request.ids].ids)
      BY <1>2
    <3> HIDE DEF Result, Failure
    <3> QED
      BY <1>2, <3>1, <3>2
  <2>2. CASE Draft!PreviewServed
    <3>1. /\ server' = server
          /\ \/ \E source \in Sources :
                  request' = [request EXCEPT !.reply = Result(source, server.revision)]
             \/ request' = [request EXCEPT !.reply = Failure(TRUE)]
      BY <2>2 DEF Draft!PreviewServed
    <3> HIDE DEF Result, Failure
    <3> QED
      BY <1>2, <3>1, SourceIsList
  <2> QED
    BY <2>1, <2>2
<1>4. ASSUME NEW reply, request' = [request EXCEPT !.reply = reply],
             reply.done => IsList(reply.ids)
      PROVE  DraftInv'
  <2>1. /\ DOMAIN request' = RequestFields /\ request'.ids = request.ids
        /\ request'.operation = request.operation /\ request'.read = request.read
        /\ request'.reply = reply
    BY <1>2, <1>4 DEF RequestFields
  <2> QED
    BY <1>1, <1>2, <1>3, <1>4, <2>1, RequestServed
<1>5. \A s, r : Result(s, r).ids = s
  OBVIOUS
<1>6. \A c : Failure(c).done = FALSE
  OBVIOUS
<1> HIDE DEF Result, Failure
<1> QED
  BY <1>3, <1>4, <1>5, <1>6

(* A preview that arrives for merging is the draft and what it lacks.        *)
LEMMA MergedList ==
  ASSUME IsList(ids), NEW made, IsList(made)
  PROVE  LET all == ids \o Draft!Keep(made, Titles \ Draft!Set(ids))
         IN  IsList(all) /\ Draft!Set(ids) \subseteq Draft!Set(all)
<1> DEFINE news == Draft!Keep(made, Titles \ Draft!Set(ids))
<1>1. IsList(news) /\ Draft!Set(news) = Draft!Set(made) \cap (Titles \ Draft!Set(ids))
  BY KeptList
<1> HIDE DEF news
<1>2. IsList(ids \o news) /\ Draft!Set(ids \o news) = Draft!Set(ids) \cup Draft!Set(news)
  BY <1>1, JoinedList
<1> QED
  BY <1>2 DEF news

LEMMA AnsweredKeeps ==
  ASSUME DraftInv, NEW delivered \in BOOLEAN, Draft!Answered(delivered)
  PROVE  DraftInv'
<1>1. /\ request # None /\ request' = None /\ server' = server /\ selected' = selected
      /\ delivered => request.reply # None
  BY DEF Draft!Answered
<1>2. RequestFits' /\ IsList(server'.ids) /\ selected' \subseteq Titles
  BY <1>1 DEF RequestFits, DraftInv
<1>3. /\ IsList(ids) /\ IsList(request.ids)
      /\ request.reply # None /\ request.reply.done => IsList(request.reply.ids)
      /\ request.operation = "load" => preview = None
  BY <1>1 DEF DraftInv, RequestFits, ReadFits
<1>4. CASE delivered /\ request.reply.done
  <2>1. IsList(request.reply.ids)
    BY <1>1, <1>3, <1>4
  <2>2. CASE Draft!Loaded
    <3>1. ids' = request.reply.ids /\ history' = history /\ preview' = None
      BY <1>3, <2>2 DEF Draft!Loaded
    <3> QED
      BY <1>2, <2>1, <3>1 DEF DraftInv, PreviewFits
  <2>3. CASE Draft!Saved
    <3>1. ids' = ids /\ history' = <<>> /\ preview' = preview
      BY <2>3 DEF Draft!Saved
    <3>2. history' \in Seq(Seq(Titles)) /\ DOMAIN history' = {}
      BY <3>1, EmptySeq
    <3> QED
      BY <1>2, <3>1, <3>2 DEF DraftInv, PreviewFits
  <2>4. CASE Draft!Reviewed
    BY <1>2, <2>4, DraftUntouched DEF Draft!Reviewed
  <2>5. CASE Draft!Previewed
    <3> DEFINE all == ids \o Draft!Keep(request.reply.ids, Titles \ Draft!Set(ids))
               made == IF request.operation = "merge" THEN all ELSE request.reply.ids
    <3>1. ids' = ids /\ history' = history /\ preview' = [apply |-> request.operation, ids |-> made]
      BY <2>5 DEF Draft!Previewed
    <3>2. IsList(all) /\ Draft!Set(ids) \subseteq Draft!Set(all)
      BY <1>3, <2>1, MergedList
    <3> HIDE DEF all
    <3>3. preview'.apply = request.operation /\ preview'.ids = made
      BY <3>1
    <3>4. PreviewFits'
      BY <2>1, <3>1, <3>2, <3>3 DEF PreviewFits
    <3> QED
      BY <1>2, <3>1, <3>4 DEF DraftInv
  <2> QED
    BY <1>4, <2>2, <2>3, <2>4, <2>5 DEF Draft!Answered
<1>5. CASE ~(delivered /\ request.reply.done)
  <2>1. Draft!Failed(delivered)
    BY <1>5 DEF Draft!Answered
  <2> QED
    BY <1>2, <2>1, DraftUntouched DEF Draft!Failed
<1> QED
  BY <1>4, <1>5

LEMMA DropKeeps ==
  ASSUME DraftInv, Draft!DropPreview
  PROVE  DraftInv'
BY DEF Draft!DropPreview, Draft!saved, DraftInv, PreviewFits, RequestFits, ReadFits

LEMMA OthersKeep ==
  ASSUME DraftInv, NEW order \in Sources, Draft!OthersSave(order)
  PROVE  DraftInv'
<1>1. server' = [revision |-> server.revision + 1, ids |-> order]
  BY DEF Draft!OthersSave
<1>2. IsList(server'.ids)
  BY <1>1, SourceIsList
<1> QED
  BY <1>2, DraftUntouched DEF Draft!OthersSave, Draft!draft, DraftInv, RequestFits, ReadFits

LEMMA UsePreviewKeeps ==
  ASSUME DraftInv, Draft!UsePreview
  PROVE  DraftInv' /\ (preview.apply = "merge" => Draft!Set(ids) \subseteq Draft!Set(ids'))
<1>1. preview # None /\ Draft!SetSequence(preview.ids) /\ ids' = preview.ids
  BY DEF Draft!UsePreview, Draft!SetSequence
<1> QED
  BY <1>1, EditKeeps DEF DraftInv, PreviewFits

LEMMA DraftStep == DraftInv /\ [Draft!Next]_(Draft!vars) => DraftInv'
<1> SUFFICES ASSUME DraftInv, [Draft!Next]_(Draft!vars) PROVE DraftInv'
  OBVIOUS
<1>1. CASE Draft!MoveUp \/ Draft!MoveDown \/ Draft!MoveTo
  BY <1>1, MoveUpMoves, MoveDownMoves, MoveToMoves, MoveKeeps DEF DraftInv
<1>2. ASSUME NEW i \in DOMAIN ids, Draft!Expand(i) PROVE DraftInv'
  BY <1>2, DraftUntouched DEF Draft!Expand, Draft!saved, DraftInv, RequestFits, ReadFits
<1>3. CASE Draft!Save \/ Draft!ReviewSaved
  BY <1>3, SendKeeps DEF Draft!Save, Draft!ReviewSaved
<1>4. ASSUME NEW apply \in {"replace", "merge"}, Draft!PreviewDates(apply) PROVE DraftInv'
  BY <1>4, SendKeeps DEF Draft!PreviewDates
<1>5. CASE UNCHANGED Draft!vars
  BY <1>5, DraftUntouched DEF Draft!vars, DraftInv, RequestFits, ReadFits
<1> QED
  BY <1>1, <1>2, <1>3, <1>4, <1>5, RemoveKeeps, UndoKeeps, UsePreviewKeeps, DropKeeps, AddKeeps,
     SelectKeeps, RetryKeeps, ReadKeeps, ServedKeeps, AnsweredKeeps, OthersKeep
     DEF Draft!Next

LEMMA DraftAlways == Draft!Spec => []DraftInv
BY DraftStarts, DraftStep, PTL DEF Draft!Spec

LEMMA DraftAlwaysHere == EditingSpec => [](part = "draft" => DraftInv)
<1> DEFINE Inv == part = "draft" => DraftInv
<1>1. EditingInit => Inv
  BY DraftStarts DEF EditingInit
<1>2. Inv /\ [EditingNext]_editingVars => Inv'
  <2> SUFFICES ASSUME Inv, [EditingNext]_editingVars, part' = "draft"
               PROVE  DraftInv'
    OBVIOUS
  <2>1. part = "draft" /\ [Draft!Next]_(Draft!vars)
    BY DEF EditingNext, editingVars, draftVars, Draft!vars
  <2> QED
    BY <2>1, DraftStep
<1> QED
  BY <1>1, <1>2, PTL DEF EditingSpec

-----------------------------------------------------------------------------
(* OrderEditor: the saved order that the viewer was shown.                   *)

(* A list was shown for a revision of the order s: if it is the revision     *)
(* that s has now, the list is its entries.                                  *)
SeenAt(s, r, list) ==
  r \in Nat /\ r <= s.revision /\ (r = s.revision => list = s.ids)

(* What has been read so far is the beginning of the order, unless it was    *)
(* saved anew since its revision was read.                                   *)
ReadSeen(s, read) ==
  /\ read.revision \in Nat /\ read.revision <= s.revision
  /\ read.revision = s.revision =>
       read.at <= Len(s.ids) /\ read.ids = SubSeq(s.ids, 1, read.at)

RequestSeen(s, q) ==
  /\ q.read # None => ReadSeen(s, q.read)
  /\ q.reply # None /\ q.reply.done =>
       /\ q.operation \in {"load", "review"} => SeenAt(s, q.reply.revision, q.reply.ids)
       /\ q.operation = "save" => SeenAt(s, q.reply.revision, q.ids)

SeenInv ==
  /\ server.revision \in Nat
  /\ baseline # None => SeenAt(server, draftRevision, seen)
  /\ reviewed # None => SeenAt(server, reviewed.revision, reviewed.ids)
  /\ request # None =>
       /\ RequestSeen(server, request)
       /\ request.read # None => request.operation # "save"
       /\ request.operation = "save" => baseline # None /\ request.revision = draftRevision

LEMMA SeenStarts == Draft!Init => SeenInv
BY DEF Draft!Init, Draft!Request, SeenInv, RequestSeen

(* An order that is saved anew has a revision that nobody was shown.         *)
LEMMA SeenBefore ==
  ASSUME NEW s, NEW t, s.revision \in Nat, t.revision = s.revision + 1
  PROVE  /\ \A r, list : SeenAt(s, r, list) => SeenAt(t, r, list)
         /\ \A read : ReadSeen(s, read) => ReadSeen(t, read)
         /\ \A q : RequestSeen(s, q) => RequestSeen(t, q)
BY DEF SeenAt, ReadSeen, RequestSeen

(* Acts of the viewer that send nothing.                                     *)
LEMMA SavedKeepsSeen ==
  ASSUME SeenInv, Draft!saved' = Draft!saved
  PROVE  SeenInv'
BY DEF Draft!saved, SeenInv

LEMMA SendKeepsSeen ==
  ASSUME SeenInv, NEW operation, baseline # None, Draft!Send(operation)
  PROVE  SeenInv'
<1>1. /\ server' = server /\ baseline' = baseline /\ draftRevision' = draftRevision
      /\ seen' = seen /\ reviewed' = reviewed
      /\ request' = Draft!Request(operation, draftRevision)
  BY DEF Draft!Send, Draft!draft
<1>2. request'.read = None /\ request'.reply = None /\ request'.revision = draftRevision
  BY <1>1 DEF Draft!Request
<1> QED
  BY <1>1, <1>2 DEF SeenInv, RequestSeen

LEMMA RetryKeepsSeen ==
  ASSUME SeenInv, Draft!RetrySave
  PROVE  SeenInv'
<1>1. /\ server' = server /\ baseline' = baseline /\ baseline # None /\ reviewed # None
      /\ draftRevision' = reviewed.revision /\ seen' = reviewed.ids /\ reviewed' = None
      /\ request' = None \/ request' = Draft!Request("save", draftRevision')
  BY DEF Draft!RetrySave, Draft!Act
<1>2. request' # None =>
        request'.read = None /\ request'.reply = None /\ request'.revision = draftRevision'
  BY <1>1 DEF Draft!Request
<1> QED
  BY <1>1, <1>2 DEF SeenInv, RequestSeen

(* A request that is served while the order stays as it is.                  *)
LEMMA RequestKeepsSeen ==
  ASSUME SeenInv, request # None, server' = server, Draft!draft' = Draft!draft,
         request'.operation = request.operation, request'.revision = request.revision,
         RequestSeen(server, request'),
         request'.read # None => request.operation # "save"
  PROVE  SeenInv'
BY DEF SeenInv, Draft!draft

(* The next page continues what was read.                                    *)
LEMMA PageContinues ==
  ASSUME NEW s, IsList(s), NEW at \in Nat, at <= Len(s),
         NEW upTo \in Nat, upTo <= Len(s), upTo >= at
  PROVE  SubSeq(s, 1, at) \o SubSeq(s, at + 1, upTo) = SubSeq(s, 1, upTo)
<1>1. s \in Seq(Titles) /\ Len(s) \in Nat
  BY ListFacts DEF IsList
<1> QED
  BY <1>1, SubSeqProperties, ConcatProperties

(* The whole of the order is read if no save came between its pages.         *)
LEMMA ReadKeepsSeen ==
  ASSUME DraftInv, SeenInv, Draft!ReadRevision \/ Draft!ReadPage
  PROVE  SeenInv'
<1>1. /\ request # None /\ server' = server /\ Draft!draft' = Draft!draft
      /\ DOMAIN request = RequestFields /\ RequestSeen(server, request)
  BY DEF Draft!ReadRevision, Draft!ReadPage, DraftInv, RequestFits, SeenInv
<1>2. CASE Draft!ReadRevision
  <2> DEFINE read == [revision |-> server.revision, ids |-> <<>>, at |-> 0]
  <2>1. request' = [request EXCEPT !.read = read]
    BY <1>2 DEF Draft!ReadRevision
  <2>2. ReadSeen(server, read)
    <3>1. server.ids \in Seq(Titles) /\ Len(server.ids) \in Nat
      BY ListFacts DEF DraftInv, IsList
    <3>2. SubSeq(server.ids, 1, 0) = <<>>
      BY <3>1, SubSeqProperties
    <3> QED
      BY <3>1, <3>2 DEF ReadSeen, SeenInv
  <2> HIDE DEF read
  <2>3. /\ request'.operation = request.operation /\ request'.revision = request.revision
        /\ request'.ids = request.ids /\ request'.reply = request.reply /\ request'.read = read
    BY <1>1, <2>1 DEF RequestFields
  <2>4. RequestSeen(server, request') /\ request.operation # "save"
    BY <1>1, <1>2, <2>2, <2>3 DEF RequestSeen, Draft!ReadRevision
  <2> QED
    BY <1>1, <2>3, <2>4, RequestKeepsSeen
<1>3. CASE Draft!ReadPage
  <2> DEFINE read == request.read
  <2>1. read # None /\ ReadSeen(server, read) /\ ReadFits(read)
    BY <1>1, <1>3 DEF Draft!ReadPage, RequestSeen, DraftInv, RequestFits
  <2>2. PICK from, upTo \in Nat, list \in Seq(Titles) :
          /\ 1 <= from /\ upTo <= Len(server.ids)
          /\ \/ from = read.at + 1
             \/ /\ from = read.at /\ from \in DOMAIN server.ids
                /\ server.ids[from] # read.ids[Len(read.ids)]
          /\ upTo < from => upTo = Len(server.ids)
          /\ list = read.ids \o SubSeq(server.ids, from, upTo) /\ IsList(list)
          /\ IF upTo < Len(server.ids)
             THEN request' = [request EXCEPT !.read = [@ EXCEPT !.ids = list, !.at = upTo]]
             ELSE request' = [request EXCEPT !.reply =
                      [done |-> TRUE, revision |-> Draft!Told(read), ids |-> list]]
    BY <1>3, PageRead
  <2>3. IsList(server.ids) /\ Len(server.ids) \in Nat /\ DOMAIN server.ids = 1 .. Len(server.ids)
    BY ListFacts DEF DraftInv
  <2>4. read.revision = server.revision =>
          list = SubSeq(server.ids, 1, upTo)
    <3> SUFFICES ASSUME read.revision = server.revision
                 PROVE  list = SubSeq(server.ids, 1, upTo)
      OBVIOUS
    <3>1. read.at \in Nat /\ read.at <= Len(server.ids) /\ read.ids = SubSeq(server.ids, 1, read.at)
      BY <2>1 DEF ReadSeen, ReadFits
    <3>2. from = read.at + 1
      <4>1. ASSUME from = read.at, from \in DOMAIN server.ids
            PROVE  server.ids[from] = read.ids[Len(read.ids)]
        <5>1. Len(read.ids) = read.at /\ read.ids[read.at] = server.ids[read.at]
          BY <2>3, <3>1, <4>1, SubSeqProperties DEF IsList
        <5> QED
          BY <4>1, <5>1
      <4> QED
        BY <2>2, <4>1
    <3>3. upTo >= read.at
      BY <2>2, <2>3, <3>1, <3>2
    <3>4. upTo <= Len(server.ids) /\ list = read.ids \o SubSeq(server.ids, from, upTo)
      BY <2>2
    <3>5. SubSeq(server.ids, 1, read.at) \o SubSeq(server.ids, read.at + 1, upTo)
            = SubSeq(server.ids, 1, upTo)
      <4> HIDE DEF read
      <4> QED
        BY <2>3, <3>1, <3>3, <3>4, PageContinues
    <3> QED
      BY <3>1, <3>2, <3>4, <3>5
  <2> HIDE DEF read
  <2>5. CASE upTo < Len(server.ids)
    <3> DEFINE more == [read EXCEPT !.ids = list, !.at = upTo]
    <3>1. request' = [request EXCEPT !.read = more]
      BY <1>1, <2>2, <2>5 DEF RequestFields, read
    <3>2. more.revision = read.revision /\ more.ids = list /\ more.at = upTo
      BY <2>1 DEF ReadFits
    <3>3. ReadSeen(server, more)
      BY <2>1, <2>2, <2>4, <3>2 DEF ReadSeen
    <3> HIDE DEF more
    <3>4. /\ request'.operation = request.operation /\ request'.revision = request.revision
          /\ request'.ids = request.ids /\ request'.reply = request.reply /\ request'.read = more
      BY <1>1, <3>1 DEF RequestFields
    <3>5. RequestSeen(server, request') /\ request.operation # "save"
      BY <1>1, <2>1, <3>3, <3>4 DEF RequestSeen, SeenInv, read
    <3> QED
      BY <1>1, <3>4, <3>5, RequestKeepsSeen
  <2>6. CASE ~(upTo < Len(server.ids))
    <3> DEFINE reply == [done |-> TRUE, revision |-> Draft!Told(read), ids |-> list]
    <3>1. reply.revision = read.revision /\ reply.ids = list
      BY DEF Draft!Told
    <3>2. SeenAt(server, reply.revision, reply.ids)
      <4>1. upTo = Len(server.ids)
        BY <2>2, <2>3, <2>6
      <4>2. SubSeq(server.ids, 1, Len(server.ids)) = server.ids
        BY <2>3, SubSeqProperties DEF IsList
      <4> QED
        BY <2>1, <2>4, <3>1, <4>1, <4>2 DEF SeenAt, ReadSeen
    <3>3. request' = [request EXCEPT !.reply = reply]
      BY <2>2, <2>6
    <3> HIDE DEF reply
    <3>4. /\ request'.operation = request.operation /\ request'.revision = request.revision
          /\ request'.ids = request.ids /\ request'.reply = reply /\ request'.read = request.read
      BY <1>1, <3>3 DEF RequestFields
    <3>5. request.operation # "save"
      BY <1>1, <2>1 DEF SeenInv, read
    <3>6. RequestSeen(server, request')
      BY <1>1, <3>2, <3>4, <3>5 DEF RequestSeen
    <3> QED
      BY <1>1, <3>4, <3>5, <3>6, RequestKeepsSeen
  <2> QED
    BY <2>5, <2>6
<1> QED
  BY <1>2, <1>3

(* A save that is accepted makes a revision that nobody was shown yet.       *)
LEMMA SaveServedKeepsSeen ==
  ASSUME DraftInv, SeenInv, Draft!SaveServed
  PROVE  SeenInv' /\ (server' # server => server.ids = seen)
<1>1. /\ request # None /\ request.operation = "save" /\ DOMAIN request = RequestFields
      /\ RequestSeen(server, request) /\ baseline # None /\ request.revision = draftRevision
      /\ SeenAt(server, draftRevision, seen) /\ request.read = None
      /\ server.revision \in Nat /\ Draft!draft' = Draft!draft
  BY DEF Draft!SaveServed, DraftInv, RequestFits, SeenInv
<1> DEFINE new == [revision |-> server.revision + 1, ids |-> request.ids]
           done == [done |-> TRUE, revision |-> server.revision + 1, ids |-> request.ids]
           failed == [done |-> FALSE, conflict |-> Draft!Distinct(request.ids)]
<1>2. CASE /\ request.revision = server.revision /\ server' = new
           /\ request' = [request EXCEPT !.reply = done]
  <2>1. new.revision = server.revision + 1 /\ new.ids = request.ids /\ done.revision = new.revision
    OBVIOUS
  <2> HIDE DEF new, done
  <2>2. /\ request'.operation = request.operation /\ request'.revision = request.revision
        /\ request'.ids = request.ids /\ request'.read = None /\ request'.reply = done
    BY <1>1, <1>2 DEF RequestFields
  <2>3. RequestSeen(server', request')
    BY <1>1, <1>2, <2>1, <2>2 DEF RequestSeen, SeenAt
  <2>4. \A r, list : SeenAt(server, r, list) => SeenAt(server', r, list)
    BY <1>1, <1>2, <2>1, SeenBefore
  <2>5. SeenInv'
    BY <1>1, <1>2, <2>1, <2>2, <2>3, <2>4 DEF SeenInv, Draft!draft
  <2> QED
    BY <1>1, <1>2, <2>5 DEF SeenAt
<1>3. CASE server' = server /\ request' = [request EXCEPT !.reply = failed]
  <2>1. failed.done = FALSE
    OBVIOUS
  <2> HIDE DEF failed
  <2>2. /\ request'.operation = request.operation /\ request'.revision = request.revision
        /\ request'.read = None /\ request'.reply = failed
    BY <1>1, <1>3 DEF RequestFields
  <2>3. RequestSeen(server, request')
    BY <2>1, <2>2 DEF RequestSeen
  <2> QED
    BY <1>1, <1>3, <2>2, <2>3, RequestKeepsSeen
<1> QED
  BY <1>2, <1>3 DEF Draft!SaveServed

LEMMA PreviewServedKeepsSeen ==
  ASSUME DraftInv, SeenInv, Draft!PreviewServed
  PROVE  SeenInv'
<1>1. /\ request # None /\ request.operation \in {"replace", "merge"}
      /\ DOMAIN request = RequestFields /\ RequestSeen(server, request)
      /\ server' = server /\ Draft!draft' = Draft!draft
  BY DEF Draft!PreviewServed, DraftInv, RequestFits, SeenInv
<1>2. PICK reply : request' = [request EXCEPT !.reply = reply]
  BY DEF Draft!PreviewServed
<1>3. /\ request'.operation = request.operation /\ request'.revision = request.revision
      /\ request'.read = request.read
  BY <1>1, <1>2 DEF RequestFields
<1>4. RequestSeen(server, request') /\ request'.operation # "save"
  BY <1>1, <1>3 DEF RequestSeen
<1> QED
  BY <1>1, <1>3, <1>4, RequestKeepsSeen

(* What is loaded, saved or looked at is shown with the revision it has.     *)
LEMMA AnsweredKeepsSeen ==
  ASSUME SeenInv, NEW delivered \in BOOLEAN, Draft!Answered(delivered)
  PROVE  SeenInv'
<1>1. /\ request # None /\ request' = None /\ server' = server
      /\ delivered => request.reply # None
      /\ RequestSeen(server, request)
  BY DEF Draft!Answered, SeenInv
<1>2. CASE delivered /\ request.reply.done
  <2>1. CASE Draft!Loaded
    <3>1. SeenAt(server, draftRevision', seen') /\ reviewed' = reviewed
      BY <1>1, <1>2, <2>1 DEF Draft!Loaded, RequestSeen
    <3> QED
      BY <1>1, <3>1 DEF SeenInv
  <2>2. CASE Draft!Saved
    <3>1. SeenAt(server, draftRevision', seen') /\ reviewed' = reviewed
      BY <1>1, <1>2, <2>2 DEF Draft!Saved, RequestSeen
    <3> QED
      BY <1>1, <3>1 DEF SeenInv
  <2>3. CASE Draft!Reviewed
    <3> DEFINE shown == [revision |-> request.reply.revision, ids |-> request.reply.ids]
    <3>1. shown.revision = request.reply.revision /\ shown.ids = request.reply.ids
      OBVIOUS
    <3> HIDE DEF shown
    <3>2. /\ baseline' = baseline /\ draftRevision' = draftRevision /\ seen' = seen
          /\ reviewed' = shown
      BY <2>3 DEF Draft!Reviewed, shown
    <3>3. SeenAt(server, shown.revision, shown.ids)
      BY <1>1, <1>2, <2>3, <3>1 DEF Draft!Reviewed, RequestSeen
    <3> QED
      BY <1>1, <3>2, <3>3 DEF SeenInv
  <2>4. CASE Draft!Previewed
    BY <1>1, <2>4 DEF Draft!Previewed, SeenInv
  <2> QED
    BY <1>2, <2>1, <2>2, <2>3, <2>4 DEF Draft!Answered
<1>3. CASE ~(delivered /\ request.reply.done)
  <2>1. Draft!Failed(delivered)
    BY <1>3 DEF Draft!Answered
  <2>2. /\ baseline' = baseline /\ draftRevision' = draftRevision /\ seen' = seen
        /\ reviewed' = reviewed \/ reviewed' = None
    BY <2>1 DEF Draft!Failed
  <2> QED
    BY <1>1, <2>2 DEF SeenInv
<1> QED
  BY <1>2, <1>3

LEMMA OthersKeepSeen ==
  ASSUME SeenInv, NEW order \in Sources, Draft!OthersSave(order)
  PROVE  SeenInv'
<1>1. server'.revision = server.revision + 1 /\ Draft!draft' = Draft!draft /\ request' = request
  BY DEF Draft!OthersSave
<1> QED
  BY <1>1, SeenBefore DEF SeenInv, Draft!draft

LEMMA SeenStep == DraftInv /\ SeenInv /\ [Draft!Next]_(Draft!vars) => SeenInv'
<1> SUFFICES ASSUME DraftInv, SeenInv, [Draft!Next]_(Draft!vars) PROVE SeenInv'
  OBVIOUS
<1>1. ASSUME NEW new, Draft!SetSequence(new) PROVE SeenInv'
  BY <1>1, SavedKeepsSeen DEF Draft!SetSequence
<1>2. CASE Draft!MoveUp \/ Draft!MoveDown \/ Draft!MoveTo
  BY <1>1, <1>2 DEF Draft!MoveUp, Draft!MoveDown, Draft!MoveTo, Draft!MoveBefore
<1>3. CASE Draft!Remove \/ Draft!UsePreview
  BY <1>1, <1>3 DEF Draft!Remove, Draft!UsePreview
<1>4. CASE Draft!Undo \/ Draft!DropPreview
  BY <1>4, SavedKeepsSeen DEF Draft!Undo, Draft!DropPreview
<1>5. ASSUME NEW source, NEW i, NEW j, Draft!AddRange(source, i, j) PROVE SeenInv'
  BY <1>1, <1>5 DEF Draft!AddRange, Draft!AddItems
<1>6. ASSUME NEW i, NEW j, NEW checked, Draft!Select(i, j, checked) PROVE SeenInv'
  BY <1>6, SavedKeepsSeen DEF Draft!Select
<1>7. ASSUME NEW i, Draft!Expand(i) PROVE SeenInv'
  BY <1>7, SavedKeepsSeen DEF Draft!Expand
<1>8. CASE Draft!Save \/ Draft!ReviewSaved
  BY <1>8, SendKeepsSeen DEF Draft!Save, Draft!ReviewSaved, Draft!Act
<1>9. ASSUME NEW apply, Draft!PreviewDates(apply) PROVE SeenInv'
  BY <1>9, SendKeepsSeen DEF Draft!PreviewDates, Draft!Act
<1>10. CASE UNCHANGED Draft!vars
  BY <1>10, SavedKeepsSeen DEF Draft!vars, Draft!saved
<1> QED
  BY <1>2, <1>3, <1>4, <1>5, <1>6, <1>7, <1>8, <1>9, <1>10, RetryKeepsSeen, ReadKeepsSeen,
     SaveServedKeepsSeen, PreviewServedKeepsSeen, AnsweredKeepsSeen, OthersKeepSeen
     DEF Draft!Next

LEMMA SeenAlways == Draft!Spec => []SeenInv
BY SeenStarts, SeenStep, DraftAlways, PTL DEF Draft!Spec

LEMMA SeenAlwaysHere == EditingSpec => [](part = "draft" => SeenInv)
<1> DEFINE Drafted == part = "draft" => DraftInv
           Inv == part = "draft" => SeenInv
<1>1. EditingInit => Inv
  BY SeenStarts DEF EditingInit
<1>2. Drafted /\ Inv /\ [EditingNext]_editingVars => Inv'
  <2> SUFFICES ASSUME Drafted, Inv, [EditingNext]_editingVars, part' = "draft"
               PROVE  SeenInv'
    OBVIOUS
  <2>1. part = "draft" /\ [Draft!Next]_(Draft!vars)
    BY DEF EditingNext, editingVars, draftVars, Draft!vars
  <2> QED
    BY <2>1, SeenStep
<1> QED
  BY <1>1, <1>2, DraftAlwaysHere, PTL DEF EditingSpec

(* A save that is accepted replaces the order that the viewer was shown for *)
(* the revision it names, although that order was read page by page while   *)
(* others saved theirs.                                                     *)
THEOREM SavesAlwaysReplaceWhatWasSeen ==
  /\ Draft!Spec => Draft!SavesReplaceWhatWasSeen
  /\ EditingSpec => SavesReplaceWhatWasSeen
<1>1. DraftInv /\ SeenInv /\ [Draft!Next]_(Draft!vars)
        => [Draft!SaveServed /\ server' # server => server.ids = seen]_(Draft!vars)
  BY SaveServedKeepsSeen
<1>2. (part = "draft" => DraftInv) /\ (part = "draft" => SeenInv) /\ [EditingNext]_editingVars
        => [part = "draft" /\ Draft!SaveServed /\ server' # server
              => server.ids = seen]_editingVars
  BY SaveServedKeepsSeen
<1>3. Draft!Spec => Draft!SavesReplaceWhatWasSeen
  BY <1>1, DraftAlways, SeenAlways, PTL DEF Draft!Spec, Draft!SavesReplaceWhatWasSeen
<1>4. EditingSpec => SavesReplaceWhatWasSeen
  BY <1>2, DraftAlwaysHere, SeenAlwaysHere, PTL DEF EditingSpec, SavesReplaceWhatWasSeen
<1> QED
  BY <1>3, <1>4

-----------------------------------------------------------------------------
(* A generated order that is merged into the draft keeps every entry that   *)
(* the draft has by then, whatever was edited, undone or saved since it was *)
(* made.                                                                     *)
THEOREM MergeAlwaysKeepsEntries ==
  /\ Draft!Spec => Draft!MergeKeepsEntries
  /\ EditingSpec => MergeKeepsEntries
<1>1. DraftInv /\ [Draft!Next]_(Draft!vars)
        => [Draft!UsePreview /\ preview.apply = "merge"
              => Draft!Set(ids) \subseteq Draft!Set(ids')]_(Draft!vars)
  BY UsePreviewKeeps
<1>2. (part = "draft" => DraftInv) /\ [EditingNext]_editingVars
        => [part = "draft" /\ Draft!UsePreview /\ preview.apply = "merge"
              => Draft!Set(ids) \subseteq Draft!Set(ids')]_editingVars
  BY UsePreviewKeeps
<1>3. Draft!Spec => Draft!MergeKeepsEntries
  BY <1>1, DraftAlways, PTL DEF Draft!Spec, Draft!MergeKeepsEntries
<1>4. EditingSpec => MergeKeepsEntries
  BY <1>2, DraftAlwaysHere, PTL DEF EditingSpec, MergeKeepsEntries
<1> QED
  BY <1>3, <1>4

(* A move up, a move down and a move to a place lose no title of the draft   *)
(* and bring none in.                                                        *)
MovesKeepEntries ==
  [][Draft!MoveUp \/ Draft!MoveDown \/ Draft!MoveTo => Draft!Set(ids') = Draft!Set(ids)]_(Draft!vars)

(* No move of the selection in the draft loses a title or adds one.          *)
THEOREM MovesAlwaysKeepEntries == Draft!Spec => MovesKeepEntries
<1>1. DraftInv /\ [Draft!Next]_(Draft!vars)
        => [Draft!MoveUp \/ Draft!MoveDown \/ Draft!MoveTo => Draft!Set(ids') = Draft!Set(ids)]_(Draft!vars)
  BY MoveUpMoves, MoveDownMoves, MoveToMoves, MoveKeeps DEF DraftInv
<1> QED
  BY <1>1, DraftAlways, PTL DEF Draft!Spec, MovesKeepEntries
=============================================================================

----------------------- MODULE PlaybackSessionProofs -----------------------
(* Theorems about PlaybackSession for every queue, sample and request set.  *)
EXTENDS PlaybackSession, TLAPS

LEMMA EntriesAreNumbers == Entries \subseteq Nat /\ 0 \in Entries
  BY PlaybackSessionAssumption DEF Entries

(* The row an UPDATE leaves is a row. *)
LEMMA UpdateIsARow ==
  ASSUME NEW now \in Rows, NEW seen \in Rows, NEW new \in Rows
  PROVE  Update(now, seen, new) \in Rows
  BY DEF Update, Rows

(* The row a request stores is a row. *)
LEMMA NewRowIsARow ==
  ASSUME NEW q \in Requested
  PROVE  NewRow(q) \in Rows
  BY DEF NewRow, Rows, Requested

(* Storing a row leaves rows. *)
LEMMA StoreRowKeepsRows ==
  ASSUME NEW q \in Requested, rows \in [Entries -> Rows], StoreRow(q)
  PROVE  rows' \in [Entries -> Rows]
  <1>1. q.row \in Rows /\ q.entry \in Entries  BY DEF Requested
  <1>2. NewRow(q) \in Rows  BY NewRowIsARow
  <1>3. Update(rows[q.entry], q.row, NewRow(q)) \in Rows  BY <1>1, <1>2, UpdateIsARow
  <1> QED  BY <1>1, <1>2, <1>3 DEF StoreRow

(* What the server computes from a row. *)
LEMMA DurationsAreNumbers ==
  ASSUME NEW e \in Entries, NEW row \in Rows, NEW position \in Nat
  PROVE  ProgressDuration(e, row, position) \in Nat /\ CompletionDuration(e, row) \in Nat
  BY PlaybackSessionAssumption DEF ProgressDuration, CompletionDuration, Larger, Rows

LEMMA DecidedIsARequest ==
  ASSUME NEW q \in Requested, NEW row \in Rows
  PROVE  Decided(q, row) \in Requested
  BY DEF Decided, Requested

-----------------------------------------------------------------------------
(* Every step keeps the types. *)
LEMMA StepKeepsTypes ==
  ASSUME TypeOK, [Next]_vars
  PROVE  TypeOK'
  <1> USE PlaybackSessionAssumption
  <1>1. CASE Expire
    BY <1>1 DEF TypeOK, Expire, events, Requested, Rows
  <1>2. ASSUME NEW r \in Requests, NEW q \in {Idle} \cup Requested, Later(r, q)
        PROVE  TypeOK'
    BY <1>2 DEF TypeOK, Later, session, events
  <1>3. ASSUME NEW r \in Requests, Read(r)
        PROVE  TypeOK'
    <2>1. ASSUME NEW op \in Operations, NEW expected \in Entries \cup {Anyone},
                 NEW sample \in Nat, NEW seek \in BOOLEAN,
                 ReadSession(r, op, expected, sample, seek)
          PROVE  TypeOK'
      <3> DEFINE q == [phase |-> CASE op = "progress" -> "row"
                             [] op \in {"advance", "close"} -> "write"
                             [] OTHER -> "event",
                 op |-> op, expected |-> expected, entry |-> current,
                 sample |-> sample, seek |-> seek, duration |-> 0, row |-> NoRow,
                 stores |-> FALSE, completes |-> FALSE, counts |-> FALSE]
      <3>1. q \in Requested
        BY <2>1 DEF TypeOK, Requested, NoRow, Rows
      <3> QED  BY <2>1, <3>1, <1>2 DEF ReadSession
    <2>2. CASE ReadEvent(r)
      <3>1. req[r] \in Requested
        BY <2>2 DEF ReadEvent, TypeOK, Idle
      <3>2. \A p \in {"row", "write"} : [req[r] EXCEPT !.phase = p] \in Requested
        BY <3>1 DEF Requested
      <3> QED  BY <2>2, <3>2, <1>2 DEF ReadEvent
    <2>3. CASE ReadRowForProgress(r)
      <3> DEFINE q == req[r]
                 row == rows[q.entry]
                 duration == ProgressDuration(q.entry, row, q.sample)
                 completed == InCompletionGrace(q.entry, q.sample)
                 d == Decided(q, row)
                 new == [d EXCEPT !.duration = duration, !.completes = completed,
                                  !.counts = completed /\ ~row.completed]
      <3>1. q \in Requested /\ row \in Rows
        BY <2>3 DEF ReadRowForProgress, TypeOK, Idle, Requested
      <3>2. duration \in Nat /\ d \in Requested
        BY <3>1, DurationsAreNumbers, DecidedIsARequest DEF Requested
      <3>3. completed \in BOOLEAN /\ (completed /\ ~row.completed) \in BOOLEAN
        BY DEF InCompletionGrace
      <3> HIDE DEF d, duration, completed
      <3>4. new \in Requested
        BY <3>2, <3>3 DEF Requested
      <3> QED  BY <2>3, <3>4, <1>2 DEF ReadRowForProgress, d, duration, completed
    <2>4. CASE ReadRowForCompletion(r)
      <3> DEFINE q == req[r]
                 row == rows[q.entry]
                 duration == CompletionDuration(q.entry, row)
                 d == Decided(q, row)
                 new == [d EXCEPT !.sample = duration, !.duration = duration,
                                  !.completes = TRUE, !.counts = ~row.completed]
      <3>1. q \in Requested /\ row \in Rows
        BY <2>4 DEF ReadRowForCompletion, TypeOK, Idle, Requested
      <3>2. duration \in Nat /\ d \in Requested
        BY <3>1, DurationsAreNumbers, DecidedIsARequest DEF Requested
      <3>3. (~row.completed) \in BOOLEAN
        OBVIOUS
      <3> HIDE DEF d, duration
      <3>4. new \in Requested
        BY <3>2, <3>3 DEF Requested
      <3> QED  BY <2>4, <3>4, <1>2 DEF ReadRowForCompletion, d, duration
    <2>5. CASE ReadRowAgain(r)
      <3>1. req[r] \in Requested /\ rows[req[r].entry] \in Rows
        BY <2>5 DEF ReadRowAgain, TypeOK, Idle, Requested
      <3>2. [req[r] EXCEPT !.phase = "write", !.row = rows[req[r].entry]] \in Requested
        BY <3>1 DEF Requested
      <3> QED  BY <2>5, <3>2, <1>2 DEF ReadRowAgain
    <2> QED  BY <1>3, <2>1, <2>2, <2>3, <2>4, <2>5 DEF Read
  <1>4. ASSUME NEW r \in Requests, Write(r)
        PROVE  TypeOK'
    <2>1. req[r] \in Requested
      BY <1>4 DEF Write, Commits, Rollback, CommitProgress, CommitComplete,
                  CommitCompleteAndAdvance, CommitAdvance, CommitClose, TypeOK, Idle
    <2>2. Answer(r) => req' \in [Requests -> {Idle} \cup Requested]
      BY DEF Answer, TypeOK
    <2>3. ASSUME StoreCompletion(req[r])
          PROVE  rows' \in [Entries -> Rows] /\ completions' \in [Entries -> Nat]
      <3>1. CASE req[r].stores
        BY <2>1, <2>3, <3>1, StoreRowKeepsRows DEF StoreCompletion, TypeOK
      <3>2. CASE ~req[r].stores
        BY <2>3, <3>2 DEF StoreCompletion, TypeOK
      <3> QED  BY <3>1, <3>2
    <2>4. ASSUME AdvanceFrom(req[r].entry)
          PROVE  current' \in Entries /\ advances' \in [Entries -> Nat]
      <3>1. req[r].entry \in Entries
        BY <2>1 DEF Requested
      <3>2. CASE req[r].entry < LastEntry
        <4>1. req[r].entry + 1 \in Entries
          BY <3>1, <3>2 DEF Entries
        <4>2. advances[req[r].entry + 1] + 1 \in Nat
          BY <4>1 DEF TypeOK
        <4> QED  BY <2>4, <3>2, <4>1, <4>2 DEF AdvanceFrom, TypeOK
      <3>3. CASE ~(req[r].entry < LastEntry)
        BY <2>4, <3>3 DEF AdvanceFrom, TypeOK
      <3> QED  BY <3>2, <3>3
    <2>5. CASE CommitProgress(r)
      <3>1. rows' \in [Entries -> Rows]
        BY <2>1, <2>5, StoreRowKeepsRows DEF CommitProgress, TypeOK
      <3> QED  BY <2>2, <2>5, <3>1 DEF CommitProgress, TypeOK, session, events
    <2>6. CASE CommitComplete(r)
      BY <2>2, <2>3, <2>6 DEF CommitComplete, TypeOK, session
    <2>7. CASE CommitCompleteAndAdvance(r)
      BY <2>2, <2>3, <2>4, <2>7 DEF CommitCompleteAndAdvance, TypeOK
    <2>8. CASE CommitAdvance(r)
      BY <2>2, <2>4, <2>8 DEF CommitAdvance, TypeOK
    <2>9. CASE CommitClose(r)
      BY <2>2, <2>9 DEF CommitClose, TypeOK, events
    <2>10. CASE Rollback(r)
      BY <2>10, <1>2 DEF Rollback
    <2> QED  BY <1>4, <2>5, <2>6, <2>7, <2>8, <2>9, <2>10 DEF Write
  <1>5. CASE UNCHANGED vars
    BY <1>5 DEF TypeOK, vars, session, events
  <1> QED  BY <1>1, <1>3, <1>4, <1>5 DEF Next

(* The types, whatever the queue and however many requests overlap: in      *)
(* particular the session never leaves its queue.                           *)
THEOREM TypeCorrect == Spec => []TypeOK
  <1>1. Init => TypeOK
    <2>1. NoRow \in Rows
      BY DEF NoRow, Rows
    <2>2. 0 \in Entries /\ 0 \in Nat
      BY EntriesAreNumbers
    <2> QED  BY <2>1, <2>2 DEF Init, TypeOK
  <1> QED  BY <1>1, StepKeepsTypes, PTL DEF Spec

-----------------------------------------------------------------------------
(* A row that is there cannot be told from its columns: a completed row     *)
(* exists.                                                                  *)
CompletedRowsExist == \A e \in Entries : rows[e].completed => rows[e].exists

(* What a commit does to the rows: only StoreRow writes them, for the       *)
(* request's entry and without a conflict.                                  *)
LEMMA WhoWritesRows ==
  ASSUME TypeOK, Next, rows' # rows
  PROVE  \E r \in Requests :
            /\ IsCommit(r) /\ req[r] \in Requested /\ StoreRow(req[r])
            /\ req[r].stores \/ req[r].op = "progress"
  <1>1. PICK r \in Requests : Write(r)
    BY DEF Next, Expire, Read, Later, ReadSession, ReadEvent, ReadRowForProgress,
           ReadRowForCompletion, ReadRowAgain
  <1>2. req[r] \in Requested
    BY <1>1 DEF Write, Commits, Rollback, CommitProgress, CommitComplete,
                CommitCompleteAndAdvance, CommitAdvance, CommitClose, TypeOK, Idle
  <1>3. Answer(r) => req'[r] = Idle
    BY DEF Answer, TypeOK
  <1>4. CASE CommitProgress(r)
    BY <1>2, <1>3, <1>4 DEF CommitProgress, Commits, IsCommit
  <1>5. CASE CommitComplete(r)
    BY <1>2, <1>3, <1>5 DEF CommitComplete, Commits, IsCommit, StoreCompletion
  <1>6. CASE CommitCompleteAndAdvance(r)
    BY <1>2, <1>3, <1>6 DEF CommitCompleteAndAdvance, Commits, IsCommit, StoreCompletion
  <1> QED  BY <1>1, <1>4, <1>5, <1>6 DEF Write, CommitAdvance, CommitClose, Rollback, Later

(* What a request remembers: a row it found is still there, and one that    *)
(* is about to write a row has decided to.                                  *)
Remembers(q, saved) ==
    q # Idle =>
        /\ q.row.exists => saved[q.entry].exists
        /\ q.phase = "event" => q.op # "progress"
        /\ q.phase = "again" => q.stores
        /\ q.phase = "write" /\ q.op = "progress" => q.stores

RowInv == CompletedRowsExist /\ \A r \in Requests : Remembers(req[r], rows)

(* One column of an UPDATE. *)
LEMMA UpdateOfAColumn ==
  ASSUME NEW now \in Rows, NEW seen \in Rows, NEW new \in Rows
  PROVE  /\ Update(now, seen, new).completed =
               IF new.completed = seen.completed THEN now.completed ELSE new.completed
         /\ Update(now, seen, new).exists =
               IF new.exists = seen.exists THEN now.exists ELSE new.exists
  BY DEF Update, Rows

(* A stored row exists, and is completed if it was, unless the request had  *)
(* read a completed row.                                                    *)
LEMMA StoredRowExists ==
  ASSUME TypeOK, RowInv, NEW r \in Requests, req[r] \in Requested, req[r].stores,
         ~Conflict(req[r]), StoreRow(req[r])
  PROVE  /\ rows'[req[r].entry].exists
         /\ \A e \in Entries \ {req[r].entry} : rows'[e] = rows[e]
         /\ rows[req[r].entry].completed /\ ~rows'[req[r].entry].completed
               => req[r].row.completed
  <1> DEFINE q == req[r]
             now == rows[q.entry]
             new == NewRow(q)
  <1>1. q.entry \in Entries /\ q.row \in Rows /\ now \in Rows /\ new \in Rows
    BY NewRowIsARow DEF TypeOK, Requested
  <1>2. rows'[q.entry] = IF q.row.exists THEN Update(now, q.row, new) ELSE new
    BY <1>1 DEF StoreRow, TypeOK
  <1>3. \A e \in Entries \ {q.entry} : rows'[e] = rows[e]
    BY <1>1 DEF StoreRow, TypeOK
  <1>4. new.exists
    BY DEF NewRow
  <1>5. q # Idle
    BY DEF Requested, Idle
  <1>6. CASE q.row.exists
    <2>1. now.exists
      BY <1>5, <1>6 DEF RowInv, Remembers
    <2>2. now.completed \in BOOLEAN /\ new.completed \in BOOLEAN /\ q.row.completed \in BOOLEAN
      BY <1>1 DEF Rows
    <2>3. rows'[q.entry] = Update(now, q.row, new)
      BY <1>2, <1>6
    <2> HIDE DEF now, new, q
    <2>4. /\ rows'[q.entry].exists
          /\ now.completed /\ ~rows'[q.entry].completed => q.row.completed
      BY <1>1, <1>4, <2>1, <2>2, <2>3, UpdateOfAColumn
    <2> QED  BY <1>3, <2>4 DEF q, now
  <1>7. CASE ~q.row.exists
    <2>1. ~now.exists
      BY <1>7 DEF Conflict
    <2>2. ~now.completed
      BY <1>1, <2>1 DEF RowInv, CompletedRowsExist
    <2> QED  BY <1>2, <1>3, <1>4, <1>7, <2>2
  <1> QED  BY <1>6, <1>7

LEMMA StepKeepsRowInv ==
  ASSUME TypeOK, RowInv, [Next]_vars
  PROVE  RowInv'
  <1>1. ASSUME NEW r \in Requests, NEW q, Later(r, q), Remembers(q, rows)
        PROVE  RowInv'
    BY <1>1 DEF Later, RowInv, CompletedRowsExist, TypeOK
  <1>2. ASSUME NEW r \in Requests, Read(r)
        PROVE  RowInv'
    <2>1. CASE \E op \in Operations, expected \in Entries \cup {Anyone} : \E sample, seek :
                  ReadSession(r, op, expected, sample, seek)
      BY <1>1, <2>1 DEF ReadSession, Remembers, NoRow
    <2>2. ASSUME req[r] \in Requested
          PROVE  Remembers(req[r], rows) /\ req[r] # Idle
      BY <2>2 DEF RowInv, Requested, Idle
    <2>3. CASE ReadEvent(r)
      <3>1. req[r] \in Requested
        BY <2>3 DEF ReadEvent, TypeOK, Idle
      <3>2. \A p \in {"row", "write"} : Remembers([req[r] EXCEPT !.phase = p], rows)
        BY <2>2, <2>3, <3>1 DEF Remembers, Requested, ReadEvent
      <3>3. Remembers(Idle, rows)
        BY DEF Remembers
      <3> QED  BY <1>1, <2>3, <3>2, <3>3 DEF ReadEvent
    <2>4. ASSUME NEW q \in Requested, NEW d \in Requested, q = req[r],
                 d.row = rows[q.entry], d.entry = q.entry, d.stores,
                 d.phase \in {"write", "again"}
          PROVE  Remembers(d, rows)
      BY <2>4 DEF Remembers
    <2>5. CASE ReadRowForProgress(r)
      <3> DEFINE q == req[r]
                 row == rows[q.entry]
                 duration == ProgressDuration(q.entry, row, q.sample)
                 completed == InCompletionGrace(q.entry, q.sample)
                 new == [Decided(q, row) EXCEPT
                            !.duration = duration, !.completes = completed,
                            !.counts = completed /\ ~row.completed]
      <3>1. q \in Requested /\ row \in Rows
        BY <2>5 DEF ReadRowForProgress, TypeOK, Idle, Requested
      <3> HIDE DEF duration, completed
      <3>2. Remembers(new, rows)
        BY <3>1 DEF Requested, Decided, Remembers
      <3>3. Remembers(Idle, rows)
        BY DEF Remembers
      <3> QED  BY <1>1, <2>5, <3>2, <3>3 DEF ReadRowForProgress, duration, completed
    <2>6. CASE ReadRowForCompletion(r)
      <3> DEFINE q == req[r]
                 row == rows[q.entry]
                 duration == CompletionDuration(q.entry, row)
                 new == [Decided(q, row) EXCEPT
                            !.sample = duration, !.duration = duration,
                            !.completes = TRUE, !.counts = ~row.completed]
      <3>1. q \in Requested /\ row \in Rows
        BY <2>6 DEF ReadRowForCompletion, TypeOK, Idle, Requested
      <3> HIDE DEF duration
      <3>2. Remembers(new, rows)
        BY <3>1 DEF Requested, Decided, Remembers
      <3> QED  BY <1>1, <2>6, <3>2 DEF ReadRowForCompletion, duration
    <2>7. CASE ReadRowAgain(r)
      <3>1. req[r] \in Requested
        BY <2>7 DEF ReadRowAgain, TypeOK, Idle
      <3>2. Remembers([req[r] EXCEPT !.phase = "write", !.row = rows[req[r].entry]], rows)
        BY <2>2, <2>7, <3>1 DEF Remembers, Requested, ReadRowAgain
      <3> QED  BY <1>1, <2>7, <3>2 DEF ReadRowAgain
    <2> QED  BY <1>2, <2>1, <2>3, <2>5, <2>6, <2>7 DEF Read
  <1>3. ASSUME NEW r \in Requests, Write(r)
        PROVE  RowInv'
    <2>1. req[r] \in Requested
      BY <1>3 DEF Write, Commits, Rollback, CommitProgress, CommitComplete,
                  CommitCompleteAndAdvance, CommitAdvance, CommitClose, TypeOK, Idle
    <2>2. Remembers(Idle, rows) /\ (\A saved : Remembers(Idle, saved))
      BY DEF Remembers
    <2>3. CASE rows' = rows
      BY <1>3, <2>2, <2>3 DEF Write, CommitProgress, CommitComplete,
          CommitCompleteAndAdvance, CommitAdvance, CommitClose, Rollback, Later, Answer,
          RowInv, CompletedRowsExist, TypeOK
    <2>4. CASE rows' # rows
      <3>1. /\ Answer(r) /\ ~Conflict(req[r]) /\ StoreRow(req[r]) /\ req[r].stores
        BY <1>3, <2>1, <2>4 DEF Write, CommitProgress, CommitComplete,
          CommitCompleteAndAdvance, CommitAdvance, CommitClose, Rollback, Later,
          StoreCompletion, Commits, RowInv, Remembers, Requested, Idle
      <3>2. /\ rows'[req[r].entry].exists
            /\ \A e \in Entries \ {req[r].entry} : rows'[e] = rows[e]
        BY <2>1, <3>1, StoredRowExists
      <3>3. CompletedRowsExist'
        BY <3>2 DEF RowInv, CompletedRowsExist
      <3>4. ASSUME NEW s \in Requests
            PROVE  Remembers(req'[s], rows')
        <4>1. CASE s = r
          BY <2>2, <3>1, <4>1 DEF Answer, TypeOK
        <4>2. CASE s # r
          <5>1. req'[s] = req[s] /\ Remembers(req[s], rows)
            BY <3>1, <4>2 DEF Answer, TypeOK, RowInv
          <5>2. req[s] # Idle => req[s].entry \in Entries
            BY DEF TypeOK, Requested
          <5> QED  BY <3>2, <5>1, <5>2 DEF Remembers
        <4> QED  BY <4>1, <4>2
      <3> QED  BY <3>3, <3>4 DEF RowInv
    <2> QED  BY <2>3, <2>4
  <1>4. CASE Expire \/ UNCHANGED vars
    BY <1>4 DEF Expire, vars, RowInv, CompletedRowsExist
  <1> QED  BY <1>2, <1>3, <1>4 DEF Next

(* However requests overlap, a sample that was on its way while its entry   *)
(* was completed does not take the completion back.                         *)
THEOREM CompletionSurvivesLateSamples == Spec => LateSampleKeepsCompletion
  <1>1. Init => RowInv
    BY DEF Init, RowInv, CompletedRowsExist, Remembers, NoRow
  <1>2. ASSUME TypeOK, RowInv, [Next]_vars
        PROVE  [\A e \in Entries :
                  rows[e].completed /\ ~rows'[e].completed =>
                      \E r \in Requests : IsCommit(r) /\ req[r].row.completed]_vars
    <2> SUFFICES ASSUME Next, NEW e \in Entries,
                        rows[e].completed, ~rows'[e].completed
                 PROVE  \E r \in Requests : IsCommit(r) /\ req[r].row.completed
      BY <1>2
    <2>1. PICK r \in Requests :
            /\ IsCommit(r) /\ req[r] \in Requested /\ StoreRow(req[r])
            /\ req[r].stores \/ req[r].op = "progress"
      BY <1>2, WhoWritesRows
    <2>2. req[r].stores
      BY <1>2, <2>1 DEF IsCommit, RowInv, Remembers, Requested, Idle
    <2>3. ~Conflict(req[r])
      BY <2>1 DEF IsCommit
    <2>4. /\ \A d \in Entries \ {req[r].entry} : rows'[d] = rows[d]
          /\ rows[req[r].entry].completed /\ ~rows'[req[r].entry].completed
                => req[r].row.completed
      BY <1>2, <2>1, <2>2, <2>3, StoredRowExists
    <2> QED  BY <2>1, <2>4
  <1> QED  BY <1>1, <1>2, StepKeepsRowInv, TypeCorrect, PTL
           DEF Spec, LateSampleKeepsCompletion

-----------------------------------------------------------------------------
(* With one request at a time nothing a request read is stale when it       *)
(* commits.                                                                 *)
OneAtATime == \A r, s \in Requests : r = s

Fresh(q) ==
    q # Idle =>
        /\ q.entry = current
        /\ q.op # "progress" /\ (q.phase = "row" \/ q.stores) => completions[q.entry] = 0
        /\ q.stores => /\ q.row = rows[q.entry]
                       /\ q.counts = (q.completes /\ ~q.row.completed)

SerialInv ==
    /\ CompletedOnce /\ AdvancesMatchPosition
    /\ \A r \in Requests : Fresh(req[r])

LEMMA IdleIsFresh == Fresh(Idle) /\ Fresh(Idle)'
  BY DEF Fresh, Idle

LEMMA ReadKeepsSerialInv ==
  ASSUME OneAtATime, TypeOK, RowInv, SerialInv, NEW r \in Requests, Read(r)
  PROVE  SerialInv'
  <1>1. ASSUME NEW q, Later(r, q), Fresh(q)
        PROVE  SerialInv'
    <2>1. /\ UNCHANGED <<rows, completions, advances, current>>
          /\ \A s \in Requests : req'[s] = q
      BY <1>1 DEF Later, session, events, OneAtATime, TypeOK
    <2>2. Fresh(q)'
      BY <1>1, <2>1 DEF Fresh
    <2>3. (CompletedOnce /\ AdvancesMatchPosition)'
      BY <2>1 DEF SerialInv, CompletedOnce, AdvancesMatchPosition
    <2> QED  BY <2>1, <2>2, <2>3 DEF SerialInv, Fresh
  <1>2. CASE \E op \in Operations, expected \in Entries \cup {Anyone} : \E sample, seek :
                ReadSession(r, op, expected, sample, seek)
    <2>0. PICK op \in Operations, expected \in Entries \cup {Anyone} :
                \E sample, seek : ReadSession(r, op, expected, sample, seek)
      BY <1>2
    <2>1. PICK sample, seek : ReadSession(r, op, expected, sample, seek)
      BY <2>0
    <2> DEFINE q == [phase |-> CASE op = "progress" -> "row"
                             [] op \in {"advance", "close"} -> "write"
                             [] OTHER -> "event",
                 op |-> op, expected |-> expected, entry |-> current,
                 sample |-> sample, seek |-> seek, duration |-> 0, row |-> NoRow,
                 stores |-> FALSE, completes |-> FALSE, counts |-> FALSE]
    <2>2. Fresh(q)
      BY DEF Fresh
    <2> QED  BY <1>1, <2>1, <2>2 DEF ReadSession
  <1>3. ASSUME req[r] \in Requested
        PROVE  Fresh(req[r]) /\ req[r] # Idle /\ Remembers(req[r], rows)
    BY <1>3 DEF SerialInv, RowInv, Requested, Idle
  <1>4. CASE ReadEvent(r)
    <2>1. req[r] \in Requested
      BY <1>4 DEF ReadEvent, TypeOK, Idle
    <2>2. completions[req[r].entry] = 0 => Fresh([req[r] EXCEPT !.phase = "row"])
      BY <1>3, <2>1 DEF Fresh, Requested
    <2>3. Fresh([req[r] EXCEPT !.phase = "write"])
      BY <1>3, <2>1 DEF Fresh, Requested
    <2>4. completions[req[r].entry] \in Nat
      BY <2>1 DEF TypeOK, Requested
    <2> QED  BY <1>1, <1>4, <2>2, <2>3, <2>4, IdleIsFresh DEF ReadEvent
  <1>5. CASE ReadRowForProgress(r)
    <2> DEFINE q == req[r]
               row == rows[q.entry]
               duration == ProgressDuration(q.entry, row, q.sample)
               completed == InCompletionGrace(q.entry, q.sample)
               new == [Decided(q, row) EXCEPT
                          !.duration = duration, !.completes = completed,
                          !.counts = completed /\ ~row.completed]
    <2>1. q \in Requested /\ row \in Rows
      BY <1>5 DEF ReadRowForProgress, TypeOK, Idle, Requested
    <2> HIDE DEF duration, completed
    <2>2. Fresh(new)
      BY <1>3, <1>5, <2>1 DEF Requested, Decided, Fresh, ReadRowForProgress
    <2> QED  BY <1>1, <1>5, <2>2, IdleIsFresh
             DEF ReadRowForProgress, duration, completed
  <1>6. CASE ReadRowForCompletion(r)
    <2> DEFINE q == req[r]
               row == rows[q.entry]
               duration == CompletionDuration(q.entry, row)
               new == [Decided(q, row) EXCEPT
                          !.sample = duration, !.duration = duration,
                          !.completes = TRUE, !.counts = ~row.completed]
    <2>1. q \in Requested /\ row \in Rows
      BY <1>6 DEF ReadRowForCompletion, TypeOK, Idle, Requested
    <2> HIDE DEF duration
    <2>2. Fresh(new)
      BY <1>3, <1>6, <2>1 DEF Requested, Decided, Fresh, ReadRowForCompletion
    <2> QED  BY <1>1, <1>6, <2>2 DEF ReadRowForCompletion, duration
  <1>7. CASE ReadRowAgain(r)
    <2>1. req[r] \in Requested
      BY <1>7 DEF ReadRowAgain, TypeOK, Idle
    <2>2. Fresh([req[r] EXCEPT !.phase = "write", !.row = rows[req[r].entry]])
      BY <1>3, <1>7, <2>1 DEF Requested, Fresh, ReadRowAgain, Remembers
    <2> QED  BY <1>1, <1>7, <2>2 DEF ReadRowAgain
  <1> QED  BY <1>2, <1>4, <1>5, <1>6, <1>7 DEF Read

LEMMA WriteKeepsSerialInv ==
  ASSUME OneAtATime, TypeOK, RowInv, SerialInv, NEW r \in Requests, Write(r)
  PROVE  SerialInv'
  <1>1. req[r] \in Requested /\ req[r].entry \in Entries
    BY DEF Write, Commits, Rollback, CommitProgress, CommitComplete,
           CommitCompleteAndAdvance, CommitAdvance, CommitClose, TypeOK, Idle, Requested
  <1>2. Fresh(req[r]) /\ req[r] # Idle
    BY <1>1 DEF SerialInv, Requested, Idle
  <1>3. \A s \in Requests : req'[s] = Idle
    BY DEF Write, CommitProgress, CommitComplete, CommitCompleteAndAdvance, CommitAdvance,
           CommitClose, Rollback, Later, Answer, OneAtATime, TypeOK
  <1>4. \A s \in Requests : Fresh(req[s])'
    BY <1>3, IdleIsFresh DEF Fresh
  <1>5. ASSUME StoreCompletion(req[r]), req[r].op # "progress"
        PROVE  CompletedOnce'
    <2>1. req[r].stores => completions[req[r].entry] = 0
      BY <1>2, <1>5 DEF Fresh
    <2> QED  BY <1>1, <1>5, <2>1 DEF StoreCompletion, SerialInv, CompletedOnce, TypeOK
  <1>6. ASSUME AdvanceFrom(req[r].entry)
        PROVE  AdvancesMatchPosition'
    <2>1. req[r].entry = current
      BY <1>2 DEF Fresh
    <2>2. CASE current < LastEntry
      <3>1. /\ current \in Nat /\ current' = current + 1 /\ current + 1 \in Entries
            /\ advances' = [advances EXCEPT ![current + 1] = @ + 1]
        BY <1>6, <2>1, <2>2, PlaybackSessionAssumption DEF AdvanceFrom, TypeOK, Entries
      <3>2. \A e \in Entries : advances[e] = IF 0 < e /\ e <= current THEN 1 ELSE 0
        BY DEF SerialInv, AdvancesMatchPosition
      <3>3. \A e \in Entries : advances'[e] = IF e = current + 1 THEN 1 ELSE advances[e]
        BY <3>1, <3>2 DEF TypeOK
      <3>4. Entries \subseteq Nat
        BY EntriesAreNumbers
      <3> QED  BY <3>1, <3>2, <3>3, <3>4 DEF AdvancesMatchPosition
    <2>3. CASE ~(current < LastEntry)
      BY <1>6, <2>1, <2>3 DEF AdvanceFrom, SerialInv, AdvancesMatchPosition
    <2> QED  BY <2>2, <2>3
  <1>7. (completions' = completions => CompletedOnce')
          /\ (advances' = advances /\ current' = current => AdvancesMatchPosition')
    BY DEF SerialInv, CompletedOnce, AdvancesMatchPosition
  <1>8. CompletedOnce' /\ AdvancesMatchPosition'
    <2>1. CASE CommitComplete(r)
      BY <1>5, <1>7, <2>1 DEF CommitComplete, Commits, session
    <2>2. CASE CommitCompleteAndAdvance(r)
      BY <1>5, <1>6, <2>2 DEF CommitCompleteAndAdvance, Commits
    <2>3. CASE CommitAdvance(r)
      BY <1>6, <1>7, <2>3 DEF CommitAdvance
    <2>4. CASE CommitProgress(r) \/ CommitClose(r) \/ Rollback(r)
      BY <1>7, <2>4 DEF CommitProgress, CommitClose, Rollback, Later, session, events
    <2> QED  BY <2>1, <2>2, <2>3, <2>4 DEF Write
  <1> QED  BY <1>4, <1>8 DEF SerialInv

LEMMA StepKeepsSerialInv ==
  ASSUME OneAtATime, TypeOK, RowInv, SerialInv, [Next]_vars
  PROVE  SerialInv'
  <1>1. CASE Expire \/ UNCHANGED vars
    BY <1>1 DEF Expire, vars, session, events, SerialInv, Fresh, CompletedOnce,
                AdvancesMatchPosition
  <1> QED  BY <1>1, ReadKeepsSerialInv, WriteKeepsSerialInv DEF Next

LEMMA SerialSession ==
  ASSUME OneAtATime
  PROVE  Spec => [](TypeOK /\ RowInv /\ SerialInv)
  <1>1. Init => RowInv /\ SerialInv
    <2>1. Init => AdvancesMatchPosition
      BY EntriesAreNumbers DEF Init, AdvancesMatchPosition
    <2> QED  BY <2>1 DEF Init, RowInv, CompletedRowsExist, Remembers, NoRow, SerialInv,
                         CompletedOnce, Fresh
  <1>2. TypeOK /\ RowInv /\ SerialInv /\ [Next]_vars => RowInv' /\ SerialInv'
    BY StepKeepsRowInv, StepKeepsSerialInv
  <1> QED  BY <1>1, <1>2, TypeCorrect, PTL DEF Spec

(* "Persist the current entry's terminal state once": with one request at a *)
(* time no entry gets a second COMPLETED event.                             *)
THEOREM OneRequestCompletesOnce ==
  ASSUME OneAtATime
  PROVE  Spec => []CompletedOnce
  <1>1. SerialInv => CompletedOnce
    BY DEF SerialInv
  <1> QED  BY <1>1, SerialSession, PTL

(* With one request at a time the session was advanced to every entry up to *)
(* the current one exactly once.                                            *)
THEOREM OneRequestAdvancesInOrder ==
  ASSUME OneAtATime
  PROVE  Spec => []AdvancesMatchPosition
  <1>1. SerialInv => AdvancesMatchPosition
    BY DEF SerialInv
  <1> QED  BY <1>1, SerialSession, PTL

(* With one request at a time a play is counted exactly when the viewer's   *)
(* row becomes completed, by a sample or by a completion.                   *)
THEOREM OneRequestCountsPlays ==
  ASSUME OneAtATime
  PROVE  Spec => PlayCountedOnCompletion
  <1>1. ASSUME TypeOK, RowInv, SerialInv, [Next]_vars
        PROVE  [\A e \in Entries :
                  rows'[e].plays = rows[e].plays +
                    (IF ~rows[e].completed /\ rows'[e].completed THEN 1 ELSE 0)]_vars
    <2> SUFFICES ASSUME Next, NEW e \in Entries
                 PROVE  rows'[e].plays = rows[e].plays +
                          (IF ~rows[e].completed /\ rows'[e].completed THEN 1 ELSE 0)
      BY <1>1
    <2>1. rows[e] \in Rows /\ rows[e].plays \in Nat
      BY <1>1 DEF TypeOK, Rows
    <2>2. CASE rows'[e] = rows[e]
      BY <2>1, <2>2
    <2>3. CASE rows'[e] # rows[e]
      <3>1. PICK r \in Requests :
              /\ IsCommit(r) /\ req[r] \in Requested /\ StoreRow(req[r])
              /\ req[r].stores \/ req[r].op = "progress"
        BY <1>1, <2>3, WhoWritesRows
      <3> DEFINE q == req[r]
                 new == NewRow(q)
      <3>2. q # Idle /\ q.stores
        BY <1>1, <3>1 DEF IsCommit, RowInv, Remembers, Requested, Idle
      <3>3. q.entry = e
        BY <1>1, <2>3, <3>1 DEF StoreRow, TypeOK, Requested
      <3>4. q.row = rows[e] /\ q.counts = (q.completes /\ ~q.row.completed)
        BY <1>1, <3>2, <3>3 DEF SerialInv, Fresh
      <3>5. new \in Rows /\ q.completes \in BOOLEAN
        BY <3>1, NewRowIsARow DEF Requested
      <3>6. new.completed = q.completes /\ new.plays = q.row.plays + (IF q.counts THEN 1 ELSE 0)
        BY DEF NewRow
      <3>7. rows'[e] = IF q.row.exists THEN Update(rows[e], q.row, new) ELSE new
        BY <1>1, <3>1, <3>3 DEF StoreRow, TypeOK
      <3> HIDE DEF new, q
      <3>8. /\ Update(rows[e], q.row, new).completed = new.completed
            /\ Update(rows[e], q.row, new).plays = new.plays
        BY <2>1, <3>4, <3>5 DEF Update, Rows
      <3>9. rows'[e].completed = new.completed /\ rows'[e].plays = new.plays
        BY <3>7, <3>8
      <3>10. rows[e].completed \in BOOLEAN
        BY <2>1 DEF Rows
      <3> QED  BY <2>1, <3>4, <3>5, <3>6, <3>9, <3>10
    <2> QED  BY <2>2, <2>3
  <1> QED  BY <1>1, SerialSession, PTL DEF Spec, PlayCountedOnCompletion

-----------------------------------------------------------------------------
(* "Out-of-order samples are stale": the server compares a sample with the  *)
(* saved position only while that is no further than the duration.  A saved *)
(* position never is: that is what the comparison rests on.                 *)
Saved(e, row) ==
    /\ row.exists \/ row = NoRow
    /\ row.position <= row.duration
    /\ Duration[e] # Unknown => row.position <= Duration[e]

(* What a request that has decided to store will write.                     *)
Stores(q) ==
    q # Idle /\ q.stores =>
        /\ q.sample <= q.duration
        /\ Duration[q.entry] # Unknown => q.sample <= Duration[q.entry]
        /\ q.op = "progress" /\ ~q.seek /\ q.row.exists /\ ~q.row.completed =>
               q.row.position <= q.sample

PositionInv ==
    /\ \A e \in Entries : Saved(e, rows[e])
    /\ \A r \in Requests : Stores(req[r])

LEMMA IdleStoresNothing == Stores(Idle)
  BY DEF Stores

(* A sample that is not ignored is not behind the saved position.           *)
LEMMA SampleIsNotBehind ==
  ASSUME NEW e \in Entries, NEW row \in Rows, Saved(e, row), NEW sample \in Nat, NEW seek \in BOOLEAN,
         NEW duration, duration = ProgressDuration(e, row, sample),
         ~(sample > duration), ~IsOutOfOrder(row, sample, seek, duration)
  PROVE  /\ sample <= duration
         /\ Duration[e] # Unknown => sample <= Duration[e]
         /\ ~seek /\ row.exists /\ ~row.completed => row.position <= sample
  <1>1. duration \in Nat /\ row.position \in Nat /\ row.duration \in Nat
    BY DurationsAreNumbers DEF Rows
  <1>2. Duration[e] # Unknown => Duration[e] \in Nat /\ duration = Duration[e]
    BY PlaybackSessionAssumption DEF ProgressDuration
  <1>3. row.exists => row.position <= duration
    BY <1>1, <1>2 DEF Saved, ProgressDuration, Larger
  <1> QED  BY <1>1, <1>2, <1>3 DEF IsOutOfOrder

LEMMA CompletionStoresItsDuration ==
  ASSUME NEW e \in Entries, NEW row \in Rows
  PROVE  /\ CompletionDuration(e, row) \in Nat
         /\ Duration[e] # Unknown => CompletionDuration(e, row) <= Duration[e]
  BY PlaybackSessionAssumption DEF CompletionDuration, Rows

LEMMA ReadKeepsPositionInv ==
  ASSUME OneAtATime, TypeOK, RowInv, SerialInv, PositionInv, NEW r \in Requests, Read(r)
  PROVE  PositionInv'
  <1>1. ASSUME NEW q, Later(r, q), Stores(q)
        PROVE  PositionInv'
    BY <1>1 DEF Later, PositionInv, TypeOK
  <1>2. CASE \E op \in Operations, expected \in Entries \cup {Anyone} : \E sample, seek :
                ReadSession(r, op, expected, sample, seek)
    BY <1>1, <1>2 DEF ReadSession, Stores
  <1>3. ASSUME req[r] \in Requested
        PROVE  /\ Stores(req[r]) /\ Fresh(req[r]) /\ req[r] # Idle
               /\ rows[req[r].entry] \in Rows /\ req[r].entry \in Entries
               /\ Saved(req[r].entry, rows[req[r].entry])
    BY <1>3 DEF PositionInv, SerialInv, Requested, Idle, TypeOK
  <1>4. CASE ReadEvent(r)
    <2>1. req[r] \in Requested
      BY <1>4 DEF ReadEvent, TypeOK, Idle
    <2>2. \A p \in {"row", "write"} : Stores([req[r] EXCEPT !.phase = p])
      BY <1>3, <2>1 DEF Stores, Requested
    <2> QED  BY <1>1, <1>4, <2>2, IdleStoresNothing DEF ReadEvent
  <1>5. CASE ReadRowForProgress(r)
    <2> DEFINE q == req[r]
               row == rows[q.entry]
               duration == ProgressDuration(q.entry, row, q.sample)
               completed == InCompletionGrace(q.entry, q.sample)
               ignored == \/ q.sample > duration
                          \/ InStartGrace(q.entry, q.sample)
                          \/ IsOutOfOrder(row, q.sample, q.seek, duration)
               new == [Decided(q, row) EXCEPT
                          !.duration = duration, !.completes = completed,
                          !.counts = completed /\ ~row.completed]
    <2>1. q \in Requested /\ row \in Rows
      BY <1>5 DEF ReadRowForProgress, TypeOK, Idle, Requested
    <2>2. ~ignored => /\ q.sample <= duration
                      /\ Duration[q.entry] # Unknown => q.sample <= Duration[q.entry]
                      /\ ~q.seek /\ row.exists /\ ~row.completed => row.position <= q.sample
      <3>1. q.sample \in Nat /\ q.seek \in BOOLEAN
        BY <2>1 DEF Requested
      <3> QED  BY <1>3, <2>1, <3>1, SampleIsNotBehind
    <2>3. req'[r] = Idle \/ ~ignored
      BY <1>5 DEF ReadRowForProgress, Later, TypeOK
    <2>4. Later(r, IF ignored THEN Idle ELSE new)
      BY <1>5 DEF ReadRowForProgress
    <2> HIDE DEF duration, completed, ignored
    <2>5. /\ new.sample = q.sample /\ new.duration = duration /\ new.entry = q.entry
          /\ new.row = row /\ new.op = q.op /\ new.seek = q.seek
      BY <2>1 DEF Decided, Requested
    <2> HIDE DEF new, q, row
    <2>6. ~ignored => Stores(new)
      BY <2>2, <2>5 DEF Stores
    <2>7. Stores(IF ignored THEN Idle ELSE new)
      BY <2>6, IdleStoresNothing
    <2> QED  BY <1>1, <2>4, <2>7
  <1>6. CASE ReadRowForCompletion(r)
    <2> DEFINE q == req[r]
               row == rows[q.entry]
               duration == CompletionDuration(q.entry, row)
               new == [Decided(q, row) EXCEPT
                          !.sample = duration, !.duration = duration,
                          !.completes = TRUE, !.counts = ~row.completed]
    <2>1. q \in Requested /\ row \in Rows /\ q.op # "progress"
      BY <1>6 DEF ReadRowForCompletion, TypeOK, Idle, Requested
    <2>2. duration \in Nat /\ (Duration[q.entry] # Unknown => duration <= Duration[q.entry])
      BY <1>3, <2>1, CompletionStoresItsDuration
    <2>3. Later(r, new)
      BY <1>6 DEF ReadRowForCompletion
    <2> HIDE DEF duration
    <2>4. /\ new.sample = duration /\ new.duration = duration /\ new.entry = q.entry
          /\ new.op = q.op
      BY <2>1 DEF Decided, Requested
    <2> HIDE DEF new
    <2>5. Stores(new)
      BY <2>1, <2>2, <2>4 DEF Stores
    <2> QED  BY <1>1, <2>3, <2>5
  <1>7. CASE ReadRowAgain(r)
    <2> DEFINE q == req[r]
               new == [q EXCEPT !.phase = "write", !.row = rows[q.entry]]
    <2>1. q \in Requested /\ q.phase = "again"
      BY <1>7 DEF ReadRowAgain, TypeOK, Idle
    <2>2. q.stores
      BY <1>3, <2>1 DEF RowInv, Remembers
    <2>3. q.row = rows[q.entry]
      BY <1>3, <2>1, <2>2 DEF Fresh
    <2>4. Stores(new)
      BY <1>3, <2>1, <2>3 DEF Stores, Requested
    <2> QED  BY <1>1, <1>7, <2>4 DEF ReadRowAgain
  <1> QED  BY <1>2, <1>4, <1>5, <1>6, <1>7 DEF Read

(* What a request stores replaces position and duration by its own.         *)
LEMMA StoredPosition ==
  ASSUME TypeOK, RowInv, SerialInv, NEW r \in Requests, req[r] \in Requested, req[r].stores,
         StoreRow(req[r])
  PROVE  /\ rows'[req[r].entry].position = req[r].sample
         /\ rows'[req[r].entry].duration = req[r].duration
         /\ \A e \in Entries \ {req[r].entry} : rows'[e] = rows[e]
  <1> DEFINE q == req[r]
             now == rows[q.entry]
             new == NewRow(q)
  <1>1. q.entry \in Entries /\ now \in Rows /\ new \in Rows /\ q # Idle
    BY NewRowIsARow DEF TypeOK, Requested, Idle
  <1>2. q.row = now
    BY <1>1 DEF SerialInv, Fresh
  <1>3. rows'[q.entry] = IF now.exists THEN Update(now, now, new) ELSE new
    BY <1>1, <1>2 DEF StoreRow, TypeOK
  <1>4. new.position = q.sample /\ new.duration = q.duration
    BY DEF NewRow
  <1>5. \A e \in Entries \ {q.entry} : rows'[e] = rows[e]
    BY <1>1 DEF StoreRow, TypeOK
  <1> HIDE DEF new, now
  <1>6. /\ Update(now, now, new).position = new.position
        /\ Update(now, now, new).duration = new.duration
    BY <1>1 DEF Update, Rows
  <1> QED  BY <1>3, <1>4, <1>5, <1>6

LEMMA WriteKeepsPositionInv ==
  ASSUME OneAtATime, TypeOK, RowInv, SerialInv, PositionInv, NEW r \in Requests, Write(r)
  PROVE  PositionInv'
  <1>1. req[r] \in Requested
    BY DEF Write, Commits, Rollback, CommitProgress, CommitComplete,
           CommitCompleteAndAdvance, CommitAdvance, CommitClose, TypeOK, Idle
  <1>2. \A s \in Requests : req'[s] = Idle
    BY DEF Write, CommitProgress, CommitComplete, CommitCompleteAndAdvance, CommitAdvance,
           CommitClose, Rollback, Later, Answer, OneAtATime, TypeOK
  <1>3. \A e \in Entries : Saved(e, rows'[e])
    <2>1. CASE rows' = rows
      BY <2>1 DEF PositionInv
    <2>2. CASE rows' # rows
      <3>1. ~Conflict(req[r]) /\ StoreRow(req[r]) /\ req[r].stores
        BY <1>1, <2>2 DEF Write, CommitProgress, CommitComplete,
          CommitCompleteAndAdvance, CommitAdvance, CommitClose, Rollback, Later,
          StoreCompletion, Commits, RowInv, Remembers, Requested, Idle
      <3>2. /\ rows'[req[r].entry].position = req[r].sample
            /\ rows'[req[r].entry].duration = req[r].duration
            /\ \A e \in Entries \ {req[r].entry} : rows'[e] = rows[e]
        BY <1>1, <3>1, StoredPosition
      <3>3. rows'[req[r].entry].exists
        BY <1>1, <3>1, StoredRowExists
      <3>4. Stores(req[r]) /\ req[r] # Idle
        BY <1>1 DEF PositionInv, Requested, Idle
      <3> QED  BY <3>1, <3>2, <3>3, <3>4 DEF Saved, Stores, PositionInv
    <2> QED  BY <2>1, <2>2
  <1> QED  BY <1>2, <1>3, IdleStoresNothing DEF PositionInv

LEMMA StepKeepsPositionInv ==
  ASSUME OneAtATime, TypeOK, RowInv, SerialInv, PositionInv, [Next]_vars
  PROVE  PositionInv'
  <1>1. CASE Expire \/ UNCHANGED vars
    BY <1>1 DEF Expire, vars, PositionInv
  <1> QED  BY <1>1, ReadKeepsPositionInv, WriteKeepsPositionInv DEF Next

(* "Out-of-order samples are stale; retain the newer saved position": with  *)
(* one request at a time a sample that is no seek never moves the position  *)
(* of an unfinished row back, for any queue, durations and samples.         *)
THEOREM OneRequestKeepsNewerPosition ==
  ASSUME OneAtATime
  PROVE  Spec => NewerPositionRetained
  <1>1. Init => PositionInv
    <2>1. \A e \in Entries : Saved(e, NoRow)
      BY PlaybackSessionAssumption DEF Saved, NoRow
    <2> QED  BY <2>1, IdleStoresNothing DEF Init, PositionInv
  <1>2. ASSUME TypeOK, RowInv, SerialInv, PositionInv, [Next]_vars
        PROVE  [\A r \in Requests :
                  LET q == req[r]
                  IN  IsCommit(r) /\ q.op = "progress" /\ ~q.seek /\ ~rows[q.entry].completed
                        => rows'[q.entry].position >= rows[q.entry].position]_vars
    <2> SUFFICES ASSUME Next, NEW r \in Requests, IsCommit(r), req[r].op = "progress",
                        ~req[r].seek, ~rows[req[r].entry].completed
                 PROVE  rows'[req[r].entry].position >= rows[req[r].entry].position
      BY <1>2
    <2>1. req[r] \in Requested
      BY <1>2 DEF IsCommit, TypeOK, Idle
    <2>2. req[r] # Idle /\ req[r].stores
      BY <1>2, <2>1 DEF IsCommit, RowInv, Remembers, Requested, Idle
    <2>3. rows[req[r].entry] \in Rows /\ req[r].entry \in Entries /\ req[r].sample \in Nat
      BY <1>2, <2>1 DEF TypeOK, Requested
    <2>4. req[r].row = rows[req[r].entry]
      BY <1>2, <2>2 DEF SerialInv, Fresh
    <2>5. Stores(req[r]) /\ Saved(req[r].entry, rows[req[r].entry])
      BY <1>2, <2>3 DEF PositionInv
    <2>6. rows[req[r].entry].position <= req[r].sample
      <3>1. CASE rows[req[r].entry].exists
        BY <2>2, <2>4, <2>5, <3>1 DEF Stores
      <3>2. CASE ~rows[req[r].entry].exists
        BY <2>3, <2>5, <3>2 DEF Saved, NoRow
      <3> QED  BY <3>1, <3>2
    <2>7. CASE rows' = rows
      BY <2>3, <2>7 DEF Rows
    <2>8. CASE rows' # rows
      <3>1. PICK s \in Requests : IsCommit(s) /\ req[s] \in Requested /\ StoreRow(req[s])
        BY <1>2, <2>8, WhoWritesRows
      <3>2. s = r
        BY OneAtATime DEF OneAtATime
      <3>3. rows'[req[r].entry].position = req[r].sample
        BY <1>2, <2>1, <2>2, <3>1, <3>2, StoredPosition
      <3> QED  BY <2>3, <2>6, <3>3 DEF Rows
    <2> QED  BY <2>7, <2>8
  <1>3. TypeOK /\ RowInv /\ SerialInv /\ PositionInv /\ [Next]_vars => PositionInv'
    BY StepKeepsPositionInv
  <1> QED  BY <1>1, <1>2, <1>3, SerialSession, PTL DEF Spec, NewerPositionRetained
=============================================================================

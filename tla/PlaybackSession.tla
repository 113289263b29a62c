-------------------------- MODULE PlaybackSession ---------------------------
(***************************************************************************)
(* One playback session of Katalog: a persisted queue with a current entry *)
(* that players report progress to, complete, advance and close.           *)
(*                                                                         *)
(* Each request is a transaction that is not immediate: it reads the       *)
(* session, then the events and the viewer's row of the current entry, and *)
(* takes SQLite's writer lock with its first write only.  What it read     *)
(* before may be stale by then.  The ORM updates the columns whose value   *)
(* differs from the value that was read, so a stale writer overwrites some *)
(* columns of a row and leaves others.                                     *)
(***************************************************************************)
EXTENDS Naturals

CONSTANTS
    LastEntry,     \* position of the last queue entry; the first is 0
    Duration,      \* Duration[e]: length of entry e's media file, or Unknown
    Unknown,       \* a media file whose duration was not probed
    MaxGrace,      \* PLAYBACK_SESSION_PROGRESS_MAX_GRACE_PERIOD_SECONDS
    Samples,       \* the positions players report
    Operations,    \* the operations players call
    Requests,      \* requests the server works on at the same time
    MaxCount       \* bound on play counts and on events of one kind (code: none)

Entries == 0..LastEntry
Anyone == LastEntry + 1    \* no expected entry position in the request

ASSUME PlaybackSessionAssumption ==
    /\ LastEntry \in Nat /\ Samples \subseteq Nat /\ MaxGrace \in Nat
    /\ MaxCount \in Nat
    /\ Unknown \notin Nat
    /\ Duration \in [Entries -> (Nat \ {0}) \cup {Unknown}]
    /\ Operations \subseteq {"progress", "complete", "completeAndAdvance", "advance", "close"}

VARIABLES
    expired,     \* the session's time to live is over
    closed,      \* closed_at is set
    current,     \* current_entry_position
    rows,        \* the viewer's playback_state row for each entry's item
    completions, \* COMPLETED events of each entry
    advances,    \* ADVANCED events of each entry
    req          \* what each request has read and decided so far

session == <<expired, closed, current>>
events == <<completions, advances>>
vars == <<session, rows, events, req>>

NoRow == [exists |-> FALSE, position |-> 0, duration |-> 0, completed |-> FALSE,
          plays |-> 0]
Idle == [phase |-> "idle"]

Init ==
    /\ expired = FALSE /\ closed = FALSE /\ current = 0
    /\ rows = [e \in Entries |-> NoRow]
    /\ completions = [e \in Entries |-> 0]
    /\ advances = [e \in Entries |-> 0]
    /\ req = [r \in Requests |-> Idle]

(* _require_active_session *)
Active == ~closed /\ ~expired

-----------------------------------------------------------------------------
Larger(a, b) == IF a > b THEN a ELSE b

ProgressDuration(e, row, position) ==
    IF Duration[e] # Unknown THEN Duration[e]
    ELSE IF row.exists THEN Larger(row.duration, position) ELSE position

CompletionDuration(e, row) ==
    IF Duration[e] # Unknown THEN Duration[e] ELSE row.duration

(* A tenth of the duration, at most MaxGrace. *)
GracePeriod(e) ==
    IF Duration[e] = Unknown \/ Duration[e] >= 10 * MaxGrace THEN MaxGrace
    ELSE Duration[e] \div 10

InStartGrace(e, position) == position < GracePeriod(e)

InCompletionGrace(e, position) ==
    Duration[e] # Unknown /\ Duration[e] <= position + GracePeriod(e)

(* Mutant: a row saved at its very end does not count as newer. *)
IsOutOfOrder_BeforeTheEnd(row, sample, seek, duration) ==
    ~seek /\ row.exists /\ ~row.completed
        /\ sample < row.position /\ row.position < duration

(* Behind the saved position of an unfinished row, and not a seek. *)
IsOutOfOrder(row, sample, seek, duration) ==
    ~seek /\ row.exists /\ ~row.completed
        /\ sample < row.position /\ row.position <= duration

-----------------------------------------------------------------------------
Expire ==
    /\ ~expired /\ expired' = TRUE
    /\ UNCHANGED <<closed, current, rows, events, req>>

(* The entries a request may name and still be carried out: the current one *)
(* or, in requests that leave it out, none.  A sample or completion of an   *)
(* earlier entry is answered with the session as it is, one of a later      *)
(* entry is refused.                                                        *)
Acceptable(op, expected) ==
    \/ expected = current /\ op \in {"progress", "complete", "completeAndAdvance"}
    \/ expected = Anyone /\ op # "completeAndAdvance"

Later(r, q) == req' = [req EXCEPT ![r] = q] /\ UNCHANGED <<session, rows, events>>

(* First read of every request: the session row and its current entry. *)
ReadSession(r, op, expected, sample, seek) ==
    /\ req[r] = Idle /\ Active /\ Acceptable(op, expected)
    /\ Later(r, [phase |-> CASE op = "progress" -> "row"
                             [] op \in {"advance", "close"} -> "write"
                             [] OTHER -> "event",
                 op |-> op, expected |-> expected, entry |-> current,
                 sample |-> sample, seek |-> seek, duration |-> 0, row |-> NoRow,
                 stores |-> FALSE, completes |-> FALSE, counts |-> FALSE])

(* Mutant: a completion does not look for an earlier one. *)
ReadEvent_Skipped(r) ==
    /\ req[r].phase = "event"
    /\ Later(r, [req[r] EXCEPT !.phase = "row"])

(* _complete_current_session_entry: with a COMPLETED event there is nothing *)
(* left to store.                                                           *)
ReadEvent(r) ==
    LET q == req[r]
        done == completions[q.entry] > 0
    IN  /\ q.phase = "event"
        /\ Later(r, IF ~done THEN [q EXCEPT !.phase = "row"]
                    ELSE IF q.op = "complete" THEN Idle
                    ELSE [q EXCEPT !.phase = "write"])

(* record_playback_progress selects the row once more, which tells a        *)
(* request that has a row already nothing new.                              *)
Decided(q, row) == [q EXCEPT !.row = row, !.stores = TRUE,
                             !.phase = IF row.exists THEN "write" ELSE "again"]

ReadRowForProgress(r) ==
    LET q == req[r]
        row == rows[q.entry]
        duration == ProgressDuration(q.entry, row, q.sample)
        completed == InCompletionGrace(q.entry, q.sample)
        ignored == \/ q.sample > duration
                   \/ InStartGrace(q.entry, q.sample)
                   \/ IsOutOfOrder(row, q.sample, q.seek, duration)
    IN  /\ q.phase = "row" /\ q.op = "progress"
        /\ Later(r, IF ignored THEN Idle
                    ELSE [Decided(q, row) EXCEPT
                            !.duration = duration, !.completes = completed,
                            !.counts = completed /\ ~row.completed])

(* Mutant: every completion counts as a play. *)
ReadRowForCompletion_AlwaysCounts(r) ==
    LET q == req[r]
        row == rows[q.entry]
        duration == CompletionDuration(q.entry, row)
    IN  /\ q.phase = "row" /\ q.op # "progress"
        /\ Later(r, [Decided(q, row) EXCEPT
                        !.sample = duration, !.duration = duration,
                        !.completes = TRUE, !.counts = TRUE])

ReadRowForCompletion(r) ==
    LET q == req[r]
        row == rows[q.entry]
        duration == CompletionDuration(q.entry, row)
    IN  /\ q.phase = "row" /\ q.op # "progress"
        /\ Later(r, [Decided(q, row) EXCEPT
                        !.sample = duration, !.duration = duration,
                        !.completes = TRUE, !.counts = ~row.completed])

ReadRowAgain(r) ==
    /\ req[r].phase = "again"
    /\ Later(r, [req[r] EXCEPT !.phase = "write", !.row = rows[req[r].entry]])

-----------------------------------------------------------------------------
(* Everything from the first write to the commit. *)

(* Mutant: an UPDATE that writes every column. *)
Update_AllColumns(now, seen, new) == new

(* The columns of an UPDATE: those whose value differs from the value read. *)
Update(now, seen, new) ==
    [f \in DOMAIN now |-> IF new[f] = seen[f] THEN now[f] ELSE new[f]]

(* _store_playback_progress *)
NewRow(q) ==
    [exists |-> TRUE, position |-> q.sample, duration |-> q.duration,
     completed |-> q.completes,
     plays |-> q.row.plays + (IF q.counts THEN 1 ELSE 0)]

StoreRow(q) ==
    /\ NewRow(q).plays <= MaxCount
    /\ rows' = [rows EXCEPT ![q.entry] = IF q.row.exists THEN Update(@, q.row, NewRow(q))
                                         ELSE NewRow(q)]

(* The INSERT of a row that exists by now breaks the unique index. *)
Conflict(q) == q.stores /\ ~q.row.exists /\ rows[q.entry].exists

Commits(r, op) == req[r].phase = "write" /\ req[r].op = op /\ ~Conflict(req[r])

Answer(r) == req' = [req EXCEPT ![r] = Idle]

CommitProgress(r) ==
    /\ Commits(r, "progress")
    /\ StoreRow(req[r])
    /\ Answer(r)
    /\ UNCHANGED <<session, events>>

StoreCompletion(q) ==
    IF q.stores
    THEN /\ StoreRow(q)
         /\ completions[q.entry] < MaxCount
         /\ completions' = [completions EXCEPT ![q.entry] = @ + 1]
    ELSE UNCHANGED <<rows, completions>>

(* Mutant: an advance from the last entry starts over. *)
AdvanceFrom_WrapsAround(e) ==
    LET next == IF e < LastEntry THEN e + 1 ELSE 0
    IN  /\ advances[next] < MaxCount
        /\ current' = next
        /\ advances' = [advances EXCEPT ![next] = @ + 1]

(* _advance_current_session_entry: to the entry after the one that was read, *)
(* if there is one.                                                          *)
AdvanceFrom(e) ==
    IF e < LastEntry
    THEN /\ advances[e + 1] < MaxCount
         /\ current' = e + 1
         /\ advances' = [advances EXCEPT ![e + 1] = @ + 1]
    ELSE UNCHANGED <<current, advances>>

CommitComplete(r) ==
    /\ Commits(r, "complete")
    /\ StoreCompletion(req[r])
    /\ Answer(r)
    /\ UNCHANGED <<session, advances>>

CommitCompleteAndAdvance(r) ==
    /\ Commits(r, "completeAndAdvance")
    /\ StoreCompletion(req[r])
    /\ AdvanceFrom(req[r].entry)
    /\ Answer(r)
    /\ UNCHANGED <<expired, closed>>

(* Past the last entry the advance is refused and changes nothing. *)
CommitAdvance(r) ==
    /\ Commits(r, "advance")
    /\ AdvanceFrom(req[r].entry)
    /\ Answer(r)
    /\ UNCHANGED <<expired, closed, rows, completions>>

CommitClose(r) ==
    /\ Commits(r, "close")
    /\ closed' = TRUE
    /\ Answer(r)
    /\ UNCHANGED <<expired, current, rows, events>>

Rollback(r) == req[r].phase = "write" /\ Conflict(req[r]) /\ Later(r, Idle)

-----------------------------------------------------------------------------
Read(r) ==
    \/ \E expected \in Entries \cup {Anyone}, sample \in Samples, seek \in BOOLEAN :
          "progress" \in Operations /\ ReadSession(r, "progress", expected, sample, seek)
    \/ \E op \in Operations \ {"progress"}, expected \in Entries \cup {Anyone} :
          ReadSession(r, op, expected, 0, FALSE)
    \/ ReadEvent(r) \/ ReadRowForProgress(r) \/ ReadRowForCompletion(r) \/ ReadRowAgain(r)

Write(r) ==
    \/ CommitProgress(r) \/ CommitComplete(r) \/ CommitCompleteAndAdvance(r)
    \/ CommitAdvance(r) \/ CommitClose(r) \/ Rollback(r)

Next == Expire \/ \E r \in Requests : Read(r) \/ Write(r)

Spec == Init /\ [][Next]_vars

-----------------------------------------------------------------------------
Rows == [exists : BOOLEAN, position : Nat, duration : Nat, completed : BOOLEAN,
         plays : Nat]

Requested ==
    [phase : {"event", "row", "again", "write"}, op : Operations,
     expected : Entries \cup {Anyone}, entry : Entries, sample : Nat,
     seek : BOOLEAN, duration : Nat, row : Rows, stores : BOOLEAN,
     completes : BOOLEAN, counts : BOOLEAN]

TypeOK ==
    /\ expired \in BOOLEAN /\ closed \in BOOLEAN
    /\ current \in Entries
    /\ rows \in [Entries -> Rows]
    /\ completions \in [Entries -> Nat] /\ advances \in [Entries -> Nat]
    /\ req \in [Requests -> {Idle} \cup Requested]

(* "Persist the current entry's terminal state once": an entry has at most   *)
(* one COMPLETED event.                                                     *)
CompletedOnce == \A e \in Entries : completions[e] <= 1

(* The event log and the position agree: the session was advanced to every  *)
(* entry up to the current one exactly once, and to no other.               *)
AdvancesMatchPosition ==
    \A e \in Entries : advances[e] = (IF 0 < e /\ e <= current THEN 1 ELSE 0)

IsCommit(r) == req[r].phase = "write" /\ ~Conflict(req[r]) /\ req'[r] = Idle

(* "Out-of-order samples are stale; retain the newer saved position": a     *)
(* sample that is no seek never moves an unfinished row backwards.          *)
NewerPositionRetained ==
    [][\A r \in Requests :
          LET q == req[r]
          IN  IsCommit(r) /\ q.op = "progress" /\ ~q.seek /\ ~rows[q.entry].completed
              => rows'[q.entry].position >= rows[q.entry].position]_vars

(* A sample that was on its way while the entry was completed does not take *)
(* the completion back: only a request that read the completed row does.    *)
LateSampleKeepsCompletion ==
    [][\A e \in Entries :
          rows[e].completed /\ ~rows'[e].completed =>
              \E r \in Requests : IsCommit(r) /\ req[r].row.completed]_vars

(* A play is counted exactly when a row becomes completed. *)
PlayCountedOnCompletion ==
    [][\A e \in Entries :
          rows'[e].plays = rows[e].plays +
              (IF ~rows[e].completed /\ rows'[e].completed THEN 1 ELSE 0)]_vars
=============================================================================

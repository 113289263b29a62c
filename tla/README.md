# Kasana: specifications and proofs

Kasana is a self-hosted media library. **Katalog** keeps the catalogue, the
viewers' watched state, playback sessions and background jobs in SQLite and
serves them over HTTP; **Kanvas** is the web front end; **Kestrel** drives a
desktop player; **Kourier** talks to metadata providers. This directory holds
TLA+ models of the parts whose order of events matters, the TLC runs that check
them on small instances, and TLAPS proofs of the results that should hold for
every instance. Paths below are relative to `src/src/kasana/`.

- `PROJECT.json` lists components, runs, mutants (one deliberate bug per checked
  property, which the property must catch), the source lines every definition
  stands for, hazards, findings and theorems.
- Check one run: `tlc -config Editing.cfg MCEditing`. Check the
  proofs of a module: `tlapm WatchStateProofs.tla`.

## 1. The system

| Component | State it keeps | Operations | What must hold |
| --- | --- | --- | --- |
| Watched state (`katalog/services.py`, `katalog/api/service.py`) | `playback_state` rows per viewer and item; `user.playback_state_revision` | save progress, mark watched, clear; scans, edits and removals change the tree below | season and series rows follow their children; no row without item; a saved grid that is shown again is current; the tree keeps its shape |
| Playback sessions (`katalog/api/service.py` 2760-3110) | session row, queue entries, event log, the viewer's row of each entry | progress sample, complete, complete-and-advance, advance, close | one completion per entry, log and position agree, saved position does not go back |
| Maintenance jobs (`katalog/api/jobs.py`) | job rows; tasks, cancellation events and a lock in the process | recover, submit, run, cancel, clear, close | one active scan per root, ended jobs stay ended, every job ends, closing returns |
| Watch orders (`katalog/api/service.py` 1855-2276, 5638-6080) | numbered entries, revision | create, replace, insert, move, remove, generate; item deletion, merges, root removal | positions without gaps, edits do what they say, an edit is made only by an editor who saw the order |
| Collections (`katalog/api/service.py` 1487-1913) | members, artwork item, default order, revision | one batch of changes against an expected revision | artwork is a member; a batch is made whole or refused |
| Browser player (`kanvas/static/kanvas-playback.js`) | entry, delivery, media element, report queue, completion flag; tracks and their saves; popups, timers, audio graph | load, seek, recover, report, flush on page hide, complete, advance; select tracks; open and hide controls, set the volume | reports name their medium and none is lost while the page stays, completion ends, what is heard, drawn and saved follows the selection |
| Library grid (`kanvas/static/kanvas.js`) | window of pages, cursors, grids saved by source and revision | load, evict, restore, retry | a piece of the catalogue without gaps; loading does not stop at an empty page |
| Alerts, notifications (`kanvas.js`) | polling state, the feed shown; toasts, timers, the queue's request | poll, acknowledge, go offline; add, dismiss, consume | polling goes on and settles; queued notifications are read |
| Watch-order editor (`kanvas/static/kanvas-watch-orders.js`) | draft, baseline, revision, undo history, selection, preview | move, add, remove, undo, preview, save, review | a merge loses nothing; a save replaces only what the viewer was shown |
| Item editor (`kanvas/static/kanvas-item-editor.js`) | form, locks, eligible parents, dirty and saving flags | change the kind, choose a parent, save, match, remove, discard | parent and locks that are sent fit the kind and the administrator's choice |
| Collection pages (`kanvas/static/kanvas-collection-mode.js`, `kanvas.js`) | contexts by collection, undo, builder's details, picker's staged changes | change a membership, undo, edit details, stage and save | nothing older than the revision that is sent is shown; undo restores; success is true |
| Administration (`kanvas/static/kanvas-administration.js`) | polling state, issue panels, the job that is followed | load, open panels, submit and confirm operations | panels never show issues older than a change the page knows of |
| Scanning (`katalog/scanning/*`) | files, availability, findings, the item tree | discover, classify, reconcile, audit | the tree keeps its shape |
| Hierarchy repair (`katalog/repair.py`) | plans | plan, apply, merge | nothing of a viewer is lost in a merge |
| Grants and tokens, incidents, user configuration, backup, metadata, artwork cache (`katalog/`) | rows and files of their own | see section 5 | – |
| Desktop player (`kestrel/player.py`) | mpv connection, current entry | report, complete, advance, reconnect once | as the browser player |
| Provider client (`kourier/http.py`) | request slots, shared HTTP session | paced requests, retries | rate respected, retries bounded |
| Others | – | HTTP contracts, parsing, probing, naming, command line, view models, migrations, shared executor | – |

### How the parts interact

Every HTTP request of Katalog runs its database work on a thread of a bounded
executor (`shared/concurrency.py`), in a SQLAlchemy session of its own
(`katalog/database.py`). SQLite has one writer. A transaction started with
`run_transaction(..., immediate=True)` takes the writer lock with its first
statement; collections, watch orders, item deletion, root deletion, incidents
and repairs do. Every other transaction reads without a lock, one committed
state per SELECT, and takes the lock with its first INSERT, UPDATE or DELETE.
**What such a request read before may be stale when it writes**; this is the
source of nearly all the behaviour modelled here. Two details decide what a
stale writer does:

- an UPDATE of an ORM object writes only the columns whose value differs from
  the value that was loaded, so a stale writer overwrites some columns of a row
  and leaves others as another request wrote them;
- an UPDATE or DELETE that matches no row, an INSERT against a unique index and
  a foreign key to a row that is gone all fail the request, which rolls back.

Background jobs are asyncio tasks that use the same executor; every `await` is a
point where other tasks run. Players (browser and desktop) send progress samples
on a timer and when the page is hidden, retry completions, and may be several at
once for one viewer. Repairs, scans and removals change rows under all of them.

The pages of Kanvas are custom elements on one JavaScript thread: an event
handler runs to its next `await`, and every `fetch`, timer, animation frame,
media event and change of visibility may come in between, in any order. Three
devices of the code decide what a late answer may still do, and they are what
the browser modules are about: **version counters** (`deliveryRequestVersion`,
`generation`, `parentChoiceLoad`), modelled by a mark on the newest request or
by the number itself; **abort controllers**, which may come too late to keep the
server from acting; and **busy flags** with an "again" flag beside them
(`loading`/`loadAgain`, `consuming`/`consumeAgain`, `inFlight`/`reloadPending`).

### What is hard

Overlapping requests (stale reads, lost updates, double inserts); late or
repeated samples and completions; cancels that race a job's start; crashes that
leave job rows behind; an order read in pages while it is edited; positions in an
order under a unique index that SQLite checks row by row; the side effects a
removal, a merge or a scan owes to other tables; and in the browser answers that
arrive late, twice, never or for what is no longer shown, while handlers share
flags across `await`. The list, with lines, is `hazards` in `PROJECT.json`.

## 2. Modules

| Module | Is |
| --- | --- |
| `WatchState` | the watched-state operations and the changes of the tree, one step each |
| `WatchRequests` | the same operations as overlapping requests, split where the writer lock is taken; extends `WatchState` |
| `TreeEdits` | overlapping edits, scans and removals of the tree; extends `WatchState` |
| `SavedGrids` | the poster grids a browser keeps under the viewer's revision, beside the requests; extends `WatchRequests` |
| `PlaybackSession` | one session under overlapping requests |
| `MaintenanceJobs` | the job registry, its process and its rows |
| `WatchSequence` | what a watch order promises: a sequence of items |
| `WatchOrder` | the numbered rows, upkeep and editors that implement it |
| `BrowserPlayer` | entries, deliveries, reports, recovery and completion of the browser player |
| `TrackSelection` | its audio and subtitle selection, the saves and what is drawn and heard |
| `PlayerControls` | its popups, hiding controls, fullscreen and volume |
| `LibraryGrid` | the windowed poster grid and the server's pages |
| `SystemAlerts`, `Toasts` | the polled alerts; the notifications and their queue |
| `OrderEditor` | the page that drafts a watch order |
| `ItemEditor` | the page that edits an item |
| `CollectionEditing` | collection mode and the builder beside it, over one collection |
| `CollectionPicker` | the dialog that puts an item into collections |
| `Administration` | the administration page |
| `MC*` | instances for TLC; they give constants their values and replace nothing |
| `*Proofs` | theorems about the module they extend |

The number of runs is kept small by checking parts that share no state in one run:
`MCLivePages`, `MCBrowserPages`, `MCEditing`, `MCSessions` and `MCCatalogueEdits`
choose a part in the initial state, leave the variables of the others at rest, and
state each property for its part.

### WatchState

`kind`, `parent` and `media` are the columns of `library_item` and the existence
of media files; `watch[u][i]` is viewer `u`'s row for item `i`, of which only
"no row", "row, not completed" and "row, completed" matter here; `revision[u]` is
`user.playback_state_revision`. `UpdateProgress`, `MarkWatched` and `ClearWatched`
are the three service methods, including their trailing roll-up
(`synchronise_parent_completions`: seasons first, then series, whose roll-up sees
the season rows just written) and the bump of the revision. A scan (`ScanFile`)
comes upon a file: of the rows from the file's root down to its item (`FilePaths`)
it finds the first few (`Found`) and inserts the rest (`InsertRows`), as
`materialise_item` does. `DeleteItem` cascades to the subtree and bumps the viewers
who lose rows. Season and episode numbers, titles, timestamps and positions are
data the properties do not tell apart.

### WatchRequests

A request first reads (`Read`: item, items it stands for, containers, its own rows)
and later writes everything in one step (`Commit`), because from the first write on
it holds the lock. `lost` remembers rows it has loaded that somebody deleted since:
writing one of those fails (`Rollback`), as does an INSERT against an existing row
or a missing item. A clear that finds no row to delete **writes nothing in its first
flush**, so it goes on without the lock, and each of its SELECTs is a step:
`ClearFindsNothing`, `CountChildren` (the countable children of the next container)
and `CountIncomplete` (their completed rows), then `KeepContainer` when the
container's row is as it should be, or `PlanCorrection`, which looks the row up, and
`CorrectContainer` or `FailCorrection`, which write it or find that it cannot be
inserted (there is a row by now, or no container); at the end `ReadRevision` and
`WriteRevision`. These are `UnlockedNext`;
the rest is `LockedNext`, which is all there is to progress and marks
(`LockedSpec`). Scans and removals are one step in this module: what matters here is
where they fall between a request's reads and its commit; how scans and edits race
one another is the next module.

### TreeEdits

`update_item` validates (service.py 1035) and writes later, in a transaction that
takes the lock with its first flush (1148), and `apply_scan` reads the items of its
root before it inserts. So `ValidateEdit` and `WriteEdit`, `ReadForScan` and
`WriteScan` are steps of their own; what was read is kept in `txn`. An edit writes
the columns that differ from the row as it read it, and fails if the row is gone or
the new parent is; so does a scan. A removal is immediate: one step. `stale` in a
transaction says that another edit or scan has written since it read, and `raced`
that one wrote nevertheless: both are history. The reads of one transaction are one
step: a write between two of them is a race as much as one after them, and is not
told apart.

### SavedGrids

`OpenGrid` renders a grid with the viewer's revision; `LoadPage` takes a poster's
watched state as the server has it then, which may be later and may be repeated
after an eviction. The grid is stored under the revision it was rendered with and
shown again, without a request, whenever the page is rendered with that revision.
`wentBack` is history: a step of the server has set the viewer's revision to a
lower one.

### PlaybackSession

`current`, `closed`, `expired` are the session; `completions[e]` and `advances[e]`
count the events of entry `e`; `rows[e]` is the viewer's row with position,
duration, completed flag and play count. A request reads the session
(`ReadSession`, which refuses inactive sessions and entries that are not the
current one), the event log (`ReadEvent`), the row (`ReadRowFor...`, where the
grace periods and the out-of-order test decide) and, when it found no row, the
row again as `record_playback_progress` does; it then commits. `Update` is the
ORM's column-wise UPDATE. `Conflict` is the unique index on viewer and item.
Time is discrete; a sample is a member of `Samples`. Track selections, media
tokens, planning of the queue, deletion of items (which closes sessions) and
edits of queue rows by other operations are left out.

### MaintenanceJobs

`status` and `requested` are the row, `task` is where the task is in `submit` and
`_run`, `event` is the in-process cancellation event and `cancel` where a cancel
request is and what it read. `_start` and `cancel` each read and write in a
transaction that is not immediate, hence two steps; the duplicate check and the
insert of `submit` run under the registry's lock and are one. `Crash` loses
tasks and events and keeps rows, `Recover` marks what it finds active. `Close`
sets every event under the lock and then waits without it. Progress reports write
no status, so they are not actions; nothing calls `prune`. Failing database
operations inside `_start` and `_transition` are not modelled.

### WatchOrder and WatchSequence

`position` maps the items that have an entry to their position; the unique index
on order and item makes item and entry interchangeable. Every edit names the
revision its editor has read (`_require_revision`) and is one step because it is
immediate. Inserting, moving and removing are translated with the arithmetic of
`_insertion_position`, `_move_target_position` (which counts *entries*) and
`_shift_positions` (which moves *positions*, by a detour, because SQLite checks
the unique index row by row). `DeleteItem` renumbers; `Merge` passes the entry to
the kept item or drops it; `DeleteRoot` cascades and does nothing else. An editor
reads the revision (`Open`) and then page after page (`LoadPage`) with a cursor.
After an edit of single entries an editor reads the order again; after `Save` it
goes on with what it saved. Only playable items exist in the model.

`WatchSequence` says what a user is promised: the order is a sequence of distinct
items, and a request answered puts a block before one entry, after another or at
the end, moves one, takes some away or replaces all. `WatchOrder` implements it
with `list <- InOrder(position)` (property `SequenceSpec`).

### BrowserPlayer

`requests` are the `selectDelivery` calls without an answer; `live` marks the one
`deliveryRequestVersion` belongs to, `owner` the one `activeStreamRecoveryId`
names. What follows the `await` in each caller is part of the answer's action: a
stale answer changes nothing but the caller's `finally`, a refused connection is
thrown before the versions are compared, as in the code. `reports` is the queue
of one in flight and one waiting (`activeProgress`, `pendingProgress`); `source`
in a report is a history field, the entry whose medium the position was read
from. `video.marked` is `mediaEntryPosition`, which lags behind `entryPosition`
while the next entry is opened in fullscreen behind the medium still playing.
`serverEntry` is the part of `PlaybackSession` the player depends on: the server
completes the entry asked for once, however often it is asked, and answers or
loses the answer. `PageHide` sends the flush and ends the page; a report that waits
for the one in flight is given up with it.

### TrackSelection, PlayerControls

A selection is saved at once or 150 ms after the last change; saves form a chain
whose head is in flight (`trackSelectionSaveSequence`). A save may be stored and
its answer lost. `latest` and `audio` on a save are the two version counters.
A WebVTT file is served already shifted by `base`; the browser moves its cues by
the difference and detaches those that end before the start. In `PlayerControls`
every handler ends in `ShowControls`, which restarts the timer for the menus,
tooltip and pause of the next state; the timer's own test is made when it fires.

### LibraryGrid, SystemAlerts, Toasts
 A poster is its place in the catalogue's order; a cursor names a poster.
`PageAfter` and `PageBefore` are the server's pages (`list_items`), `Integrated`,
`FrontTrimmed` and `BackTrimmed` what the grid does with one: pages are given up at
the far edge, by what is in view and has the focus, while more than `Cap` posters
are mounted. Posters the browser rejects (`Unshown`) make pages without posters.
`Revisit` leaves the page, with its pages stored under source and revision, and
opens the grid again. A request takes its cursor from the page at the edge, and
scrolling may evict that page before the answer comes; `Overtaken` is that case.
`Reach` are the places between the edges' cursors, `Kept` those that were there all
along, and `MountedIsSegment` says what a step does to them. In `SystemAlerts`
`poll.again` is `loadAgain`; an abort is silent before there is an answer and spoils
an answer being read. In `Toasts` the server hands its queue out once, even to a
request that is aborted.

### OrderEditor, ItemEditor

The draft is `ids`; rows group consecutive episodes unless expanded, and "up" and
"down" move by rows. Saving and generating a preview are served in one step and
answered in another; `SaveServed` refuses an order with a title twice before it
looks at the revision. Loading the order, and reviewing the saved one after a
conflict, are several requests: `ReadRevision`, then `ReadPage` until the end, with
others saving the order in between, so what is answered may be made of pages of
several orders and have a title twice. `seen` is a history variable, the saved order
as it was shown to the viewer for the revision the draft is saved against. In
`ItemEditor` `loads` are requests for the parents of a kind, each with the
`parentChoiceLoad` it was made under; `wanted` is a history variable, the locks as
the administrator last set them.

### CollectionEditing, CollectionPicker

`history` is the collection at each of its revisions, so that a property can ask
which revision a page shows. `Batch` is the server's operation on one collection,
whole or refused (`batch_collection_memberships`). The mode's lookups come in
batches of `LookupLimit`. The server answers one with two SELECTs in a transaction
that holds no lock (service.py 1757-1793): `LookupReadsRow` takes revision and
artwork, `LookupServed` the members, perhaps of a later revision. An answer of an
older revision is dropped, one of a newer starts afresh. The builder is on the same
page, and each of the two hears of the other's changes. In the picker, a page is two
requests of the Kanvas server (`kanvas/services/katalog.py` 758-785), the item's
memberships and a page of collections with their revisions, served in either order
(`MembershipsServed`, `CollectionsServed`). A page that arrives during a save
replaces the objects the save works with; a change whose object was replaced is
`attached = FALSE`. `wanted` and `made` are history variables.

### Administration

`poll` is the load on its way with `reloadPending` and the timer; a load goes
through the section's page, the issues it waits for, and the jobs it follows. A
version of the catalogue stands for its issues; `known` is a history variable, for
each panel the last change the page was told of. An operation either changes
the catalogue at once or queues a job whose end is seen in a later load.

## 3. Runs and what they show

Runs marked *violation* check one sentence of the code's own comments, docstrings
or messages that the code does not keep; `findings` in `PROJECT.json` quotes it.

| Run | Question | Answer |
| --- | --- | --- |
| `requests_refine` | Do overlapping progress and mark requests behave as the one-step operations, and so keep container rows aligned? | yes |
| `catalogue_edits` | Between whole operations, or between the reads and commits of two requests: do scans and removals leave no row behind, let a mark answer only when it has marked, and is a saved grid shown again only while it is current? Do edits, scans and removals that overlap keep every row's parent and the tree's shape? | yes, except after a clear of nothing has set the revision back, and after an edit or scan has written on what another one changed |
| `requests_clear_rollup` | A clear of nothing beside a mark? | *violation*: it removes the season row just written |
| `sessions` | One request at a time, any order of calls: are completions, plays, advances and positions consistent? Two at a time: can a sample on its way undo a completion? | yes; no: the ORM does not write the column |
| `session_stale_sample` | Two overlapping samples? | *violation*: the older one may win |
| `jobs` | Two scans of one root and a job that may be cancelled at any moment, through crashes, restarts and closes: do scans exclude each other, is every active row somebody's, does every job end, does close return? | yes |
| `jobs_scans_overlap` | And when scans are cancelled too? | *violation*: a second scan of the root runs beside the first |
| `editing` | Do numbered rows implement the sequence, without gaps, when items are deleted one subtree at a time? Does the page that drafts an order replace only what its viewer was shown, and keep every entry through merges of generated orders? Does the item editor send a parent and locks that fit the kind? | yes |
| `order_upkeep` | After merges and root removals too: does no later edit hit the unique index, does the limit hold, is an edit made only by an editor who has seen the entries as they are? | yes |
| `order_move_after_merge` | Do moves go where they are asked to after a merge left a gap? | *violation* |
| `live_pages` | Do reports name their medium, and is none lost while the page stays; does every completion end; is the grid a piece of the catalogue that fills; do the alerts settle on what the server says; is the queue of notifications read? | yes |
| `browser_pages` | Are issues fresh; do saved selection, audio and subtitles follow the viewer; do popups keep their controls; is what is shown of a collection never older than the revision it is changed with, does undo restore, is the picker's success true? | yes |

The four disagreements have two causes: a read before the writer lock that
decides a later write (watched state, sessions, jobs), and upkeep that one kind of
change owes and another forgets (a merge and the numbering).

### What is not claimed, because the code does not keep it

The models also show the following, which no run repeats.

- *Overlapping edits may leave an invalid tree.* `update_item` validates without
  the lock: one request hangs an item under a season while another, which saw the
  season without children, turns it into a movie (service.py 1035, 1148). The same
  happens between an edit and a scan that inserts below the item.
  `HierarchyIsValid` fails under `TreeSpec`; `HierarchyUnlessRaced` says what is left
  of it.
- *A revision of the watched state may come back.* A clear that finds nothing
  writes the number it read, plus one (services.py 503-510), over whatever others
  made of it meanwhile; later changes then have revisions that were in use before,
  with other rows, and a grid saved under one is shown again although it is out of
  date. `SavedGridsAreCurrent` excepts viewers to whom this has happened.
- *One lookup may pair a revision with the members of the next.* The mode then
  shows memberships newer than its revision. A change sent with it is refused as a
  conflict, so nothing is lost; `ContextIsNotOlder` is what holds.
- *A draft may be of no order that ever was.* The pages of a load may come from
  several orders, and have a title twice or not at all. Saving it is refused, by the
  revision or as a duplicate, while the order goes on changing; what is saved in the
  end replaces the order of the revision named, which is the one that was shown.
- *A report that waits is given up when the page is left*: only the flush of
  `PageHide` is sent.

- *Container rows drift when the tree changes.* `RollupAligned` fails under `Spec`
  of `WatchState`: an episode found by a scan, moved by an edit or removed leaves
  the row of its season as it was until the next watched-state operation below it.
- *Two overlapping completions of an entry may both be recorded*, and two plays
  counted: `CompletedOnce` and `PlayCountedOnCompletion` fail with two `Requests`.
- *A position beyond its duration* is stored when two samples of a file of
  unknown length overlap.
- *An entry completed, watched again and completed again in one session* keeps an
  unfinished row, with one request at a time: the second completion finds the
  event of the first and writes nothing (service.py 3032-3043).
- *A cancelled job may run.* A cancel between the read and the write of `_start`
  is overwritten by "running"; `TerminalIsFinal` therefore speaks of jobs nobody
  cancels, and fails when its quantifier is widened to all `Jobs`.
- *Removing a root leaves gaps and the revision as they were.*
  `PositionsContiguous` fails with `"delete_root"` or `"merge"` in `Upkeep`.
- *A report may be read without a medium.* An unsupported delivery removes the
  source and leaves `entryPlaybackReady` true, so a flush may send a position of
  no medium; `ReportsNameTheirMedia` speaks of reports that have one.
- *A superseded seek that fails late* clears the mark of the newer one
  (`DeliveryFails`), whose report is then not sent as a seek.
- *The item's form can be sent twice*: changing the kind while a save is on its
  way enables the button again (`ChangeKind`, `ParentsAnswered`).
- *A poster may be left out of the grid.* The page at an edge is evicted by
  scrolling (kanvas.js 1861-1864, 2291-2307) while a request with its cursor (2063)
  is on its way; the answer is put at the new edge without another look (2120-2142),
  and what was evicted is behind that edge from then on. TLC finds nine states of
  `LibraryGrid` that do this when `SegmentStep` is stated without `Overtaken`; the
  attempt to prove the stronger statement showed the race, which needs one place
  more (`Last = 5`) than the run had before.
- *A feed answered while its request is being aborted* is shown as an outage
  until the next poll (`Applied` in `SystemAlerts`); `AlertsSettle` therefore
  says what the page comes to show, not what it shows at every moment.

### Bounds, and why they are enough

- **Watched state.** A behaviour of `catalogue_edits` has one of four parts, over
  a series, a season, an episode and an identifier in reserve, or a series with a
  special. "viewers": whole operations of one viewer, three revisions, enough for
  every pair of a watched-state action and a tree change. "requests": two requests
  and up to three tree changes among three identifiers. "grids": two requests, one
  tree change and one saved grid over two, so a grid is loaded between any two steps
  of both. "tree": two transactions and two committed changes, which is one race.
  Only the first states and the identifiers that stay absent tell items apart, so
  symmetry of the other three, and of requests and of writers, is sound. One viewer
  is enough: no operation reads another viewer's rows, and removals treat viewers
  alike. `MaxRevision` and `MaxChanges` stop behaviours (hence no deadlock check in
  these runs); the code has no such bounds.
- **Requests.** Two at a time: each race needs one request that has read and one
  that commits in between; `MaxRevision` is at least 3, so two commits may fall
  between another request's read and its write. `requests_refine` has two
  catalogues of five items that between them have every edge of the hierarchy
  a roll-up follows (two seasons, a special in a season, a direct special).
- **Sessions.** Two entries: one of known duration (20, grace period 2 by the
  tenth rule), one never probed (grace period `MaxGrace` = 3, no completion by
  sample). Samples 1, 8, 12 and 19 are inside the start grace, two in the middle
  in either order, and inside the completion grace. `MaxCount` = 2 lets a second
  event or play happen, which is what the properties forbid. The session may end
  (closed or expired): no deadlock check.
- **Jobs.** Two scans of one root and a job that is none, capacity 2, so the
  third waits for room. A job identifier is used once; three are enough for one
  job to end and another to be submitted in its place. Only the third job is
  `Cancellable` in `jobs`, so that one run shows both what cancels leave intact
  and what holds without them.
- **Watch orders.** Part "order" of `editing` has four items, blocks of up to two
  and one editor: inserts before, after and between, moves in both directions over
  more than one entry. `MaxRevision` = 4 allows three changes. `order_upkeep` has
  two editors, pages of two entries, two roots, and a limit of 3 of 4 items, so
  pages are read on both sides of an edit and the limit (2000 in the code) is met;
  two changes are allowed. Item and editor symmetry are sound: no definition names
  one, and what `CHOOSE` picks is unique because positions are.
- **Drafts and forms.** Three titles, two of them consecutive episodes, five acts of
  the viewer and two saves, of the viewer or others: enough to select, move, undo or
  preview, apply over a changed draft, save, be refused and save again. Pages of one
  entry (`EntryPage`) let a save fall between any two entries of a load. The form
  has a kind without parents, one with one and one with two, so an answer for one
  kind may reach another; five acts change the kind twice and still lock, choose and
  save.
- **Player.** Two entries of length 1 and two requests in flight: one that
  supersedes and one superseded. `MaxDisturbances` = 2 of seeks, pauses, failures,
  audio changes and fullscreen, beside the unbounded media events, answers and
  completions.
- **Grid.** Five places, of which two match the second source and one is never
  shown, pages of one, at most two mounted: evictions happen at both edges, empty
  pages at each end and in the middle, and with the fifth place a page may be
  evicted while a request with its cursor is on its way. Two visits and one change
  of the catalogue make stale answers and restored pages that are out of date.
- **Alerts and notifications.** Two sources and two feeds; five events reach every
  pair of hiding, disconnecting, going offline and changing the source around one
  request. Three kinds of notification over two places, four actions.
- **Tracks and controls.** Two audio streams, three formats of subtitles, one step
  of offset in each direction, three changes: two saves in the chain and one
  waiting. The second entry's subtitles are not shifted at first. The controls have
  no bound but the two steps of the volume.
- **Collections.** Two items and two names, three revisions, one item per lookup,
  so a lookup is two requests; two acts of the viewer beside saves and the edits
  of others. One of the items is a member at first, so each act can be taken at once
  on one of them. The picker has two collections on pages of one with one row in the
  list, two searches and two staged changes; at first the item is in neither, which
  is enough because the picker treats adding and removing alike. These starts are
  `BoundedInit`; the theorems of `BrowserPagesProofs` are about all of them
  (`PagesSpec`).
- **Administration.** Two panels, of which one concerns library roots, one job and
  four acts: open, ask, hide and show around one load.

Every run of the browser stops at its bound on acts, hence no deadlock check;
answers, timers and the environment's other steps are unbounded.

### Fairness

`FairSpec` of `MaintenanceJobs`: weak fairness of each job's task and of the end
of `close`. It stands for: the event loop runs ready tasks, the pool threads
finish, and a job's operation ends (it returns, raises or stops at a
checkpoint). Each task step stays enabled until it is taken, or is disabled only
while another task holds the registry's lock, which that task gives up by a step
that is fair itself. Nothing is assumed of crashes, restarts, cancels and other
requests. Without fairness of operations neither property could hold: a scan that
hangs keeps its root.

`LiveSpec` (the fairness of the modules it composes): a `fetch` settles some day,
by an answer, a refusal or the network's end (`DeliveryAnswered`,
`CompletionAnswered`, `Report`, `Answer`, `Served`, `Settled`); timers fire; an
animation frame asked for arrives (`FrameFires`). Nothing is assumed of the
viewer, of the media element, or of which answer comes. A settled request may
always be a failure: `CompletionEnds` and `GridFills` hold because failures end
the flag or offer a retry. `AlertsSettle` speaks of behaviours in which the page
stays watched and the server keeps saying the same.

## 4. Proofs

All theorems hold for every value of the constants that satisfies the module's
assumptions (which type them, say for watch orders that there are finitely many
items, and for the browser modules that `None` is neither a number nor a record):
any catalogue, any number of items, viewers, requests, jobs, entries and panels.

`WatchStateProofs`
- `TypeCorrect`, `PlaybackTypeCorrect`: types, with and without tree changes.
- `RollupStaysAligned`: on a fixed catalogue container rows follow their children.
  Every playback operation is one *write* of a value to a set of items followed by
  the roll-up of their containers (`PlaybackNextIsWrite`); the lemma
  `SynchroniseParentsAligns` shows that the roll-up restores the agreement of
  exactly the containers the write may have disturbed, in two stages: after
  seasons no season is disturbed again, and a series not visited had no season
  or special whose row changed.
- `RowsHaveItems`: with scans and removals. A removal takes its whole subtree
  (`Subtree`, the least set that holds the item and is closed under children), so no
  row is left whose item, or whose item's parent, is gone.

`WatchStateProofs`, about `TreeEdits`
- `TreeIsValidUnlessRaced`, for any number of overlapping edits and scans, beside
  removals. The invariant (`TreeInv`) says that what a transaction has read still
  fits the tree, except that rows may be gone (`EditFits`, `ScanFits`), until another
  one writes: removals only make such a transaction fail. The step that writes then
  needs what `_validate_item_hierarchy` has checked: that the new parent may hold the
  kind, and the kind the row's children. That every row's parent is there
  (`ParentsAreThere`) needs no such condition, since the foreign key sees to it.

`WatchStateProofs`, about `WatchRequests`
- `LockedRequestsImplementOperations`: without clears, overlapping requests
  implement `PlaybackSpec`, variables unchanged. The invariant says what a request
  holds is what it would read now (`ReadIsCurrent`): the catalogue is fixed, and
  rows of its own that it saw can no longer vanish, because nothing deletes rows
  of playable items. `LockedRequestsKeepRollup` follows.
- That the theorem excludes clears is not a gap of the proof:
  `requests_clear_rollup` shows the statement to be false with them.
- `EditedRequestsLeaveNoOrphans`, `MarksCompleteAll`: requests of every kind, clears
  included, beside scans and removals (`EditedRequestSpec`), where what a request
  read may be gone. The invariant `EditedInv` says nothing of what is current, only
  how the parts of a request's reads fit each other: a mark holds the containers of
  its items, and its own item is one of them or of the items (`HoldsMark`, by
  `MarkReadsItsContainers`). A stale commit writes no row of an item that is gone
  because its own items are checked (`Conflict`) and a container counts as completed
  only with a child, whose parent exists (`SynchroniseKeepsRows`).
- `SavedGridsStayCurrent`, from the same invariant. A step that changes a viewer's
  rows, of a clear without the lock too, gives the viewer a revision above the one
  before (`EditedStep`); `GridHolds` adds that a grid's revision is at most the
  viewer's, unless that went back, so the new one is no grid's.

`PlaybackSessionProofs`
- `TypeCorrect`: in particular the session never leaves its queue.
- `CompletionSurvivesLateSamples`, for any number of overlapping requests. The
  invariant `RowInv` says what a request that has read a row knows of the row as
  it is now: existing rows stay; a request that saw none will conflict.
- `OneRequestCompletesOnce`, `OneRequestAdvancesInOrder`, `OneRequestCountsPlays`,
  `OneRequestKeepsNewerPosition`, for at most one request at a time (`OneAtATime`),
  which is what an immediate transaction would give. The invariant (`Fresh`) says
  that what a request read is still so. Without the assumption the first and the
  last are false (section 3). The last needs more (`PositionInv`): a saved position
  lies within the row's duration, and within a known one, so the out-of-order test,
  which the code makes only then, is always made; a request that will store a sample
  has passed it.

`MaintenanceJobsProofs`
- `TypeCorrect` and `ActiveRowsAlwaysHaveTasks`, whatever is cancelled.
- `EndedJobsStayEnded` for every job nobody may cancel, whatever happens to the
  others; `ScansOfARootExclude` if no scan of a root is cancelled
  (`NoScanIsCancelled`). The invariant ties each place of a task to the status its
  row has there; a cancel breaks exactly that for its own job, which is why the
  assumption is needed (`jobs_scans_overlap`).

`WatchOrderProofs`
- `EntriesAlwaysHaveItems`, `LimitAlwaysRespected`, `EditsNeverCollide`, for every
  kind of upkeep, and `PositionsStayContiguous` where items go by `delete_item` only
  (`Upkeep` without merges and root removals, with which it is false). The invariant
  (`OrderInv`) says that entries are finitely many, of existing items, on distinct
  positions, within the limit; `NoGaps` (below a used position every position is
  used) is the inductive form of contiguity.
- There is one lemma per edit on the operator it is built from (`NumberedRows`,
  `InsertedRows`, `MovedRows`, `RemovedRows`, `NormalisedRows`). The last one and
  `MoveTargetBounds` rest on counting: `Rank` is a strictly increasing injection
  into as many numbers as there are entries, hence onto them.
- `ShiftDoesNotCollide` is the argument for the detour of `_shift_positions`: the
  offset lies beyond every position in use and every final one, so only a row
  that stays could be met; each edit then shows that no such row is in the way.
- `AcceptedEditsAlwaysSawTheOrder`, for every kind of upkeep, number of editors and
  page size. The invariant `EditorInv`, which TLC checked on the configuration of
  `order_upkeep` first, says of an editor on the current revision (`Sees`): of the
  items that exist, its list holds entries in their order, all of them or all up to
  the cursor. An item that goes without a new revision (a removed root) leaves that
  true of the others.
- `OrderImplementsSequence`: without gaps the rows implement `WatchSequence`, by
  `list <- InOrder(position)`. One lemma per edit says what it does to the list
  (`Spliced`, `PutsInto`); each rests on the fact that only one sequence lists the
  entries by position. `WatchSequence` says what is left of a list by counting
  (`Remaining`), since the prover has no facts about `SelectSeq`.
- `MovesKeepTheirAnchorWithoutGaps`: the statement that `order_move_after_merge`
  refutes is true where items go by `delete_item`. `GapInv` is `OrderInv` with
  `NoGaps`: then the index among the remaining entries that the code computes *is*
  a position.

`LivePagesProofs`
- `ReportsAlwaysNameTheirMedia`, `NoWaitingReportIsLost`, by one invariant,
  `PlayerInv`: types; the medium that is loaded is that of the marked entry
  (`MediumIsMarked`); the player is ready only for the entry it shows
  (`ReadyForShown`); a completion on its way is of that entry (`CompletesShown`);
  a waiting report is of that entry or of one the server has completed
  (`PendingOfShown`). The third is why clearing `mediaEntryPosition` and
  `entryPlaybackReady` together in `loadNextEntry` matters; the last two are why
  a report replaced by one of the next entry is no loss. The two theorems that
  begin with `LivePlayer` restate them for the page that the run checks.
- `GridIsAlwaysASegment`, `MountedIsAlwaysASegment`, by `GridInv`: the pages, mounted
  and stored, follow one another (`PagesFit`: a page's next cursor is before the
  previous cursor of every later page); at most one request is of the present
  initialisation; it goes on from an edge or from further out (`GoesOn`). The last is
  all that is left of an overtaken request's cursor, and enough for the order; that
  nothing is left out needs the edge's own cursor.
- `QueueIsAlwaysRead`, by `QueueInv`: while something is queued for a page that
  listens, the request on its way has not read the queue or will be repeated, or
  none is on its way because the last one failed.

`BrowserPagesProofs`
- `MenusAlwaysStayWithControls`, by `ControlsInv`, which adds to the property that the
  menu that is active is the open one.
- `SelectionAlwaysSavedOrTold`, `AudioAlwaysFollowsSelection`,
  `SubtitlesAlwaysFollowSelection`, by `TracksInv`: what waits for the timer is the
  selection, unless the entry was left (`PendingIsSelected`); saves are of entries
  already reached (`SavesOfReached`); the selection waits, is the last of its entry
  in the chain, is stored, or the viewer was told (`SelectionOnItsWay`), and likewise
  for what is heard (`AudioOnItsWay`); what is drawn has the cues of its base and the
  selected offset (`DrawnAs`).
- `ContextIsNeverOlder`, for any number of items and batches: what is known of an
  item is so at the context's revision or a later one, the artwork exactly at its
  revision. An answer, whose members were read after its revision, keeps this
  (`AppliedHolds`), and a revision once made stays as it is (`RevisionsStay`).
- `UndoAlwaysRestores`, by `UndoInv`: what the page keeps for an undo describes a
  revision and the change that followed it (`UndoFits`), and so does the undo on its
  way (`MutationFits`); the change that takes it back, accepted only on the revision
  after, gives the collection before it.
- `SuccessIsAlwaysTrue`, by `PickerInv`: what the viewer wants is staged or was made
  (`WantedIsStaged`), and each change of a save in progress is what is wanted
  (`SaveIsWanted`), also after a page replaced the object it was staged on.

`EditingProofs`
- `SavedParentAlwaysFits`, `LocksAreAlwaysKept`, by `FormInv`: an open form's parents
  and locks are of its kind (`FormFits`), and while it waits for parents the latest
  request asks for those of the kind that is selected (`LoadsFit`).
- `MergeAlwaysKeepsEntries`, `MovesAlwaysKeepEntries`, by `DraftInv`: types, and a
  preview to be merged has all of the draft (`PreviewFits`). What `filter` leaves
  (`Keep`) is defined by the rank of its places, so that it can be reasoned about
  without induction.
- `SavesAlwaysReplaceWhatWasSeen`, by `SeenInv`: a list that was shown for a revision
  is the order, as long as that is the order's revision (`SeenAt`); what a load at the
  current revision has read so far is the order's beginning (`ReadSeen`), for which
  the read of the revision must come before those of the pages. Nobody was shown a
  revision that a save is about to make (`SeenBefore`).

`AdministrationProofs`
- `IssuesAlwaysFresh`, by `AdministrationInv`: what a panel shows, and what a load
  was answered with, is not older than what the page was told; nothing on its way
  comes from the future. An invalidation drops the load on its way, which is the
  step that would break it otherwise.
- `PollingAlwaysGoesOn`: a visible page has a load on its way or a timer. Loading
  more rows does not start the timer when it ends; the invariant (`KeepsPolling`)
  says that it is on its way only while the timer runs or another load waits. No
  run checks this one.

The theorems of `BrowserPagesProofs` and `EditingProofs`, and those of `LivePagesProofs`
named above, are about the specifications the runs check, in which the initial state
chooses a part: `FormInv`, say, holds in the behaviours in which the form is the
part that moves.

**Assumptions on constants.** `LiveAssumption`, `PagesAssumption`, `EditingAssumption`
and `WatchOrderAssumption` type the constants and say what the code's types
guarantee: `None` is nothing else; a source of an order lists no title twice; there
are finitely many items; a page holds at least one row. No bound of a run is assumed.

**Induction.** No theorem speaks of a recursive definition; the only induction used
is the invariant's own. What would be an induction over a list is a least
counterexample or a count (`Rank`, `Remaining`).

Some theorems state what no run checks any more because it follows from what the
runs check or restates types: `TypeOK` of each module (checked while the modules
were written and part of the invariants above), `EntriesHaveItems`.
`LateSampleKeepsCompletion` is checked as `CompletionSurvivesOverlap`, which is about
the part of `sessions` with two requests.

**Only model-checked**: liveness (`JobsEnd`, `CloseReturns`, `CompletionEnds`,
`GridFills`, `AlertsSettle`), which is beyond the prover. Every other property of the
passing runs is the statement of a theorem, or implied by one, under the assumption
the theorem names.

## 5. What is left out, and why

- Within the modelled pages: layout, scrolling arithmetic, labels, keyboard
  shortcuts, drag and drop, focus beyond the grid; search boxes whose answers
  replace a list; the metadata review, manual merge, duplicate panels' contents and
  the dialog of library roots in the administration; artwork, collections and
  playback defaults in the item editor; inherited memberships and the paging of
  members in collection mode; the name and the paging of rows in the order editor.
- The bundled ASS renderer (`kanvas/static/libass/`): third-party.
- Root deletion and repair merges on watched state, the repair plan: one
  transaction whose result depends on data rather than on the order of steps.
- Grants, tokens, incidents and user configuration: single statements on single
  rows or files that do not interact.
- Backup and the artwork cache: their hazard is the file system between two steps,
  which no model of this code settles.
- Metadata matching: nearly every transition is decided by a floating-point score.
- Kestrel awaits each of its requests before it reads the next mpv event; what it
  does to a session is in `PlaybackSession` (requests that name no entry).
- Parsing, probing, naming, view models, provider payload mapping: values to
  values without state; unit tests reach them better.
- The HTTP layer: validation and serialisation; where a contract restricts an
  input the restriction is in the action that takes it.
- Reuse of row identifiers by SQLite after a deletion, and equality of library
  roots between parent and child rows.
- A scan that finds a file changed looks its item up anew
  (`katalog/scanning/reconciliation.py` 125-143); edits that leave kind and parent
  alone. The reads of one edit or one scan are one step of `TreeEdits`.
- Migrations, the shared executor (the models let any number of requests
  overlap), pacing of provider requests, logging, settings.

## 6. Plan

Done, in this order: `WatchState`, `WatchRequests`, `TreeEdits`, `SavedGrids`,
`PlaybackSession`, `MaintenanceJobs`, `WatchOrder` with `WatchSequence`; then the
browser: `BrowserPlayer`, `TrackSelection`, `PlayerControls`, `LibraryGrid`,
`SystemAlerts`, `Toasts`, `OrderEditor`, `ItemEditor`, `CollectionEditing`,
`CollectionPicker`, `Administration`; the proofs of section 4. Worth doing next:

1. Root removal and repair merges as actions of `WatchState`, with the merge of
   two viewers' rows as an operator.
2. `BrowserPlayer` composed with `PlaybackSession` instead of `serverEntry`.
3. The metadata review of the administration page, whose handlers use the index of
   the item under review after an `await`.
4. Proofs that compose modules: `OrderEditor` on top of `WatchOrder`'s revisions, the
   player on top of the session.
5. What can be proved of the liveness properties without fairness: that where they
   wait, something is on its way, as `PollingAlwaysGoesOn` and `QueueIsAlwaysRead` say.

# unconf: a verification development

TLA+ models of the unconf server and of the part of its browser client that
keeps a board, the TLC runs that check them, and machine-checked proofs of the
properties that matter most. Paths are relative to the repository root.

## The system

unconf runs one unconference: a board of sticky notes that many browsers edit
at once, voting on the notes, and a schedule built from them in waves. One
server process owns a SQLite database; browsers talk to it over WebSockets.

| component | state | operations | interacts with |
|---|---|---|---|
| hub (`internal/server/hub.go`) | `seq`, the ring of recent events, the set of connections, caches of the board, pending moves | commit, publish, Register, Unregister, handleCommand, Login, refreshRole, move timers | database (transactions), connections (`enqueue`), calendar |
| ring (`hub.go`, type `ring`) | a fixed slice, the oldest index, a count | push, after | hub |
| connection (`internal/server/ws.go`) | user, send buffer, cancel, socket | enqueue, kill, writeLoop, readLoop, handleWS | hub (posts closures), browser |
| board commands (`internal/server/commands.go`, `internal/domain`) | notes, links, stars, votes, regions, lifecycle | create/update/move/delete note, links, lifecycle, regions, stars, votes, voting | hub (one transaction each) |
| schedule (`internal/server/schedule.go`, `internal/domain/schedule.go`) | waves, slots, assignments, budgets | wave and slot editing, status changes, assign, unassign, clear, set_role | hub, calendar (asynchronous meeting links) |
| store (`internal/store`) | the tables, `meta.seq` | queries, transactions | everything above |
| start-up (`internal/store/schema`, `store.go`, `users.go`, `main.go`) | applied fragments and their hashes, the default event, the session secret | Load, Apply, MetaOrInit, EnsureDefaultEvent | store; other processes on the same file |
| browser connection (`web/src/api/ws.ts`) | socket, pending commands, attempt counter | send, open, onclose, retry, stop | hub, the page |
| page and session (`web/src/App.tsx`, `store/store.ts`, `auth/Login.tsx`, `api/http.ts`) | the session's status, `loggedOut`, requests under way | load, log in, log out, connect, disconnect | browser connection, auth, other tabs (the cookie) |
| browser board (`web/src/store/reducer.ts`) | the board, its `seq`, `you` | applyFrame, applyEvent | browser connection |
| rate limiter (`ws.go`, `tokenBucket`) | tokens, violations | allow | readLoop |
| auth (`auth.go`) | none: the cookie says who asks | login, logout, me, requireUser | hub.Login, the page |
| offers (`board/VoteControl.tsx`, `schedule/logic.ts`, `WaveGrid.tsx`) | none: derived from the board | which votes and cells can be used | browser board, hub's commands |
| HTTP, process (`server.go`, `static.go`, `main.go`) | none | routing | auth, connection |

All writes, `seq`, the ring and the set of connections belong to one goroutine,
the hub's, which runs closures from a queue one after another. Concurrency is
therefore between hub operations and everything they feed: writer goroutines
draining send buffers, sockets that break, browsers that reconnect with the seq
they last applied, timers that post delayed moves, a calendar goroutine that
posts meeting links, and a process that may die between any two steps and
start again from the database.

### What is hard here

- An event must reach every connection it is for exactly once, although frames
  are filtered by role, buffers overflow, connections break between the events
  of one commit, rings wrap and processes die between a commit and its
  publication.
- Roles change while connections and frames encoded for the old role exist.
- A command's answer must not overtake its events.
- Results come late: coalesced moves, meeting links, role refreshes, and in the
  browser the answers about a session that has ended or been replaced meanwhile.
- Tabs share one cookie: a tab's next connection may be somebody else's, and a
  replay then goes to a board with another user's votes and stars marked on it.
- A command whose connection is lost may or may not be applied.
- Caches in the hub mirror the database and must do so after failed
  transactions and restarts.

### What makes each component correct

- **Ring**: it holds exactly the last events; `after` says ok exactly when it
  has everything a client missed, and then returns that, once, in order.
- **Hub and browser**: a board contains every event its audience may see up to
  its seq and no other; a tab that has read everything shows what a fresh
  snapshot would; seqs are never reused and never go backwards; acks follow
  their events; a replay never overflows the buffer it goes through; every tab
  ends up current.
- **Connections**: every connection that enters the set of clients leaves it;
  every waiter on the hub returns; nobody waits on a stopped hub.
- **Board commands**: authorization by role, authorship and lifecycle; tags and
  caches equal what the database implies; visible notes do not overlap.
- **Voting and schedule**: one open wave, one assignment of a note per wave,
  one note per cell, frozen locked waves, non-overlapping slots, budgets that
  only an organizer's cut can exceed, the client's count of its votes equal to
  the server's.
- **Moves**: every coalesced command is answered exactly once.
- **Session**: a socket or a timer exists only behind the board; the votes and
  stars a board marks as yours are those of the user whom the server acts for;
  what a command's promise says is true, and
  every promise is settled; the page does not reconnect for ever.
- **Rate limiter**: no window of time lets more through than the burst and the
  rate allow.
- **Offers**: what the server would accept is offered.
- **Start-up**: fragments apply in order, once, whatever crashes or races; a
  process that opens the database finds its own tables; all processes serve the
  same event; nobody is refused, or waits for ever, because of a neighbour.

## What is modelled

| module | models | how |
|---|---|---|
| `EventWindow` | what the ring promises (SPEC 8.1) | `history` is every event committed and published, `kept` how many of the last ones are held |
| `Ring` | `type ring`, `publish`'s use of it, `newHub` | `buf`, `start`, `n` are the fields; `history` is a history variable |
| `Hub` | the realtime core: hub, connections, browser boards | see below |
| `MCHub` | instances of `Hub` for TLC | an organizer's and a participant's tab |
| `ConnLife` | the goroutines around the hub: handler and reader, writer, waiting and posting goroutines, the hub's queue, contexts, shutdown | see below |
| `MCConnLife` | instances of `ConnLife` | one connection with a login and a timer |
| `Schedule` | votes, budgets, waves, slots, assignments, lifecycle, the calendar call, and the boards browsers fold from the events | see below |
| `MCSchedule` | instances of `Schedule` and `Controls` | an organizer and a participant: the grid while the event is set up, their votes, their browsers |
| `Moves` | `handleMove`, `applyMove` and their timers, with roles, lifecycle, connections and notes changing meanwhile | see below |
| `MCMoves` | instances of `Moves` | two people, one note |
| `Geometry` | overlap resolution and region containment (`internal/domain/geometry.go`, `region.go`) | operators; the spiral is an order on candidates |
| `Board` | notes, stars, regions and the lifecycle: tables, the hub's caches, the boards browsers fold from the events | see below |
| `MCBoard` | an instance of `Board`, and the examples of `board_test.go` | a moderator and a participant, two notes, two regions |
| `RateLimit` | the token bucket and the counter of violations | see below |
| `Session` | one tab from loading the page to the answers of its commands, with the cookie, the handshake, the read loop and its limiter (EXTENDS `RateLimit`) | see below |
| `Controls` | which votes and cells the browser offers, from the boards of `Schedule` (EXTENDS it) | operators over `tab[t]` |
| `Startup` | schema evolution, the default event and the session secret, by processes that race and die | see below |
| `MCStartup` | an instance of `Startup` | two processes, six builds |
| `Ring_proofs`, `Hub_proofs`, `ConnLife_proofs`, `Schedule_proofs`, `Moves_proofs`, `Startup_proofs`, `Session_proofs`, `Board_proofs` | theorems and proofs | each EXTENDS the module it is named for; `Schedule_proofs` has those of `Controls`, `Session_proofs` those of `RateLimit` |

`Hub` takes the database to be `log`, the sequence of committed events, and a
board to be the set of events it incorporates, `view[t]`. That is all the
reducer's result can depend on, since it folds events in order, and it makes
"the tab shows the right board" an equation between two sets. An event is its
audience (`everyone`, `staff`, or the one user `onlyUser` names) and, for a
`role_set`, whose role becomes what. Board commands are the event sequences
they can produce (`Batches`): the commands themselves do not influence
delivery.

| code | `Hub` |
|---|---|
| `Hub.commit` (transaction, `SetSeq`) | `commit(es)`, in `Command`, `SetRole`, `LoginAsOrganizer` |
| `publish`, one event | `Publish` |
| the ack at the end of `handleCommand` | `FinishCommand`; `AnswerOnly` when nothing was committed |
| `setRole` with its `after` | `SetRole` (the snapshot precedes the event, as `commit` orders it) |
| `login` with the admin key, then `refreshRole` | `LoginAsOrganizer` ... `FinishLogin` |
| `Register` | `Register`, then `Replay` per missed event, `FinishReplay` |
| `conn.enqueue`, `kill` | `enqueue`: append, or drop the connection when the buffer is full |
| `applyFrame` | `Deliver` |
| a lost connection, a page reload, a process crash and restart | `Break`, `Reload`, `Restart` |

A hub operation is several steps so that connections can drain and break, and
the process can die, between any two frames of it. `conn.send` and the frames
the writer goroutine or the network holds are one queue, since they are
forwarded in order and a break loses a suffix of both. A broken connection
leaves `Hub.clients` at once in the model: in the code `Unregister` follows
later, but what is queued for a dead connection is never delivered (a write
under its cancelled context fails).

Two history variables say what a board is made of: `enc[t]` is the role for
which the frames last received were encoded, and `mixed[t]` holds once a board
was put together from frames for different audiences, which a replay after a
change between participant and staff does. A tab whose board was built for a
participant, and whose user becomes an organizer while it is offline (or whose
connection breaks between the `role_set` event and the fresh snapshot of
`refreshRole`), is caught up by replay: the replay is chosen for the new role
but starts at the old board's seq, so staff-only events from before it are
missing until some later snapshot. Staff-only events concern hidden notes, which
at this commit exist only as database state (`store.HideNote`; no command calls
it), so no client can meet this yet. The properties of boards are stated, and
proved, for boards that are not mixed.

`ConnLife` gives every goroutine a program counter. `handleWS` is `Accept`,
`CallRegister`, `AwaitRegister`, then `readLoop` (`ReadFrame`, `Submit`,
`ReaderKills`, `ReadEnds`), `Unregister`, `Return`; `writeLoop` is `TakeFrame`,
`WriteDone`, `WriteFails`, `WriterEnds`; `Hub.run` is `TakeOp`, `HubEnqueue` and
`HubKills` for what the operation queues, `FinishOp`, `HubEnds`. `post` and
`call` are the selects they are: every ready case may be taken. What an
operation does to the board is left out; only the frames it queues, and for
whom, remain. `enqueue` and the `kill` that follows a frame that did not fit
are two steps, since writer and reader run between them; that the writer then
cannot let a later frame of the hub through (`DeliversPrefix`) is what allows
`Hub` to drop a connection in one step.

`Schedule` is the database and the browsers' boards under the commands of
`schedule.go` and the note and vote commands. A command is one transaction on
the hub's goroutine, so it is one step, which is enabled where the handler
accepts the command; a refused command changes nothing. Tables are sets of
records; `status[w] = "absent"` and `author[n] = Nobody` mean that there is no
such row. An assignment carries its slot, whose wave and times never change,
instead of the slot's id, and needs no id of its own: it never changes, and
links are only asked for once its wave is locked, when it cannot be made again.
Times are in ticks, `Millisecond` ticks to the millisecond kept by
`domain.Timestamp`: `create_slot` checks the times as they were sent and stores
them cut.

| code | `Schedule` |
|---|---|
| `create_note`, `delete_note`, `cast_vote`, `retract_vote`, `set_voting`, `set_votes_per_user`, `set_lifecycle` | the action of that name |
| `create_wave`, `update_wave`, `delete_wave`, `set_wave_status`, `create_slot`, `delete_slot`, `assign_note`, `unassign_note`, `clear_wave` | the action of that name |
| `createMeetings` | `booking[w]` while the call runs; `LinksArrive`, `CallFails`; a `Restart` loses the calls |
| `applyEvent`, `withAssignments` in `reducer.ts` | `applyEvent` and the operators before it, folded over a commit's events by `Publish` |
| `buildSnapshot` | `Snapshot` |

The events of a commit are folded at once: that they reach every browser, in
order and once, is what `Hub` shows. `Reload` is a snapshot at any time. Hidden
notes, which no command makes at this commit, and roles that change (`Hub`) are
left out.

`Moves` numbers the `move_note` commands as they come. `pending[n]` is
`Hub.pending`'s entry: the latest mover and target, the commands it will answer
and the ticks until its timer fires. `since[n]` is `time.Since(lastMove)` up to
the interval, beyond which its value makes no difference. A note's place is
abstract; the target `OutOfRange` is one that `moveNote` refuses.

| code | `Moves` |
|---|---|
| `handleMove`: a move waits already / too early / at once | `Coalesce` / `Hold` / `MoveNow` |
| the closure the timer posts | `TimerMove` |
| `applyMove` and the transaction of `moveNote` | `applyMove`: refused, failed, or committed as one or two events |
| the clock | `Tick` |
| `Register`, `Unregister`, `setRole`, `login`, `refreshRole`, `setLifecycle`, `deleteNote` | the action of that name (`RoleBecomes` for the first role changes) |

`received`, `replies` and `moves` are history: what was asked, what each command
was answered, what was applied. So is `quiet[n]`, the time since the note really
moved, which the code's `lastMove` is compared with. A shutdown drops what
waits with the connections that wait for it (`ConnLife` has the shutdown).

`Board` has the same boards for what `Schedule` leaves out. A command is one
transaction on the hub's goroutine, hence one step.

| code | `Board` |
|---|---|
| the tables `notes`, `regions`, `stars`, `events.lifecycle` | `db` |
| `Hub.geo`, `Hub.regions`, `Hub.lifecycle` | `cache` |
| a browser's `BoardState` | `tab[u]` |
| `Hub.commit`: transaction, `after`, `publish`, or an error | `commit` |
| `create_note`, `move_note`, `delete_note`, `star_note` and `unstar_note`, `set_lifecycle` | the action of that name (`SetStar`) |
| `update_note`, `set_links` | `UpdateNote`: both replace a part of a note's content |
| `create_region`, `update_region`, `delete_region` | the action of that name, around `editRegion` (`retagAll`) |
| `newHub` and `buildSnapshot` after a crash | `Restart` |

Commands decide from the caches where the code does (places, tags, lifecycle)
and from the tables where it does (existence, authors, a note's old tag), which
is why `CachesMatch` matters. `DeleteNote` is that of a note without votes or
sessions; `Schedule` has the rest of its authorization. Ids are given again once
unused, which random ids need not be; rowids are given again as SQLite gives
them without AUTOINCREMENT. The order of `retagAll`'s events within a command is
left open: no two of them are about the same note. A position stays where it is
asked for when it is free, else it is the first free one of the nearest ring of
the spiral, by distance and then by angle; floats are integers in any unit that
divides a step.

`Startup` is `main` up to `Serve`, by several processes on one database.

| code | `Startup` |
|---|---|
| `schema_version`; the statements that have taken effect | `rows`; `executed` (history) |
| `meta.default_event_id` and `meta.session_secret`; `events` | `meta`; `events` |
| SQLite's write lock, taken by `BEGIN IMMEDIATE` | `lock`, and `work`, what the transaction would commit |
| `Load` | `Start`, refused if the numbers have a gap or a duplicate |
| `Apply`: create, read and `verify` | `Look` |
| `applyOne`: begin, look again, execute, record, commit | `Begin`, `Check`, `Execute`, `Record`, `Commit` |
| `MetaOrInit`: insert if absent, read | `InitMeta`, `ReadMeta` |
| `EnsureDefaultEvent` | `InsertEvent` |
| an error, a signal, a crash | `Refuse` for the errors `Load`, `verify`, `applyOne` and the SQL give, else `Stop` |

A build is the set of the files it embeds, and a file its number, name and
body, which stands for its hash. A statement outside a transaction is one step.
That a process waits for the lock longer than the busy timeout, and that a query
fails, is `Stop`, as for any error after which `main` exits. A secret from the
environment, which skips `MetaOrInit`, is left out.

Between `Look` and its last `Check` a process of an older build may see fragments
added that it does not have. It opens the database nevertheless, although
`Apply`'s comment says that a newer database is refused (`schema.go:97-100`): a
start a moment later would be. `OpensItsOwnSchema` bounds the damage: its own
fragments are all there, first and in order.

`RateLimit` counts tokens in fractions: a command costs `Cost`, the bucket holds
`Burst` and gains `Rate` per tick, as integers. `refilled` is the first half of
`allow`, `Allow` and `Violate` its two results with `readLoop`'s counter; `idle`
is `now - last`, which stops counting once the bucket is certainly full.
`surplus` is a history variable that meters what was let through without looking
at the bucket: the greatest excess, over all windows of time that end now, of
what the window let through over `Rate` times its length. Frames that are no
JSON never reach the limiter and are not in the model.

`Session` is one tab, its cookie jar and the server's end of its socket.

| code | `Session` |
|---|---|
| `App`: `fetchMe` and its three outcomes | `Init`, `Reload`, `LoadAnswered`, `LoadFails` |
| mounting `Workspace`: its two effects; unmounting it | `enter`; `leave` |
| `Login.submit`, `handleLogin` | `SubmitLogin`, `LoginAnswered`, `LoginFails` |
| `handleLogout` in the browser and on the server | `ClickLogout`, `LogoutAnswered`, `LogoutFails` |
| `requireUser` and `authenticate` | `Accept`, `Refuse`, `jarAfter`, `LookupFails` |
| `Connection.open`, `stop`, `onclose`, `failPending` | the operators of that name |
| the ways a socket ends | `Refuse`, `DialFails`, `Break`, `CloseSeen` |
| `shouldRetry` | a request in `asks`; `AskAnswered`, `AskFails`; then the timer: `TimerFires` |
| the store's `connect` and `disconnect`; `initialBoard` | the operators of that name |
| `Register`: hello, then a snapshot or a replay | `Register` |
| `Connection.send`, `onmessage`; `applyFrame` | `Send`, `Deliver`; `hello`, `snapshot` |
| `readLoop` | `ReadCommand`, `RejectCommand`, `KillConnection` |
| the hub's queue and `handleCommand` | `hubq`, `HandleCommand`, which also runs what came over a connection that is gone |
| another tab, an expired cookie | `OtherTab` |
| the clock of the limiter | `Tick` |

A cookie is the user it was signed for, and `NoUser` when there is none or it
does not verify. Requests are served in any order: each carries the cookie of
the moment it was sent, `asks` for `fetchMe` (with the number of the connection
that asked, 0 for `App`), `logouts` for logouts, `login` for the one login the
form allows. A 401 clears whatever cookie is in the jar by then. Effects and
promise continuations that run before anything else can are part of the step
that causes them: the stale effect of `Workspace` is in `enter`. The frames are
the hello and the answers, which `onmessage` treats specially, and the first
snapshot of a connection; events are `Hub`'s. `fate` is a history variable, what
became of each command.

A snapshot is made for one user: `voted` and `starred` of its notes and
`votesUsed` are that user's, and votes and stars are offered by them. `marks` is
the user whose they are on the tab's board, and `NoUser` before the first
snapshot (`ready` in the store). A board that has a snapshot is resumed with
`since=lastSeq`, and whether the ring still holds what it missed is `Hub`'s
matter, so `Register` may do either. A hello changes `you` and leaves the marks.
`swapped` is a history variable: another tab has logged in since `connect`.

The hub's clients of `Hub`, `ConnLife` and `Session` are the same connections
seen from three sides: what reaches the board, which goroutines there are, and
who the tab and the server believe is talking.

`Controls` states what the buttons and cells are for each tab of `Schedule`:
`canVote` and `votesRemaining` for a note's vote, `pool`, `emptyCell` and
`editable` for the schedule. What the server accepts is the guard of the
command's action (`MayCastVote`, `MayRetractVote`, `MayAssign` in `Schedule`).

## The runs

| run | instance | what it shows |
|---|---|---|
| `ring` (`Ring.cfg`) | 3 slots, 7 seqs, 2 payloads, lost batches of up to 2 | the ring wraps more than twice and restarts at every fill level; `after` is right for every seq, and it implements `EventWindow` |
| `hub` (`MCHub.cfg`) | 2 users, 2 tabs, 3 events, ring of 2, replay limit 1, buffer of 2, 2 faults, fairness | no gap and nothing extra (`ShownExactly`), acks after events, fresh roles; a tab that has read everything shows its user's board and knows the role; a replay fits the buffer; the hub drives the ring as `EventWindow` describes; every tab ends up connected with the current board |
| `conn` (`MCConnLife.cfg`) | 1 connection, 1 login, 1 timer, queue of 1, buffer of 2, 1 client frame, fairness | a connection whose Register succeeded leaves the set of clients; the hub's frames arrive without a hole; logins return and cancelled connections end both goroutines (`EverybodyReturns`), a shutdown completes |
| `conn_gone` (`MCConnLifeGone.cfg`) | 1 connection | a violation, see Findings |
| `schedule` (`MCSchedule.cfg`) | an organizer and a participant with a browser each, 2 notes, 2 waves, budgets 1 and 2; 3 slots over 4 ticks of half a millisecond and 3 tracks while the event is set up, else 2 slots and 1 track a wave | a sound grid, disjoint slots and final links (`ScheduleSound`), closed waves final; browsers show what a snapshot would, and offer every vote, retraction and cell the server would accept, and no such retraction or cell besides; budgets hold |
| `schedule_used` (`MCScheduleUsed.cfg`) | the same with 2 slots and 1 track | a violation, see Findings |
| `moves` (`MCMoves.cfg`) | 2 users with a connection each, 1 note, a valid target and one out of range, interval of 2 ticks, 3 moves, 2 other commits, fairness | one answer each and acks that name the move (`RepliesSound`), moves in order and an interval apart, movers may act; every move is answered, whatever became of its note, its sender and the event |
| `startup` (`MCStartup.cfg`) | 2 processes, 4 starts, 6 builds, 2 ids, fairness | the database records what has taken effect, processes find their own fragments, share one event and secret, are refused only for a reason, and get to serve |
| `board` (`MCBoard.cfg`) | a moderator and a participant, 2 notes, 2 regions, 2 spots, 3 shapes, 2 contents, rowids to 3 | caches equal the tables through failures and crashes, notes never overlap, browsers show what a snapshot would, and each note carries the region drawn on top under it |
| `session` (`Session.cfg`) | 2 users, 2 connections per tab's life, 3 commands, 2 logouts under way, 2 failures, a bucket of 2 with 1 per tick and commands that cost 2, fairness | see "Session" above: quiet when left, no earlier user's marks shown, true answers, a bounded rate; promises settle and the page comes to rest |
| `session_kicked` (`SessionKicked.cfg`) | the same with fewer commands | a violation, see Findings |
| `session_marks` (`SessionMarks.cfg`) | the same with 1 connection of the page and 1 command | a violation, see Findings |

Bounds. Three events overflow the ring of two, and the ring holds more than a
replay may send, as in the code. The buffer of two has just room for a hello and
a replay, so a command of two events disconnects a client that does not read.
A batch of two lets a crash or a break fall inside a commit; two faults let a
connection break while it is being caught up after another break or a restart.
`MaxSeq` and `MaxFaults` only bound the exploration, which therefore stops:
deadlock is not checked in these runs.

In `ConnLife` a queue of one place makes every sender wait at some time, and a
buffer of two frames overflows within one Register or one command.
Deadlock is not checked there: with all goroutines ended the model stops.

In `Schedule` two waves are enough for everything that relates a wave to another
(one open wave, a note repeated in a later wave, its flag when it leaves one of
them); two notes compete for a cell and for a budget of one; three slots of
zero, one and two milliseconds include every way two intervals can lie. Votes
and times have little to do with each other, so the run bounds them apart with a
state constraint (`InFocus` in `MCSchedule`): while the event is set up, no vote
is open and nobody has voted, every grid is explored, which is where schedulers
may do everything the grid's properties are about; with votes or in another
phase, the waves are those of one track and at most two slots of a millisecond.
TLC checks the states just outside as well, and goes no further from them. No
liveness is checked in that run.

In `Moves` three moves are enough for one that is applied at once, one that is
held and one that replaces it from another connection; notes share nothing but
the tables, so one is enough. `MaxSeq` bounds role changes, deletions and
changes of lifecycle. The runs stop when the bounds are used up, so deadlock is
not checked in them.

In `Board` the two spots overlap, so a second note is always pushed away, and
two shapes with the same z and one above them share the places notes end up in:
a tie, a stack and a place outside occur. Two regions and rowids to three let a
rowid be given again after its region was deleted. A note is 6 by 4 and a step
2, the real proportions but for the long side (180 by 120 by 20); `MCBoard`
evaluates the order of the spiral and the examples of `board_test.go` in the
real ones.

In `Startup` two processes suffice for every race, since each transaction
excludes all others. The builds are an older and a newer one, one with a
fragment edited after the fact and one with it renamed, one whose SQL does not
run and one with a gap; four starts let both processes come back once. All
processes may end, so deadlock is not checked.

In `Session` two Connections are what it takes for an answer to outlive the
connection that asked; two users for a cookie that changes hands; two failures
(of a request, a connection, a lookup or by another tab) for one during the
recovery from another. Of three commands, one fits the bucket, and two
violations in a row close the connection. A command costs more than a tick
brings, so a bucket is also found between empty and full. The runs stop when
the bounds are used up, so deadlock is not checked in them.

Fairness. `hub`: the hub goroutine runs the operation it has started to
its end (weak fairness of `HubStep`); the writer goroutine and the browser keep
forwarding (`Deliver`); a tab that lost its connection retries for ever
(`Connection.onclose` schedules `open` again whenever the server is unreachable
or the session is still valid), so `Register` is fair. Commands, logins and
faults are not fair: nothing makes them happen. `conn` assumes that each
goroutine keeps running: the hub (no step of it waits for anybody), the writer,
the handler where it does not wait for its client, a waiting login and a
posting timer. Clients need not send, logins need not come and nobody need shut
the server down. `moves` assumes that time passes and that a timer that is
due fires and its closure runs (the hub's queue is served, see `conn`).
`startup` assumes that a process that runs goes on; nothing makes one start or
stop. `session` assumes that something that can happen by itself does
(`SystemStep`): the network delivers, the server and the hub serve what is
queued, requests are answered and timers fire. These steps run out
unless a user or a failure intervenes, so one condition for all of them starves
none. Users, failures, other tabs and the clock of the limiter owe nothing.

## Findings

`conn_gone`: `hub.go` says that the hub owns "the set of connected clients". If
a connection's context is done while its `Register` is queued or running (its
writer failed, or its buffer overflowed), `call` may return the context's error
before the closure has run or although it has; `handleWS` then returns before
`defer s.hub.Unregister(c)`, and the closure's `h.clients[c] = struct{}{}`
stays until the process ends. Nothing is delivered to such a connection, but
every event is still encoded for it. `JoinedLeaves` shows that this window is
the only one.

`schedule_used`: SPEC 4.1 counts as used the votes on notes that are "not
assigned in a `locked` or `done` wave". When a moderator deletes a note of a
locked wave, the browser's `note_deleted` takes one off `votesUsed` for a vote
that the lock had refunded already (`reducer.ts:114-115`). The browser then
offers a vote that the server refuses, until its next snapshot.
`OffersWhatIsAllowed` shows that it never errs in the other direction.

`session_kicked`: `store.ts` says that `loggedOut` is "Set when the server no
longer accepts our session." Nothing clears it when the login form replaces the
board: `connect` does, in the first effect of the next `Workspace`. That
`Workspace` has been rendered with the old value, so its second effect takes the
user back to the form, although the login succeeded. The second login works.

`session_marks`: `protocol.ts:42` says of `voted` "Whether this user voted for
it", `reducer.ts:21` of `votesUsed` "Vote dots this user has placed", and SPEC 2
of a star that it is "visible only to its owner". Two people use one browser: a
tab shows the first one's board, the second logs in in another tab, and the first
tab's connection breaks. It dials again with the second one's cookie and
`since=lastSeq` (`ws.ts:72`); if the ring holds what it missed, `Register` replays
it and sends no snapshot (`hub.go:221-228`). The hello makes the second user
`you` and leaves the board (`reducer.ts:51`), so the first one's votes and stars
stay marked as the second one's, and votes are offered by the first one's count,
until a reload, or a snapshot for another reason. `MarksAreOwn` shows that it
takes another tab's login: logging out and in within a tab begins with an empty
board, whatever comes late.

Two more divergences are not runs of their own. `create_slot` promises "`endAt >
startAt`" (`SPEC.md:509`), but checks the times before it cuts them to
milliseconds: a slot within one millisecond is stored with both times equal,
no longer parses, is not compared with later slots, and with a session in it
keeps the wave from being locked. The part of `ScheduleSound` about slots is
therefore about slots that have a length. And `permissions.go:80-81` says that
"during setup only moderators and organizers may act", but a held move is
authorized with the role in the connection of its last mover, which
`refreshRole` no longer updates once the mover has disconnected: after a
demotion the move is still applied. `MoverMayInteract` shows that this needs a
mover who has gone, and that no move is applied after the event is done.

## What is proved

TLAPS proves for every value of the constants:

- `Ring_proofs`: for any capacity and payloads: type correctness; the ring holds
  the last `n` events (`HoldsTheLastN`); `after` answers ok exactly when nothing
  missed was evicted (`AfterIsComplete`) and then returns exactly what was missed
  (`ReturnsWhatWasMissed`); the ring implements `EventWindow`.
- `Hub_proofs`: for any users, tabs, batches, ring size, replay limit and buffer
  with `MaxReplay + 1 <= SendBuffer` (in the code 512 and 1024): `TypeOK`,
  `SeqCountsEvents` (the persisted seq, the hub's and the log agree), `NoGap` and
  `NothingExtra`, which make `ShownExactly`, `ConnRoleIsFresh`,
  `AckAfterEvents`, `DrainedShowsBoard`, `DrainedKnowsRole`, `ReplayFits`,
  `NeverRewinds`; and that the hub's use of the ring implements `EventWindow`
  (`ImplementsWindow`).
- `Schedule_proofs`: for any users, notes, waves, slots, times, precision and
  limits: `TypeOK`, `OneOpenWave`, `GridSound`, `LinksAreFinal` and
  `SlotsDisjoint`, which make `ScheduleSound`; `BoardMatches`, and
  `OffersWhatIsAllowed` of `Controls`; of every step `ClosedWavesAreFinal`,
  `HistoryIsKept`, `DoneIsFinal`; and `BudgetRespected` for finitely many notes.
- `Moves_proofs`: for any users, connections, notes, places and interval:
  `TypeOK`, `AnsweredOnce` and `AcksNameTheMove`, which make `RepliesSound`,
  `MovesInOrder`, and of every step `MovesSpaced` and `MoverMayInteract`.
- `ConnLife_proofs`: for any connections, requests, posters and capacities:
  `TypeOK`, `JoinedLeaves`, and of every step `DeliversPrefix`.
- `Startup_proofs`: for any builds, processes and ids: `TypeOK`, `HistorySound`,
  `OpensItsOwnSchema`, `OneEvent`, and of every step `NoSpuriousRefusal`.
- `Session_proofs`: for any rates: `RateLimited` of `RateLimit`; for any users and
  bounds: `TypeOK`, that `Session` implements `RateLimit`'s specification and so
  `RateLimited`, `QuietWhenLeft`, `MarksAreOwn`, `AnswersAreTrue`.
- `Board_proofs`: for any users, notes, regions, spots, shapes and contents:
  `TypeOK`, `CachesMatch`, `BoardMatches`, `TagsShowTopmost`; and `NoOverlap` while
  the spiral has room for the notes (`RoomFor`).

For moves the invariant is that what waits is sound (`PendingSound`: commands
received for this note, the latest of which gives mover and target, all later
than every move of the note), that applied moves are what was asked
(`MovesSound`), and that each command waits unanswered or has its one answer.
The order of moves alone is not inductive: it needs that what waits is newer
than what was applied. `MovesSpaced` rests on `TimersSound`, which relates the
code's clock to the real one: a timer set for the rest of an interval fires an
interval after the last move. `MoverMayInteract` needs that connected clients
have the role the database holds (`RolesFresh`).

For the schedule the invariant is `Inv`, the conjunction of type correctness,
one open wave, the sound grid and the final links: `GridSound` needs to know
that tracks and slots in use do not go away, `LinksAreFinal` that a wave never
leaves its closed states (`WaveSteps`). The action properties follow from `Inv`
with one case per command. `BudgetRespected` then rests on the two of them that
say a refunded vote cannot count again (`CountedStep`). `SlotsDisjoint` needs
that the stored slot is no longer than a slot may be (`CutLength`, where the
limit is a whole number of milliseconds): only then does the check for overlaps
see every stored slot.

That browsers show what a snapshot would is the invariant `Seen`: votes and
assignments are finite sets, so what `clear_wave`, `assign_note` and a lock
announce one by one is announced in full, and every open board shows the tables
(`Current`). One lemma per kind of event says what it does to a board that shows
some tables (`OnNoteDeleted` ... `OnLinks`), one per sequence of events what the
fold does (`AfterUnassigned`, `AfterLock`). The derived flag `scheduled` is right
because an assigned note exists (`GridSound`): `withAssignments` sets it only for
notes on the board.

`OffersWhatIsAllowed` needs one thing more. A browser's count of its user's votes
is not the server's (see Findings); it is enough that it is never higher
(`CountsNoMore`), and that is inductive with `Inv` and `Seen`. A vote or a
retraction moves both counts by one; a deletion takes at most one vote from the
server's count, and one from the browser's if the note had the user's vote; a
lock lowers the server's count of exactly those users it tells (`LockTells`);
nothing else moves either (`AfterQuiet`, `SameClosed`). That every cell the
server would fill is offered rests on `OneOpenWave`: a session scheduled outside
the open wave is in a closed one, hence a possible repeat, hence in the `pool`.

For the board the invariant is `BoardInv`: the tables are good (`GoodTables`: the
tag of every note is the region on top under its center, and rowids are
distinct), the caches are what a restart would load, and every browser shows
what a snapshot would. Good tables are what makes two shortcuts of the code
right. `retagAll` announces only notes whose tag changes, which is enough
because all other tags were current; and a browser appends or replaces regions
in a list, which is the list a snapshot builds because rowids order the regions
one way only. `TagsShowTopmost` then says of a browser's list what `TagsCurrent`
says of the table. `NoOverlap` needs that the search for a free place finds one.
`geometry.go` calls the other case "unreachable with a finite, modest number of
notes"; `RoomFor(k)` makes that precise: among the candidates of the spiral there
is a grid of k places so far apart that no note is in the way of two of them.
With the code's constants it holds up to 74,259 notes.

The last role a tab is told is the right one because of `RoleInv`: the log ends
with every user's role in the database (`RolesLogged`); what a tab will know when
it has read its queue (`WillKnow`) is the last role among the events it was
served, or, while a replay of older events is going on, the one its hello named;
and no queued event will be skipped as already seen (`EventsAreNews`).
For `ImplementsWindow` a step of `Hub` is one of the window only in `Publish` and
`Restart`, the latter also between a commit and its publication.

Sums, folds over the events of a commit, and the ring's `after` are proved by
induction on sets of numbers that are defined without recursion (`Induct`, from
the least number principle): an induction theorem with a predicate as a
parameter could not be used.

The argument for the hub is the invariant `IndInv` (at the end of `Hub`). `NoGap`
alone is not inductive: a frame in a queue is only harmless if what it
presupposes is in front of it. So `IndInv` says of each queued frame that every
event before its seq that reaches the tab is in the tab already, or in an
earlier frame, or in an earlier snapshot (`Covered`, `FrameSound`); that seqs
along a queue never fall (`FrameOrdered`); that the role changes along a queue
only at a hello or a snapshot (`FrameKeepsRole`); and that the queue as a whole
brings the tab to the hub's seq, or to the point its replay has reached, in the
connection's role (`TailSound`). Three lemmas say what can happen to a queue:
it is left alone (`QuietTab`), a frame the hub may send next is appended
(`AppendedQueue`, `ServedTab`), its first frame is delivered
(`DeliveredQueue`). The steps then only have to show which of these applies.

For connections there are two invariants. `JoinInv`: there is one Register of a
connection, queued, running or completed, so that nothing can put a connection
back into `Hub.clients` after its Unregister; and a joined connection whose
handler has returned has left, or its Unregister is in the queue. `StreamInv`:
while a connection is not killed its buffer holds, in order, exactly the frames
after the last one that left it (`Rising`, `Within`, `Complete`). The frame that
`enqueue` dropped is not among them (`Top`), and no frame follows it, because
the hub kills the connection before it sends the next one.

For start-up the invariant is `Inv`: a transaction has the lock (`LockInv`), so
what it would commit differs from the database by its own statements only
(`Works`), and its fragment is the one after the last recorded (`Applied`).
`NoSpuriousRefusal` further needs that fragments without gaps and duplicates are
known by their numbers (`Loaded`, a pigeonhole argument); `OneEvent` that a
stored id stays (`Kept`).

For the limiter the invariant is a balance (`Balance`): what the meter shows and
what the bucket could let through now are at most `Burst` together. It holds for
the bucket after the refill that is due, not for `tokens`, which the code brings
up to date only when a command comes; `OneMoreTick` relates the two.

For the session `Places` says which requests can be under way on which page,
from which `QuietWhenLeft` follows. The other two properties rest on a list of
what a step can do to the socket and the commands (`Kinds`, lemma `StepKinds`),
so that each later invariant is shown for eleven kinds of steps instead of
twenty-seven: `PeerOpen` and `Greetings` (a socket has greeted, or will greet,
with the user it was opened for, who is the user of its snapshot too, and none is
greeted before it is open); `Marked` (a connected tab has a snapshot, or one is
on its way); `Flight` (a command is in one queue and there once, and undecided while it is),
which makes a decision final (`FateIsFinal`); `Answers` (the answers under way
say what was decided). `MarksAreOwn` relates four things that change at different
times, so it is not inductive; `OneUser` is: `you`, the marks, the socket's cookie
and the jar's are one user's or nobody's, in a live tab and until another tab logs
in. For it a step narrows these four, or leaves the tab without a connection, or
begins with an empty board (`Turns`, lemma `StepTurns`). `Places` keeps logins and
the page's first request away from a live tab, `Greetings` makes what a frame
brings the socket's user's, and `Marked` says that a tab that has caught up has
marks at all.

The assumptions on constants (`RateAssumption`, `SessionAssumption`, `RingAssumption`, `HubAssumption`,
`ConnLifeAssumption`, `ScheduleAssumption`, `MovesAssumption`,
`GeometryAssumption`, `BoardAssumption`, `StartupAssumption`) are evaluated by
TLC in every run of their modules.

`HoldsTheLastN`, `SeqCountsEvents`, `NeverRewinds`, `OneOpenWave`, `HistoryIsKept`,
`DoneIsFinal` and every `TypeOK` are proved and not also run. Every safety
invariant, action property and refinement that a passing run checks is proved.

Only model-checked: liveness under fairness, which is out of the prover's reach
(`EventuallyCurrent`, `EverybodyReturns`, `ShutdownCompletes`, `EveryMoveAnswered`,
`StartsUp`, `EverySendSettles`, `ComesToRest`), and the four violations, which
are about what does not hold.

## What is not modelled, and the plan

In the order in which the remaining parts matter:

1. More proofs: the safety facts that the liveness properties rest on (what
   makes the next fair step possible), and what the violations leave standing.
2. A database that loses its last commits on power loss.
3. Roles of `Hub` that hide notes, once a command does.

Left out of `Session`: how long the backoff is; a signing key that is replaced
(cookies then stop verifying: `OtherTab(NoUser)`); the top bar's name, which
stays the one that logged in when another tab's login changes who the tab acts
as (the `me` of `App`, beside the marks of `session_marks`); events, and
snapshots that follow a role change, which `Hub` has; answers that
`Moves` holds back, so that they do not come in the order of their commands.

Left out for good: HTTP routing and static files, cookie cryptography, JSON
encoding, SQL text, and the browser's rendering. SQLite's transactions are
taken to be atomic and durable (the code's `synchronous=NORMAL` with WAL may
lose the last commits on power loss; `Restart` models a process crash).

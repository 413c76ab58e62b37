---------------------------------- MODULE Hub ----------------------------------
(***************************************************************************)
(* The realtime core: the hub goroutine (internal/server/hub.go), its      *)
(* connections (internal/server/ws.go) and the browser tabs that fold the  *)
(* frames they receive (web/src/api/ws.ts, web/src/store/reducer.ts).      *)
(*                                                                         *)
(* The database is the sequence log of the events committed so far; the    *)
(* event with seq s is log[s], and the board some reader may see is the    *)
(* set of the events that reach it.  A tab's board is the set view of the  *)
(* events its state incorporates.  So "the tab shows the right board" is   *)
(* an equation between two sets of seqs.                                   *)
(*                                                                         *)
(* A hub operation is several steps: one per event published or replayed,  *)
(* one for the answer at the end.  Between them connections drain and      *)
(* break and the process may die; no other hub operation starts, since     *)
(* they all run on the hub goroutine.                                      *)
(*                                                                         *)
(* The frames queued in conn.send and those in flight are one queue: the   *)
(* writer goroutine forwards them in order, and a break loses a suffix of  *)
(* both.  A broken connection leaves Hub.clients at once, since frames     *)
(* queued for it are never delivered; module ConnLife models the steps of  *)
(* that removal.                                                           *)
(***************************************************************************)
EXTENDS Integers, Sequences

CONSTANTS
  Users, Nobody,
  Tabs, NoTab,         \* browser tabs, each with at most one live connection
  UserOf,              \* the user logged in in each tab
  InitRole,            \* the roles the database holds at first
  Batches,             \* the event sequences a board command can produce
  Capacity,            \* ring size (defaultRingSize)
  MaxReplay,           \* longest replay (maxReplay)
  SendBuffer,          \* frames a connection queues (sendBuffer)
  MaxSeq,              \* bound on the events committed
  MaxFaults            \* bound on breaks, reloads, restarts and eventless commands

Roles == {"participant", "moderator", "organizer"}
Staff(r) == r \in {"moderator", "organizer"}      \* r.AtLeast(RoleModerator)

\* An event, by who receives it: everyone, staff only, or one user's own
\* connections.  A role_set also says whose role becomes what.
Event == [to : {"everyone", "staff"} \cup Users, who : Users \cup {Nobody}, role : Roles]
BoardEvent(to) == [to |-> to, who |-> Nobody, role |-> "participant"]

RoleSetToStaff(u, r) == [to |-> "staff", who |-> u, role |-> r]                 \* mutant
RoleSet(u, r) == [to |-> "everyone", who |-> u, role |-> r]

ASSUME HubAssumption ==
  /\ Nobody \notin Users /\ NoTab \notin Tabs
  /\ UserOf \in [Tabs -> Users]
  /\ InitRole \in [Users -> Roles]
  /\ Batches \subseteq {es \in Seq(Event) : \A k \in 1 .. Len(es) : es[k].who = Nobody}
  /\ Capacity \in Nat \ {0} /\ MaxReplay \in Nat /\ SendBuffer \in Nat
  /\ MaxReplay + 1 <= SendBuffer       \* hello and a replay fit an empty buffer
  /\ MaxSeq \in Nat /\ MaxFaults \in Nat

VARIABLES
  log, dbSeq, role,          \* the database: events committed, meta.seq, users.role
  seq, kept,                 \* Hub.seq, and how many last events the ring holds
  pc, ackTo, refresh,        \* the hub operation in progress
  target, next,              \* for a replay: the tab, and the next seq to replay
  up, crole, send,           \* connections: in Hub.clients, conn.user.Role, conn.send
  pos, view, you,            \* tabs: BoardState.seq, the events incorporated, you.role
  enc, mixed,                \* history variables: see below
  faults

database == <<log, dbSeq, role>>
hubState == <<seq, kept, pc, ackTo, refresh, target, next>>
conns    == <<up, crole, send>>
tabs     == <<pos, view, you, enc, mixed>>
vars     == <<database, hubState, conns, tabs, faults>>

(***************************************************************************)
(* enc[t] is the role for which the frames tab t last received were        *)
(* encoded.  mixed[t] holds once its board was assembled from frames       *)
(* encoded for different audiences, until a snapshot replaces the board.   *)
(***************************************************************************)

Window == INSTANCE EventWindow WITH
            history <- SubSeq(log, 1, seq), Payload <- Event

---------------------------------------------------------------------------
(* Frames and audiences *)

\* frameFor: whether u's connection receives e while its role is r.
Reaches(e, u, r) == e.to = "everyone" \/ (e.to = "staff" /\ Staff(r)) \/ e.to = u

\* The events among the first n that make up u's board in role r.
Visible(u, r, n) == {i \in 1 .. n : i <= Len(log) /\ Reaches(log[i], u, r)}

Frame == [type : {"hello", "snapshot", "event", "ack"}, seq : Nat, upto : Nat, role : Roles]
Hello(r)       == [type |-> "hello",    seq |-> seq, upto |-> 0, role |-> r]
AnEvent(s, r)  == [type |-> "event",    seq |-> s,   upto |-> 0, role |-> r]
Ack(r)         == [type |-> "ack",      seq |-> seq, upto |-> 0, role |-> r]
\* sendSnapshot: labelled with Hub.seq, built from what the database holds.
Snapshot(r, n) == [type |-> "snapshot", seq |-> seq, upto |-> n, role |-> r]

Fits(t) == Len(send[t]) < SendBuffer

\* mutant: a full buffer drops the frame and nothing else
enqueueDrops(S, frame) ==
  /\ send' = [t \in Tabs |-> IF t \in S /\ Fits(t) THEN Append(send[t], frame[t]) ELSE send[t]]
  /\ UNCHANGED up

\* enqueue frame[t] to every tab of S; a full buffer kills the connection.
enqueue(S, frame) ==
  /\ send' = [t \in Tabs |-> IF t \notin S THEN send[t]
                             ELSE IF Fits(t) THEN Append(send[t], frame[t]) ELSE <<>>]
  /\ up' = [t \in Tabs |-> up[t] /\ (t \in S => Fits(t))]

\* refreshRole: the connections of u take role r and get a snapshot for it.
refreshRole(u, r, n) ==
  LET mine == {t \in Tabs : up[t] /\ UserOf[t] = u}
  IN  /\ crole' = [t \in Tabs |-> IF t \in mine THEN r ELSE crole[t]]
      /\ enqueue(mine, [t \in mine |-> Snapshot(r, n)])

\* The operation is over.
Idle == /\ pc' = "idle" /\ ackTo' = NoTab /\ refresh' = Nobody
        /\ target' = NoTab /\ next' = 0

---------------------------------------------------------------------------
Init ==
  /\ log = <<>> /\ dbSeq = 0 /\ role = InitRole
  /\ seq = 0 /\ kept = 0
  /\ pc = "idle" /\ ackTo = NoTab /\ refresh = Nobody /\ target = NoTab /\ next = 0
  /\ up = [t \in Tabs |-> FALSE]
  /\ crole = [t \in Tabs |-> "participant"]
  /\ send = [t \in Tabs |-> <<>>]
  /\ pos = [t \in Tabs |-> 0]
  /\ view = [t \in Tabs |-> {}]
  /\ you = [t \in Tabs |-> "participant"]
  /\ enc = [t \in Tabs |-> "participant"]
  /\ mixed = [t \in Tabs |-> FALSE]
  /\ faults = 0

---------------------------------------------------------------------------
(* Hub operations *)

\* The seq commit stores for a transaction that produced es.
advanced(es) == seq + Len(es)

\* commit: the transaction that records es and advances meta.seq.
commit(es) ==
  /\ pc = "idle"
  /\ Len(log) + Len(es) <= MaxSeq
  /\ log' = log \o es
  /\ dbSeq' = advanced(es)
  /\ pc' = "publish"
  /\ UNCHANGED <<seq, kept, target, next>>

\* handleCommand, for a command that changes the board and is then acked.
\* ackTo is NoTab for a commit no tab waits for: a login, a meeting link.
Command(t, es) ==
  /\ t # NoTab => up[t]
  /\ commit(es)
  /\ ackTo' = t /\ refresh' = Nobody
  /\ UNCHANGED <<role, conns, tabs, faults>>

\* handleCommand, for one that is rejected or changes nothing.
AnswerOnly(t) ==
  /\ faults < MaxFaults /\ faults' = faults + 1
  /\ pc = "idle" /\ up[t]
  /\ enqueue({t}, [x \in {t} |-> Ack(crole[t])])
  /\ UNCHANGED <<database, hubState, crole, tabs>>

\* setRole: an organizer switches u between participant and moderator.  Its
\* `after' runs before the role_set event is published.
SetRole(t, u, r) ==
  /\ up[t] /\ crole[t] = "organizer"
  /\ r \in {"participant", "moderator"} /\ role[u] \notin {"organizer", r}
  /\ commit(<<RoleSet(u, r)>>)
  /\ role' = [role EXCEPT ![u] = r]
  /\ refreshRole(u, r, Len(log) + 1)
  /\ ackTo' = t /\ refresh' = Nobody
  /\ UNCHANGED <<tabs, faults>>

\* login with the admin key promotes u; refreshRole follows the event.
LoginAsOrganizer(u) ==
  /\ role[u] # "organizer"
  /\ commit(<<RoleSet(u, "organizer")>>)
  /\ role' = [role EXCEPT ![u] = "organizer"]
  /\ ackTo' = NoTab /\ refresh' = u
  /\ UNCHANGED <<conns, tabs, faults>>

\* ring.push, as EventWindow describes it.
pushed == IF kept < Capacity THEN kept + 1 ELSE kept

\* publish: the next committed event gets the next seq, enters the ring and
\* goes to every connection it reaches.
Publish ==
  /\ pc = "publish" /\ seq < Len(log)
  /\ LET s == seq + 1
         S == {t \in Tabs : up[t] /\ Reaches(log[s], UserOf[t], crole[t])}
     IN  /\ seq' = s
         /\ kept' = pushed
         /\ enqueue(S, [t \in S |-> AnEvent(s, crole[t])])
  /\ UNCHANGED <<database, pc, ackTo, refresh, target, next, crole, tabs, faults>>

\* mutant: the ack of the whole commit is queued before its events
AckFirst ==
  /\ pc = "publish" /\ ackTo \in Tabs /\ up[ackTo]
  /\ enqueue({ackTo}, [t \in {ackTo} |-> [Ack(crole[t]) EXCEPT !.seq = Len(log)]])
  /\ ackTo' = NoTab
  /\ UNCHANGED <<database, seq, kept, pc, refresh, target, next, crole, tabs, faults>>

\* The end of a command: its ack.
FinishCommand ==
  /\ pc = "publish" /\ seq = Len(log) /\ refresh = Nobody
  /\ LET S == {t \in Tabs : t = ackTo /\ up[t]}
     IN  enqueue(S, [t \in S |-> Ack(crole[t])])
  /\ Idle
  /\ UNCHANGED <<database, seq, kept, crole, tabs, faults>>

\* The end of a promotion at login.
FinishLogin ==
  /\ pc = "publish" /\ seq = Len(log) /\ refresh # Nobody
  /\ refreshRole(refresh, role[refresh], Len(log))
  /\ Idle
  /\ UNCHANGED <<database, seq, kept, tabs, faults>>

\* Register replays what the ring still holds after since, if that is all
\* the tab missed and not too much.
ReplaysEvicted(since) == since > 0 /\ since <= seq /\ seq - since <= MaxReplay    \* mutant
ReplaysAll(since) == since > 0 /\ Window!Available(since)                         \* mutant
Replays(since) == since > 0 /\ Window!Available(since) /\ seq - since <= MaxReplay
firstAfter(since) == IF since >= seq - kept THEN since + 1 ELSE seq - kept + 1

roleThen(t) == crole[t]                                       \* mutant: no re-read
\* UserByID: the role Register finds in the database.
roleNow(t) == role[UserOf[t]]

\* A tab connects with since = pos[t].  Register re-reads the user, greets
\* the connection, and starts a replay or queues a snapshot.
Register(t) ==
  /\ pc = "idle" /\ ~up[t]
  /\ LET r == roleNow(t)
     IN  /\ crole' = [crole EXCEPT ![t] = r]
         /\ up' = [up EXCEPT ![t] = TRUE]
         /\ \/ /\ Replays(pos[t])
               /\ send' = [send EXCEPT ![t] = <<Hello(r)>>]
               /\ pc' = "replay" /\ target' = t /\ next' = firstAfter(pos[t])
            \/ /\ ~Replays(pos[t])
               /\ send' = [send EXCEPT ![t] = <<Hello(r), Snapshot(r, Len(log))>>]
               /\ UNCHANGED <<pc, target, next>>
  /\ UNCHANGED <<database, seq, kept, ackTo, refresh, tabs, faults>>

\* One turn of Register's loop over the missed events.
Replay ==
  /\ pc = "replay" /\ next <= seq
  /\ LET S == {t \in Tabs : t = target /\ up[t] /\ Reaches(log[next], UserOf[t], crole[t])}
     IN  enqueue(S, [t \in S |-> AnEvent(next, crole[t])])
  /\ next' = next + 1
  /\ UNCHANGED <<database, seq, kept, pc, ackTo, refresh, target, crole, tabs, faults>>

FinishReplay ==
  /\ pc = "replay" /\ next > seq
  /\ Idle
  /\ UNCHANGED <<database, seq, kept, conns, tabs, faults>>

---------------------------------------------------------------------------
(* The browser: applyFrame *)

Deliver(t) ==
  /\ up[t] /\ send[t] # <<>>
  /\ send' = [send EXCEPT ![t] = Tail(@)]
  /\ LET f == Head(send[t])
         u == UserOf[t]
     IN  \/ /\ f.type = "hello"
            /\ you' = [you EXCEPT ![t] = f.role]
            /\ enc' = [enc EXCEPT ![t] = f.role]
            /\ mixed' = [mixed EXCEPT ![t] = @ \/ Staff(f.role) # Staff(enc[t])]
            /\ UNCHANGED <<pos, view>>
         \/ /\ f.type = "snapshot"
            /\ pos' = [pos EXCEPT ![t] = f.seq]
            /\ view' = [view EXCEPT ![t] = Visible(u, f.role, f.upto)]
            /\ enc' = [enc EXCEPT ![t] = f.role]
            /\ mixed' = [mixed EXCEPT ![t] = FALSE]
            /\ UNCHANGED you
         \/ /\ f.type = "event" /\ f.seq > pos[t]
            /\ pos' = [pos EXCEPT ![t] = f.seq]
            /\ view' = [view EXCEPT ![t] = @ \cup {f.seq}]
            /\ you' = [you EXCEPT ![t] = IF log[f.seq].who = u THEN log[f.seq].role ELSE @]
            /\ UNCHANGED <<enc, mixed>>
         \/ /\ f.type = "ack" \/ (f.type = "event" /\ f.seq <= pos[t])
            /\ UNCHANGED tabs
  /\ UNCHANGED <<database, hubState, up, crole, faults>>

---------------------------------------------------------------------------
(* Faults *)

Fault == faults < MaxFaults /\ faults' = faults + 1

Cut(t) == /\ up' = [up EXCEPT ![t] = FALSE]
          /\ send' = [send EXCEPT ![t] = <<>>]

\* The connection is lost or killed; the tab keeps its board and its seq.
Break(t) ==
  /\ Fault /\ up[t] /\ Cut(t)
  /\ UNCHANGED <<database, hubState, crole, tabs>>

\* The page is reloaded: connect() starts again from initialBoard.
Reload(t) ==
  /\ Fault /\ pos[t] # 0 /\ Cut(t)
  /\ pos' = [pos EXCEPT ![t] = 0]
  /\ view' = [view EXCEPT ![t] = {}]
  /\ you' = [you EXCEPT ![t] = "participant"]
  /\ enc' = [enc EXCEPT ![t] = "participant"]
  /\ mixed' = [mixed EXCEPT ![t] = FALSE]
  /\ UNCHANGED <<database, hubState, crole>>

\* mutant: the ring outlives the events it does not hold
RestartKeepsRing ==
  /\ Fault
  /\ seq' = dbSeq /\ UNCHANGED kept
  /\ Idle
  /\ up' = [t \in Tabs |-> FALSE] /\ send' = [t \in Tabs |-> <<>>]
  /\ UNCHANGED <<database, crole, tabs>>

\* The server process dies at any moment and starts again: newHub reads
\* meta.seq, and has an empty ring and no clients.
Restart ==
  /\ Fault
  /\ seq' = dbSeq /\ kept' = 0
  /\ Idle
  /\ up' = [t \in Tabs |-> FALSE]
  /\ send' = [t \in Tabs |-> <<>>]
  /\ UNCHANGED <<database, crole, tabs>>

---------------------------------------------------------------------------
HubStep == Publish \/ FinishCommand \/ FinishLogin \/ Replay \/ FinishReplay

Next ==
  \/ HubStep
  \/ \E t \in Tabs \cup {NoTab}, es \in Batches : Command(t, es)
  \/ \E u \in Users : LoginAsOrganizer(u)
  \/ \E t \in Tabs, u \in Users, r \in Roles : SetRole(t, u, r)
  \/ \E t \in Tabs : AnswerOnly(t) \/ Register(t) \/ Deliver(t) \/ Break(t) \/ Reload(t)
  \/ Restart

Spec == Init /\ [][Next]_vars

\* The hub goroutine runs the operation it started; the writer goroutine and
\* the browser keep forwarding; a tab that lost its connection tries again
\* for ever (Connection.onclose).
Fairness == /\ WF_vars(HubStep)
            /\ \A t \in Tabs : WF_vars(Deliver(t)) /\ WF_vars(Register(t))

FairSpec == Spec /\ Fairness

---------------------------------------------------------------------------
(* Properties *)

TypeOK ==
  /\ log \in Seq(Event) /\ dbSeq \in Nat /\ role \in [Users -> Roles]
  /\ seq \in Nat /\ kept \in 0 .. Capacity
  /\ pc \in {"idle", "publish", "replay"}
  /\ ackTo \in Tabs \cup {NoTab} /\ refresh \in Users \cup {Nobody}
  /\ target \in Tabs \cup {NoTab} /\ next \in Nat
  /\ up \in [Tabs -> BOOLEAN] /\ crole \in [Tabs -> Roles] /\ send \in [Tabs -> Seq(Frame)]
  /\ pos \in [Tabs -> Nat] /\ view \in [Tabs -> SUBSET Nat]
  /\ you \in [Tabs -> Roles] /\ enc \in [Tabs -> Roles] /\ mixed \in [Tabs -> BOOLEAN]
  /\ faults \in Nat

\* The persisted seq and the hub's seq count the same events as the log at
\* every moment a restart or a commit may look at them, so no seq is ever
\* given to two events (commit: "advances the persisted seq by the number of
\* events fn returns").
SeqCountsEvents ==
  /\ dbSeq = Len(log) /\ seq <= Len(log)
  /\ pc # "publish" => seq = Len(log)

\* A tab whose board was built for one audience has, at seq s, every event up
\* to s that reaches it: no replay, snapshot, ring eviction, slow buffer or
\* restart ever makes it skip one (reducer.ts: "Seqs can skip ... never go
\* backwards").
NoGap ==
  \A t \in Tabs : ~mixed[t] => Visible(UserOf[t], enc[t], pos[t]) \subseteq view[t]

\* Nor does its board contain an event its audience must not see.
NothingExtra ==
  \A t \in Tabs : ~mixed[t] => view[t] \subseteq Visible(UserOf[t], enc[t], Len(log))

\* So a tab's board is made of exactly the events it is for: each of them
\* once, whatever was filtered, replayed, evicted, lost or snapshotted.
ShownExactly == NoGap /\ NothingExtra

\* A command's ack never overtakes the events of the command: when the tab
\* reads ack(s) its board has everything up to s (Board.tsx drops the local
\* ghost of a move when the ack resolves).
AckAfterEvents ==
  \A t \in Tabs :
    up[t] /\ ~mixed[t] /\ send[t] # <<>> /\ Head(send[t]).type = "ack"
      => Visible(UserOf[t], enc[t], Head(send[t]).seq) \subseteq view[t]

\* A connected tab that has read everything shows exactly the board its
\* user's role in the database may see ...
Drained(t) == pc = "idle" /\ up[t] /\ send[t] = <<>>
ShowsBoard(t) == view[t] = Visible(UserOf[t], role[UserOf[t]], Len(log))

DrainedShowsBoard == \A t \in Tabs : Drained(t) /\ ~mixed[t] => ShowsBoard(t)

\* ... and it knows that role, by its hello and the role_set events since.
DrainedKnowsRole == \A t \in Tabs : Drained(t) => you[t] = role[UserOf[t]]

\* The role by which frames are chosen for a connection is the one in the
\* database, except while the promotion of that user is being published:
\* after a demotion is committed nothing more is encoded for the old role.
ConnRoleIsFresh ==
  \A t \in Tabs : up[t] => crole[t] = role[UserOf[t]] \/ refresh = UserOf[t]

\* A replay always fits the buffer of the connection it is for: catching up
\* by replay cannot itself get the client disconnected (maxReplay).
ReplayFits ==
  pc = "replay" /\ up[target] => Len(send[target]) + (seq + 1 - next) <= SendBuffer

\* A tab's seq only moves forward until the page is reloaded.
NeverRewinds == [][\A t \in Tabs : pos'[t] >= pos[t] \/ Reload(t)]_vars

\* The hub's use of the ring is the sliding window's.
ImplementsWindow == Window!Spec

\* Once faults stop, every tab is connected, knows its role and shows the
\* current board, unless that mixes audiences.
EventuallyCurrent == \A t \in Tabs : <>[](up[t] /\ you[t] = role[UserOf[t]] /\ (mixed[t] \/ ShowsBoard(t)))

---------------------------------------------------------------------------
(***************************************************************************)
(* Why NoGap holds.  By the time a tab applies the k-th queued frame it    *)
(* will have event i, because it has it already, or an earlier frame       *)
(* carries it, or an earlier snapshot includes it.                         *)
(***************************************************************************)
Covered(t, k, i) ==
  \/ i <= pos[t]
  \/ \E j \in 1 .. k - 1 : \/ send[t][j].type = "event" /\ send[t][j].seq = i
                           \/ send[t][j].type = "snapshot" /\ send[t][j].seq >= i

CoveredUpTo(t, k, r, n) ==
  \A i \in 1 .. n : Reaches(log[i], UserOf[t], r) => Covered(t, k, i)

\* Frame k can be applied when it is reached.
FrameSound(t, k) ==
  LET f == send[t][k]
  IN  /\ f.seq <= seq
      /\ f.type = "event" => /\ f.seq >= 1
                             /\ Reaches(log[f.seq], UserOf[t], f.role)
                             /\ CoveredUpTo(t, k, f.role, f.seq - 1)
      /\ f.type = "ack" => CoveredUpTo(t, k, f.role, f.seq)
      /\ f.type = "snapshot" => f.seq <= f.upto /\ f.upto <= Len(log)

\* Seqs in the queue never fall behind the tab or an earlier frame.
FrameOrdered(t, k) ==
  send[t][k].type \in {"event", "snapshot"} =>
    /\ pos[t] <= send[t][k].seq
    /\ \A j \in 1 .. k - 1 :
         send[t][j].type \in {"event", "snapshot"} => send[t][j].seq <= send[t][k].seq

\* The role changes along the queue only at a hello or a snapshot.
RoleBefore(t, k) == IF k = 1 THEN enc[t] ELSE send[t][k - 1].role
FrameKeepsRole(t, k) == send[t][k].type \in {"event", "ack"} => send[t][k].role = RoleBefore(t, k)

QueueSound(t) == \A k \in 1 .. Len(send[t]) :
                   FrameSound(t, k) /\ FrameOrdered(t, k) /\ FrameKeepsRole(t, k)

\* The whole queue brings the tab to the hub's seq, or to the point a replay
\* for it has reached, in the role of the connection.
ServedUpTo(t) == IF pc = "replay" /\ target = t THEN next - 1 ELSE seq
TailSound(t) ==
  up[t] => /\ crole[t] = RoleBefore(t, Len(send[t]) + 1)
           /\ CoveredUpTo(t, Len(send[t]) + 1, crole[t], ServedUpTo(t))
           /\ pos[t] <= ServedUpTo(t)
           /\ \A k \in 1 .. Len(send[t]) :
                send[t][k].type \in {"event", "snapshot"} => send[t][k].seq <= ServedUpTo(t)

TabSound(t) == /\ pos[t] <= seq
               /\ ~up[t] => send[t] = <<>>
               /\ QueueSound(t) /\ TailSound(t)

ReplaySound == pc = "replay" => target \in Tabs /\ next \in 1 .. seq + 1

\* The inductive invariant behind NoGap, AckAfterEvents and DrainedShowsBoard.
IndInv == /\ TypeOK /\ SeqCountsEvents /\ ReplaySound
          /\ \A t \in Tabs : TabSound(t)
          /\ pc # "publish" => refresh = Nobody
          /\ ConnRoleIsFresh /\ NoGap /\ NothingExtra
=============================================================================

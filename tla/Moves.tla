--------------------------------- MODULE Moves ---------------------------------
(***************************************************************************)
(* move_note (internal/server/hub.go, handleMove and applyMove): a note    *)
(* moves at most once per Interval, so a move that comes too early waits   *)
(* for a timer, and later moves of the note, whoever sends them, replace   *)
(* what waits and are answered with it.                                    *)
(*                                                                         *)
(* Each closure of the hub is a step.  Where a note comes to lie is        *)
(* abstract here (module Board resolves it): a place, or one out of        *)
(* range.  Time is counted in ticks and only as far as Interval.           *)
(***************************************************************************)
EXTENDS Integers, Sequences, FiniteSets

CONSTANTS Users, Conns, UserOf,   \* UserOf[c]: the user who opened c
          Notes,
          Places, OutOfRange,     \* requested coordinates, valid or not
          Interval,               \* moveInterval
          NoMove,
          MaxCmds, MaxSeq         \* bounds: commands received, seq when others commit

\* pendingMove: its latest mover and target, every command it answers, the
\* latest of them, and the ticks until its timer fires.
PendingMove == [conn : Conns, to : Places \cup {OutOfRange}, cmds : SUBSET (1 .. MaxCmds),
                last : 1 .. MaxCmds, due : 0 .. Interval]

ASSUME MovesAssumption ==
  /\ UserOf \in [Conns -> Users]
  /\ OutOfRange \notin Places /\ NoMove \notin PendingMove
  /\ Interval \in Nat \ {0} /\ MaxCmds \in Nat /\ MaxSeq \in Nat

VARIABLES
  role, lifecycle,        \* users and events tables
  place,                  \* notes table: where each note is (OutOfRange: no such note)
  seq,
  clients, gone,          \* registered connections, and those that were
  connRole,               \* conn.user.Role
  since,                  \* per note, time.Since(lastMove), up to Interval
  pending,                \* per note, the pendingMove or NoMove
  received,               \* history: every move_note in the order it came
  replies,                \* history: what each of them was answered
  moves,                  \* history: the moves applied
  quiet                   \* history: ticks since a note last moved, up to Interval

tables  == <<role, lifecycle, place, seq>>
conns   == <<clients, gone, connRole>>
timing  == <<since, pending>>
history == <<received, replies, moves, quiet>>
vars    == <<tables, conns, timing, history>>

Staff == {"moderator", "organizer"}
Roles == {"participant"} \cup Staff
Lifecycles == <<"setup", "active", "done">>

Exists(n) == place[n] # OutOfRange
Reply == [type : {"ack"}, seq : Nat] \cup [type : {"error"}]

Init ==
  /\ role \in [Users -> Roles] /\ lifecycle = "setup"
  /\ place \in [Notes -> Places \cup {OutOfRange}] /\ seq = 0
  /\ clients = {} /\ gone = {} /\ connRole = [c \in Conns |-> role[UserOf[c]]]
  /\ since = [n \in Notes |-> Interval] /\ pending = [n \in Notes |-> NoMove]
  /\ received = <<>> /\ replies = <<>> /\ moves = <<>>
  /\ quiet = [n \in Notes |-> Interval]

---------------------------------------------------------------------------
(* Moves *)

CheckInteractUnlessDone(r) == lifecycle = "setup" => r \in Staff            \* mutant
CheckInteract(r) ==
  /\ lifecycle # "done"
  /\ lifecycle = "setup" => r \in Staff

\* moveNote accepts: the note is there, the mover may act, the target is valid.
Accepts(r, n, xy) == Exists(n) /\ CheckInteract(r) /\ xy # OutOfRange

answered(answers, cmds, reply) ==
  [k \in DOMAIN answers |-> IF k \in cmds THEN Append(answers[k], reply) ELSE answers[k]]

restart(clock, n) == [clock EXCEPT ![n] = 0]
restartNever(clock, n) == clock                              \* mutant: not recorded
lastMoveNow(clock, n) == restart(clock, n)

\* Commits move pm of note n with role r and answers all its commands, whose
\* replies so far are given.  A new tag is a second event; a transaction may fail.
applyMove(r, n, pm, answers) ==
  /\ since' = lastMoveNow(since, n)
  /\ \/ /\ Accepts(r, n, pm.to)
        /\ \E events \in {1, 2} :
             /\ seq' = seq + events
             /\ replies' = answered(answers, pm.cmds, [type |-> "ack", seq |-> seq + events])
             /\ moves' = Append(moves, [note |-> n, conn |-> pm.conn, cmd |-> pm.last,
                                        to |-> pm.to, seq |-> seq + events])
        /\ place' = [place EXCEPT ![n] = pm.to]
        /\ quiet' = restart(quiet, n)
     \/ /\ replies' = answered(answers, pm.cmds, [type |-> "error"])
        /\ UNCHANGED <<place, seq, moves, quiet>>

\* The move that command k of connection c, about to be recorded, asks for.
newMove(c, k, to) == [conn |-> c, to |-> to, cmds |-> {k}, last |-> k, due |-> 0]

coalesceKeepingTarget(pm, c, k, to) == [pm EXCEPT !.conn = c, !.cmds = @ \cup {k}]      \* mutant
coalesce(pm, c, k, to) ==
  [pm EXCEPT !.conn = c, !.to = to, !.cmds = @ \cup {k}, !.last = k]

Receive(c, n, to) ==
  /\ c \in clients /\ Len(received) < MaxCmds
  /\ received' = Append(received, [conn |-> c, note |-> n, to |-> to])

ReplacesLate(n) == pending[n] # NoMove /\ since[n] < Interval   \* mutant: the clock is asked first
Replaces(n) == pending[n] # NoMove

\* A move waits for the note already: replace it.
Coalesce(c, n, to) ==
  /\ Receive(c, n, to) /\ Replaces(n)
  /\ pending' = [pending EXCEPT ![n] = coalesce(@, c, Len(received) + 1, to)]
  /\ replies' = Append(replies, <<>>)
  /\ UNCHANGED <<tables, conns, since, moves, quiet>>

\* The note moved too recently: wait for the rest of the interval.
Hold(c, n, to) ==
  /\ Receive(c, n, to) /\ ~Replaces(n) /\ since[n] < Interval
  /\ pending' = [pending EXCEPT ![n] = [newMove(c, Len(received) + 1, to)
                                          EXCEPT !.due = Interval - since[n]]]
  /\ replies' = Append(replies, <<>>)
  /\ UNCHANGED <<tables, conns, since, moves, quiet>>

MoveNow(c, n, to) ==
  /\ Receive(c, n, to) /\ ~Replaces(n) /\ since[n] = Interval
  /\ applyMove(connRole[c], n, newMove(c, Len(received) + 1, to), Append(replies, <<>>))
  /\ UNCHANGED <<role, lifecycle, conns, pending>>

DueIfConnected(n) ==                                  \* mutant: the mover must still be there
  pending[n] # NoMove /\ pending[n].due = 0 /\ pending[n].conn \in clients
Due(n) == pending[n] # NoMove /\ pending[n].due = 0

\* The timer's closure, with the role its last mover's connection has now.
TimerMove(n) ==
  /\ Due(n)
  /\ pending' = [pending EXCEPT ![n] = NoMove]
  /\ applyMove(connRole[pending[n].conn], n, pending[n], replies)
  /\ UNCHANGED <<role, lifecycle, conns, received>>

Tick ==
  /\ \E n \in Notes : since[n] < Interval \/ quiet[n] < Interval
                        \/ (pending[n] # NoMove /\ pending[n].due > 0)
  /\ LET next(t) == IF t < Interval THEN t + 1 ELSE t
     IN  /\ since' = [n \in Notes |-> next(since[n])]
         /\ quiet' = [n \in Notes |-> next(quiet[n])]
  /\ pending' = [n \in Notes |-> IF pending[n] = NoMove \/ pending[n].due = 0 THEN pending[n]
                                 ELSE [pending[n] EXCEPT !.due = @ - 1]]
  /\ UNCHANGED <<tables, conns, received, replies, moves>>

---------------------------------------------------------------------------
(* What else the hub does meanwhile *)

Register(c) ==
  /\ c \notin clients \cup gone
  /\ clients' = clients \cup {c}
  /\ connRole' = [connRole EXCEPT ![c] = role[UserOf[c]]]
  /\ UNCHANGED <<tables, gone, timing, history>>

Unregister(c) ==
  /\ c \in clients
  /\ clients' = clients \ {c} /\ gone' = gone \cup {c}
  /\ UNCHANGED <<tables, connRole, timing, history>>

commit == seq < MaxSeq /\ seq' = seq + 1

refreshRole(u, r) ==
  connRole' = [c \in Conns |-> IF c \in clients /\ UserOf[c] = u THEN r ELSE connRole[c]]

RoleBecomes(u, r) ==
  /\ commit
  /\ role' = [role EXCEPT ![u] = r]
  /\ refreshRole(u, r)
  /\ UNCHANGED <<lifecycle, place, clients, gone, timing, history>>

SetRole(c, u, r) ==
  /\ c \in clients /\ connRole[c] = "organizer"
  /\ r \in {"participant", "moderator"} /\ role[u] \notin {"organizer", r}
  /\ RoleBecomes(u, r)

LoginAsOrganizer(u) == role[u] # "organizer" /\ RoleBecomes(u, "organizer")

SetLifecycle(c, to) ==
  /\ c \in clients /\ connRole[c] = "organizer"
  /\ \E i, j \in 1 .. 3 : lifecycle = Lifecycles[i] /\ to = Lifecycles[j] /\ i < j
  /\ commit /\ lifecycle' = to
  /\ UNCHANGED <<role, place, conns, timing, history>>

\* deleteNote, as a moderator may; what waits for the note keeps waiting.
DeleteNote(c, n) ==
  /\ c \in clients /\ connRole[c] \in Staff /\ CheckInteract(connRole[c]) /\ Exists(n)
  /\ commit /\ place' = [place EXCEPT ![n] = OutOfRange]
  /\ since' = [since EXCEPT ![n] = Interval]
  /\ UNCHANGED <<role, lifecycle, conns, pending, history>>

Next ==
  \/ \E c \in Conns, n \in Notes, to \in Places \cup {OutOfRange} :
       Coalesce(c, n, to) \/ Hold(c, n, to) \/ MoveNow(c, n, to)
  \/ \E n \in Notes : TimerMove(n)
  \/ Tick
  \/ \E c \in Conns : Register(c) \/ Unregister(c)
  \/ \E c \in Conns, u \in Users, r \in Roles : SetRole(c, u, r)
  \/ \E u \in Users : LoginAsOrganizer(u)
  \/ \E c \in Conns, to \in {"active", "done"} : SetLifecycle(c, to)
  \/ \E c \in Conns, n \in Notes : DeleteNote(c, n)

Spec == Init /\ [][Next]_vars

\* Time passes, timers fire and the hub runs what they post.
Fairness == WF_vars(Tick) /\ \A n \in Notes : WF_vars(TimerMove(n))
FairSpec == Spec /\ Fairness

---------------------------------------------------------------------------
(* Properties *)

Waiting(k) == \E n \in Notes : pending[n] # NoMove /\ k \in pending[n].cmds

TypeOK ==
  /\ role \in [Users -> Roles] /\ lifecycle \in {"setup", "active", "done"}
  /\ place \in [Notes -> Places \cup {OutOfRange}] /\ seq \in Nat
  /\ clients \subseteq Conns /\ gone \subseteq Conns /\ connRole \in [Conns -> Roles]
  /\ since \in [Notes -> 0 .. Interval] /\ quiet \in [Notes -> 0 .. Interval]
  /\ pending \in [Notes -> PendingMove \cup {NoMove}]
  /\ received \in Seq([conn : Conns, note : Notes, to : Places \cup {OutOfRange}])
  /\ Len(received) <= MaxCmds
  /\ replies \in Seq(Seq(Reply)) /\ Len(replies) = Len(received)
  /\ moves \in Seq([note : Notes, conn : Conns, cmd : 1 .. MaxCmds, to : Places, seq : Nat])

\* Every move_note that was received has been answered once, or waits with
\* exactly one pending move and will be (SPEC 8.2: "every coalesced command").
AnsweredOnce ==
  \A k \in DOMAIN received :
    /\ Len(replies[k]) = IF Waiting(k) THEN 0 ELSE 1
    /\ \A n \in Notes : pending[n] # NoMove /\ k \in pending[n].cmds => received[k].note = n

\* An ack carries the seq of a move of the same note that was applied, to the
\* place which that command or a later one asked for (SPEC 8.2).
AcksNameTheMove ==
  \A k \in DOMAIN received : \A i \in DOMAIN replies[k] :
    replies[k][i].type = "ack" =>
      \E j \in DOMAIN moves :
        LET m == moves[j] IN
          /\ m.note = received[k].note /\ m.seq = replies[k][i].seq /\ m.cmd >= k
          /\ m.to = received[m.cmd].to /\ m.conn = received[m.cmd].conn

\* The replies of coalesced moves: one for each command, and a true one.
RepliesSound == AnsweredOnce /\ AcksNameTheMove

\* Moves of a note are applied in the order in which they came.
MovesInOrder ==
  \A i, j \in DOMAIN moves :
    i < j /\ moves[i].note = moves[j].note => moves[i].cmd < moves[j].cmd

\* A note that moves has not moved for a whole interval (at most 20 moves a
\* second, hub.go's moveInterval).
MovesSpaced == [][\A n \in Notes : quiet'[n] = 0 /\ Len(moves') > Len(moves)
                                     /\ moves'[Len(moves')].note = n => quiet[n] = Interval]_vars

\* No move is applied once the event is over, whenever its timer was started;
\* and during setup only for staff, while the mover is still connected.
MoverMayInteract ==
  [][Len(moves') > Len(moves) =>
       LET c == moves'[Len(moves')].conn IN
         /\ lifecycle # "done"
         /\ lifecycle = "setup" /\ c \in clients => role[UserOf[c]] \in Staff]_vars

---------------------------------------------------------------------------
(* The inductive invariant *)

\* What waits for a note is made of commands for it, the latest of which gives
\* the target, and came after every move of the note.
PendingSound ==
  \A n \in Notes : pending[n] # NoMove =>
    LET p == pending[n] IN
      /\ p.last \in p.cmds /\ p.last \in DOMAIN received
      /\ \A k \in p.cmds : k \in DOMAIN received /\ k <= p.last /\ received[k].note = n
      /\ received[p.last].to = p.to /\ received[p.last].conn = p.conn
      /\ \A j \in DOMAIN moves : moves[j].note = n => moves[j].cmd < p.last

\* A move is what its command asked for.
MovesSound ==
  \A j \in DOMAIN moves :
    LET m == moves[j] IN
      /\ m.cmd \in DOMAIN received
      /\ received[m.cmd] = [conn |-> m.conn, note |-> m.note, to |-> m.to]

\* lastMove is no older than the last move, and a timer fires no earlier than
\* an interval after it.
TimersSound ==
  \A n \in Notes : Exists(n) =>
    /\ since[n] <= quiet[n]
    /\ pending[n] # NoMove => quiet[n] + pending[n].due >= Interval

RolesFresh == \A c \in clients : connRole[c] = role[UserOf[c]]

IndInv ==
  /\ TypeOK /\ PendingSound /\ MovesSound /\ TimersSound /\ RolesFresh
  /\ AnsweredOnce /\ AcksNameTheMove /\ MovesInOrder

---------------------------------------------------------------------------
\* Every move that was received is answered, by a timer if need be.
EveryMoveAnswered ==
  \A k \in 1 .. MaxCmds :
    (k \in DOMAIN received) ~> (k \in DOMAIN replies /\ replies[k] # <<>>)
=============================================================================

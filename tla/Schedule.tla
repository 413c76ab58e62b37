-------------------------------- MODULE Schedule --------------------------------
(***************************************************************************)
(* Votes and the schedule: the commands of internal/server/schedule.go and *)
(* the note and voting commands of commands.go that they depend on, with   *)
(* the rules of internal/domain (lifecycle, wave states, slots, budgets),  *)
(* the calendar call that a lock starts, and the board each browser folds  *)
(* from the events (web/src/store/reducer.ts).                             *)
(*                                                                         *)
(* A command is one transaction on the hub's goroutine, hence one step; a  *)
(* refused one changes nothing.  Its events reach every browser in order   *)
(* (module Hub), so they are folded in the same step.  Tables are sets of  *)
(* records; an assignment carries its slot, which never changes, in place  *)
(* of the slot's id.  Times are counted in ticks, of which Millisecond are *)
(* one millisecond: the stored precision (domain.Timestamp).               *)
(***************************************************************************)
EXTENDS Integers, Sequences, FiniteSets, SequencesExt

CONSTANTS Users, Mods, Organizers,   \* everybody, moderators and up, organizers
          Nobody,
          Tabs,                      \* the users who have the board open
          Notes, WaveIds, SlotIds,   \* identifiers, free again once unused
          Times, Millisecond,
          MaxSlotLength, MaxTracks, MaxVotesPerUser

ASSUME ScheduleAssumption ==
  /\ Organizers \subseteq Mods /\ Mods \subseteq Users /\ Tabs \subseteq Users
  /\ Nobody \notin Users
  /\ Times \subseteq Nat /\ Millisecond \in Nat \ {0}
  /\ MaxSlotLength \in Nat /\ MaxSlotLength % Millisecond = 0
  /\ MaxTracks \in Nat \ {0} /\ MaxVotesPerUser \in Nat \ {0}

VARIABLES
  lifecycle, votingOpen, votesPerUser,   \* events
  author, votes,                         \* notes (Nobody: no such note), votes as <<note, user>>
  status, tracks,                        \* waves ("absent": no such wave)
  slots, assigned, linked,               \* slots, assignments, those with a meet_url
  booking,                               \* per wave, the assignments in a running calendar call
  tab                                    \* per open browser, its BoardState

settings == <<lifecycle, votingOpen, votesPerUser>>
noteVars == <<author, votes>>
waveVars == <<status, tracks>>
gridVars == <<slots, assigned, linked>>
vars     == <<settings, noteVars, waveVars, gridVars, booking, tab>>

Lifecycles   == <<"setup", "active", "done">>
waveOrder    == <<"planned", "open", "locked", "done">>
rank(order, x) == CHOOSE i \in 1 .. Len(order) : order[i] = x

Exists(n) == author[n] # Nobody
Closed(w) == status[w] \in {"locked", "done"}
WaveAssignments(w) == {x \in assigned : x.slot.wave = w}
Voters(n) == {u \in Users : <<n, u>> \in votes}

ScheduledInClosedWave(n) == \E x \in assigned : x.note = n /\ Closed(x.slot.wave)

\* The votes that count against a user's budget.
VotesCast(u) == Cardinality({n \in Notes : <<n, u>> \in votes /\ ~ScheduledInClosedWave(n)})

---------------------------------------------------------------------------
(* Slots *)

Timestamp(t) == (t \div Millisecond) * Millisecond
ParseSlot(start, end) == start < end /\ end - start <= MaxSlotLength
OverlapsStart(i, start, end) == i.start <= start /\ start < i.end               \* mutant
Overlaps(i, start, end) == i.start < end /\ start < i.end

---------------------------------------------------------------------------
(* The browser's board *)

\* What a snapshot contains.
Snapshot(t) ==
  [lifecycle |-> lifecycle, votingOpen |-> votingOpen, votesPerUser |-> votesPerUser,
   notes |-> {n \in Notes : Exists(n)}, votes |-> votes,
   status |-> status, tracks |-> tracks, slots |-> slots,
   assigned |-> assigned, linked |-> linked,
   scheduled |-> {x.note : x \in assigned},
   votesUsed |-> VotesCast(t)]

withAssignmentsClears(b, xs, ns) ==                \* mutant: not derived again
  [b EXCEPT !.assigned = xs,
            !.linked = @ \cap xs,
            !.scheduled = (@ \ ns) \cup {n \in ns \cap b.notes : \E x \in xs \ b.assigned : x.note = n}]

\* The flag of the given notes is derived again from the assignments left.
withAssignments(b, xs, ns) ==
  [b EXCEPT !.assigned = xs,
            !.linked = @ \cap xs,
            !.scheduled = (@ \ ns) \cup {n \in ns \cap b.notes : \E x \in xs : x.note = n}]

withoutAssignments(b, gone) ==
  withAssignments(b, b.assigned \ gone, {x.note : x \in gone})

noteDeleted(b, t, n) ==
  IF n \notin b.notes THEN b
  ELSE LET mine == IF <<n, t>> \in b.votes THEN 1 ELSE 0
       IN  [b EXCEPT !.notes = @ \ {n},
                     !.votes = {v \in @ : v[1] # n},
                     !.scheduled = @ \ {n},
                     !.assigned = {x \in @ : x.note # n},
                     !.linked = {x \in @ : x.note # n},
                     !.votesUsed = IF @ > mine THEN @ - mine ELSE 0]

voteChanged(b, t, n, by, cast) ==
  IF n \notin b.notes THEN b
  ELSE LET changed == by = t /\ cast # (<<n, t>> \in b.votes)
       IN  [b EXCEPT !.votes = IF cast THEN @ \cup {<<n, by>>} ELSE @ \ {<<n, by>>},
                     !.votesUsed = IF ~changed THEN @ ELSE IF cast THEN @ + 1 ELSE @ - 1]

applyEvent(b, t, e) ==
  CASE e.kind = "note_created"         -> [b EXCEPT !.notes = @ \cup {e.note}]
    [] e.kind = "note_deleted"         -> noteDeleted(b, t, e.note)
    [] e.kind = "vote_cast"            -> voteChanged(b, t, e.note, e.by, TRUE)
    [] e.kind = "vote_retracted"       -> voteChanged(b, t, e.note, e.by, FALSE)
    [] e.kind = "lifecycle_set"        -> [b EXCEPT !.lifecycle = e.to]
    [] e.kind = "voting_set"           -> [b EXCEPT !.votingOpen = e.open]
    [] e.kind = "votes_per_user_set"   -> [b EXCEPT !.votesPerUser = e.n]
    [] e.kind = "votes_used_set"       -> IF e.onlyUser = t THEN [b EXCEPT !.votesUsed = e.used] ELSE b
    [] e.kind \in {"wave_created", "wave_updated"} ->
         [b EXCEPT !.status[e.wave] = e.status, !.tracks[e.wave] = e.tracks]
    [] e.kind = "wave_status_set"      -> [b EXCEPT !.status[e.wave] = e.status]
    [] e.kind = "wave_deleted"         ->
         withoutAssignments([b EXCEPT !.status[e.wave] = "absent", !.tracks[e.wave] = 0,
                                      !.slots = {s \in @ : s.wave # e.wave}],
                            {x \in b.assigned : x.slot.wave = e.wave})
    [] e.kind = "slot_created"         -> [b EXCEPT !.slots = @ \cup {e.slot}]
    [] e.kind = "slot_deleted"         ->
         withoutAssignments([b EXCEPT !.slots = @ \ {e.slot}], {x \in b.assigned : x.slot = e.slot})
    [] e.kind = "note_assigned"        ->
         withAssignments(b, b.assigned \cup {e.assignment}, {e.assignment.note})
    [] e.kind = "note_unassigned"      -> withoutAssignments(b, {e.assignment} \cap b.assigned)
    [] e.kind = "assignment_links_set" -> [b EXCEPT !.linked = @ \cup (e.links \cap b.assigned)]

\* The events of one commit, in their order, in every open browser.
Publish(es) == tab' = [t \in Tabs |-> FoldLeft(LAMBDA b, e : applyEvent(b, t, e), tab[t], es)]

---------------------------------------------------------------------------
Init ==
  /\ lifecycle = "setup" /\ votingOpen = FALSE /\ votesPerUser \in 1 .. MaxVotesPerUser
  /\ author = [n \in Notes |-> Nobody] /\ votes = {}
  /\ status = [w \in WaveIds |-> "absent"] /\ tracks = [w \in WaveIds |-> 0]
  /\ slots = {} /\ assigned = {} /\ linked = {}
  /\ booking = [w \in WaveIds |-> {}]
  /\ tab = [t \in Tabs |-> Snapshot(t)]

---------------------------------------------------------------------------
(* Notes and votes (commands.go) *)

CheckInteract(a) == lifecycle # "done" /\ (lifecycle = "setup" => a \in Mods)

CreateNote(a, n) ==
  /\ CheckInteract(a) /\ ~Exists(n)
  /\ author' = [author EXCEPT ![n] = a]
  /\ UNCHANGED <<settings, votes, waveVars, gridVars, booking>>
  /\ Publish(<<[kind |-> "note_created", note |-> n]>>)

\* Votes and assignments of the note go with it (ON DELETE CASCADE).
DeleteNote(a, n) ==
  /\ Exists(n) /\ CheckInteract(a)
  /\ a \in Mods \/ (author[n] = a /\ Voters(n) = {} /\ \A x \in assigned : x.note # n)
  /\ author' = [author EXCEPT ![n] = Nobody]
  /\ votes' = {v \in votes : v[1] # n}
  /\ assigned' = {x \in assigned : x.note # n}
  /\ linked' = {x \in linked : x.note # n}
  /\ UNCHANGED <<settings, waveVars, slots, booking>>
  /\ Publish(<<[kind |-> "note_deleted", note |-> n]>>)

AuthorizeVote(a, n) == Exists(n) /\ CheckInteract(a) /\ votingOpen

\* What castVote and retractVote accept.
MayCastVote(a, n) ==
  /\ AuthorizeVote(a, n) /\ ~ScheduledInClosedWave(n)
  /\ <<n, a>> \notin votes /\ VotesCast(a) < votesPerUser

MayRetractVote(a, n) ==
  AuthorizeVote(a, n) /\ ~ScheduledInClosedWave(n) /\ <<n, a>> \in votes

CastVote(a, n) ==
  /\ MayCastVote(a, n)
  /\ votes' = votes \cup {<<n, a>>}
  /\ UNCHANGED <<settings, author, waveVars, gridVars, booking>>
  /\ Publish(<<[kind |-> "vote_cast", note |-> n, by |-> a]>>)

RetractVote(a, n) ==
  /\ MayRetractVote(a, n)
  /\ votes' = votes \ {<<n, a>>}
  /\ UNCHANGED <<settings, author, waveVars, gridVars, booking>>
  /\ Publish(<<[kind |-> "vote_retracted", note |-> n, by |-> a]>>)

AuthorizeVotingSettings(a) == a \in Organizers /\ lifecycle # "done"

SetVoting(a) ==
  /\ AuthorizeVotingSettings(a)
  /\ votingOpen' = ~votingOpen
  /\ UNCHANGED <<lifecycle, votesPerUser, noteVars, waveVars, gridVars, booking>>
  /\ Publish(<<[kind |-> "voting_set", open |-> ~votingOpen]>>)

SetVotesPerUser(a, n) ==
  /\ AuthorizeVotingSettings(a)
  /\ votesPerUser' = n
  /\ UNCHANGED <<lifecycle, votingOpen, noteVars, waveVars, gridVars, booking>>
  /\ Publish(<<[kind |-> "votes_per_user_set", n |-> n]>>)

SetLifecycle(a, next) ==
  /\ a \in Organizers /\ rank(Lifecycles, next) > rank(Lifecycles, lifecycle)
  /\ lifecycle' = next
  /\ UNCHANGED <<votingOpen, votesPerUser, noteVars, waveVars, gridVars, booking>>
  /\ Publish(<<[kind |-> "lifecycle_set", to |-> next]>>)

---------------------------------------------------------------------------
(* Waves, slots and assignments (schedule.go) *)

AuthorizeSchedule(a) == a \in Mods /\ lifecycle # "done"
requireWaveStatus(w, allowed) == status[w] \in allowed

waveEvent(kind, w, s, k) == <<[kind |-> kind, wave |-> w, status |-> s, tracks |-> k]>>

CreateWave(a, w, k) ==
  /\ AuthorizeSchedule(a) /\ status[w] = "absent"
  /\ status' = [status EXCEPT ![w] = "planned"]
  /\ tracks' = [tracks EXCEPT ![w] = k]
  /\ UNCHANGED <<settings, noteVars, gridVars, booking>>
  /\ Publish(waveEvent("wave_created", w, "planned", k))

\* A new number of tracks; a new name or opening time changes nothing here.
UpdateWave(a, w, k) ==
  /\ AuthorizeSchedule(a) /\ k # tracks[w]
  /\ requireWaveStatus(w, {"planned", "open"})
  /\ \A x \in WaveAssignments(w) : x.track <= k
  /\ tracks' = [tracks EXCEPT ![w] = k]
  /\ UNCHANGED <<settings, noteVars, status, gridVars, booking>>
  /\ Publish(waveEvent("wave_updated", w, status[w], k))

DeleteWave(a, w) ==
  /\ AuthorizeSchedule(a) /\ requireWaveStatus(w, {"planned"})
  /\ status' = [status EXCEPT ![w] = "absent"]
  /\ tracks' = [tracks EXCEPT ![w] = 0]
  /\ slots' = {s \in slots : s.wave # w}
  /\ assigned' = assigned \ WaveAssignments(w)
  /\ linked' = linked \ WaveAssignments(w)
  /\ UNCHANGED <<settings, noteVars, booking>>
  /\ Publish(<<[kind |-> "wave_deleted", wave |-> w]>>)

CheckWaveTransition(w, next) ==
  /\ rank(waveOrder, next) = rank(waveOrder, status[w]) + 1
  /\ next = "open" => \A o \in WaveIds \ {w} : status[o] # "open"

\* Every voter of the wave's sessions is told their new count.  It is taken
\* in the same transaction, after the wave was locked.
budgetUpdates(w) ==
  LET us == SetToSeq({u \in Users : \E x \in WaveAssignments(w) : u \in Voters(x.note)})
  IN  [i \in DOMAIN us |->
         [kind |-> "votes_used_set", onlyUser |-> us[i], used |-> VotesCast(us[i])']]

\* The calendar needs every session's time.
breakoutsOK(w) == \A x \in WaveAssignments(w) : ParseSlot(x.slot.start, x.slot.end)

\* On lock, the calendar call starts once the transaction has committed.
SetWaveStatus(a, w, next) ==
  /\ AuthorizeSchedule(a) /\ status[w] # "absent"
  /\ CheckWaveTransition(w, next)
  /\ status' = [status EXCEPT ![w] = next]
  /\ UNCHANGED <<settings, noteVars, tracks, gridVars>>
  /\ LET event == <<[kind |-> "wave_status_set", wave |-> w, status |-> next]>>
     IN  \/ next # "locked" /\ UNCHANGED booking /\ Publish(event)
         \/ /\ next = "locked" /\ breakoutsOK(w)
            /\ booking' = [booking EXCEPT ![w] = WaveAssignments(w)]
            /\ Publish(event \o budgetUpdates(w))

\* A stored slot too short to parse again overlaps nothing.
CreateSlot(a, w, id, start, end) ==
  /\ AuthorizeSchedule(a) /\ requireWaveStatus(w, {"planned", "open"})
  /\ \A s \in slots : s.id # id
  /\ ParseSlot(start, end)
  /\ \A s \in slots : s.wave = w /\ ParseSlot(s.start, s.end) => ~Overlaps(s, start, end)
  /\ LET slot == [id |-> id, wave |-> w, start |-> Timestamp(start), end |-> Timestamp(end)]
     IN  slots' = slots \cup {slot} /\ Publish(<<[kind |-> "slot_created", slot |-> slot]>>)
  /\ UNCHANGED <<settings, noteVars, waveVars, assigned, linked, booking>>

DeleteSlot(a, s) ==
  /\ AuthorizeSchedule(a) /\ requireWaveStatus(s.wave, {"planned", "open"})
  /\ \A x \in assigned : x.slot # s
  /\ slots' = slots \ {s}
  /\ UNCHANGED <<settings, noteVars, waveVars, assigned, linked, booking>>
  /\ Publish(<<[kind |-> "slot_deleted", slot |-> s]>>)

unassignedEvents(xs) ==
  LET q == SetToSeq(xs) IN [i \in DOMAIN q |-> [kind |-> "note_unassigned", assignment |-> q[i]]]

\* What assignNote accepts.
MayAssign(a, n, s, k) ==
  /\ AuthorizeSchedule(a) /\ Exists(n)
  /\ requireWaveStatus(s.wave, {"open"}) /\ k <= tracks[s.wave]
  /\ \A y \in assigned : ~(y.slot = s /\ y.track = k)

\* A note has one cell per wave: a new one replaces the old.
AssignNote(a, n, s, k) ==
  LET x   == [note |-> n, slot |-> s, track |-> k]
      old == {y \in WaveAssignments(s.wave) : y.note = n}
  IN  /\ MayAssign(a, n, s, k)
      /\ assigned' = (assigned \ old) \cup {x}
      /\ linked' = linked \ old
      /\ UNCHANGED <<settings, noteVars, waveVars, slots, booking>>
      /\ Publish(Append(unassignedEvents(old), [kind |-> "note_assigned", assignment |-> x]))

UnassignAnyNote(a, x) ==                                    \* mutant: any wave
  /\ AuthorizeSchedule(a)
  /\ assigned' = assigned \ {x}
  /\ linked' = linked \ {x}
  /\ UNCHANGED <<settings, noteVars, waveVars, slots, booking>>
  /\ Publish(unassignedEvents({x}))

UnassignNote(a, x) ==
  /\ AuthorizeSchedule(a) /\ requireWaveStatus(x.slot.wave, {"open"})
  /\ assigned' = assigned \ {x}
  /\ linked' = linked \ {x}
  /\ UNCHANGED <<settings, noteVars, waveVars, slots, booking>>
  /\ Publish(unassignedEvents({x}))

ClearAnyWave(a, w) ==                                       \* mutant: any wave
  /\ AuthorizeSchedule(a)
  /\ assigned' = assigned \ WaveAssignments(w)
  /\ linked' = linked \ WaveAssignments(w)
  /\ UNCHANGED <<settings, noteVars, waveVars, slots, booking>>
  /\ Publish(unassignedEvents(WaveAssignments(w)))

ClearWave(a, w) ==
  /\ AuthorizeSchedule(a) /\ requireWaveStatus(w, {"open"})
  /\ assigned' = assigned \ WaveAssignments(w)
  /\ linked' = linked \ WaveAssignments(w)
  /\ UNCHANGED <<settings, noteVars, waveVars, slots, booking>>
  /\ Publish(unassignedEvents(WaveAssignments(w)))

---------------------------------------------------------------------------
(* The calendar, and what else happens around the commands *)

\* The links come back as an operation of the hub, whatever happened to the
\* wave and its notes since.
LinksArrive(w) ==
  LET saved == booking[w] \cap assigned
  IN  /\ booking[w] # {} /\ booking' = [booking EXCEPT ![w] = {}]
      /\ linked' = linked \cup saved
      /\ Publish(IF saved = {} THEN <<>> ELSE <<[kind |-> "assignment_links_set", links |-> saved]>>)
      /\ UNCHANGED <<settings, noteVars, waveVars, slots, assigned>>

\* The call failed or timed out: it is logged, and not tried again.
CallFails(w) ==
  /\ booking[w] # {} /\ booking' = [booking EXCEPT ![w] = {}]
  /\ UNCHANGED <<settings, noteVars, waveVars, gridVars, tab>>

\* The calls die with the process.
Restart ==
  /\ booking' = [w \in WaveIds |-> {}]
  /\ UNCHANGED <<settings, noteVars, waveVars, gridVars, tab>>

\* A browser loads the page, or is caught up with a snapshot.
Reload(t) ==
  /\ tab' = [tab EXCEPT ![t] = Snapshot(t)]
  /\ UNCHANGED <<settings, noteVars, waveVars, gridVars, booking>>

---------------------------------------------------------------------------
NoteCommand(a) ==
  \/ \E n \in Notes : CreateNote(a, n) \/ DeleteNote(a, n) \/ CastVote(a, n) \/ RetractVote(a, n)
  \/ SetVoting(a)
  \/ \E n \in 1 .. MaxVotesPerUser : SetVotesPerUser(a, n)
  \/ \E next \in {"active", "done"} : SetLifecycle(a, next)

ScheduleCommand(a) ==
  \/ \E w \in WaveIds :
       \/ \E k \in 1 .. MaxTracks : CreateWave(a, w, k) \/ UpdateWave(a, w, k)
       \/ \E next \in {"open", "locked", "done"} : SetWaveStatus(a, w, next)
       \/ \E id \in SlotIds, start, end \in Times : CreateSlot(a, w, id, start, end)
       \/ DeleteWave(a, w) \/ ClearWave(a, w)
  \/ \E s \in slots :
       \/ DeleteSlot(a, s)
       \/ \E n \in Notes, k \in 1 .. MaxTracks : AssignNote(a, n, s, k)
  \/ \E x \in assigned : UnassignNote(a, x)

Next ==
  \/ \E a \in Users : NoteCommand(a) \/ ScheduleCommand(a)
  \/ \E w \in WaveIds : LinksArrive(w) \/ CallFails(w)
  \/ Restart
  \/ \E t \in Tabs : Reload(t)

Spec == Init /\ [][Next]_vars

---------------------------------------------------------------------------
(* Properties *)

Slot == [id : SlotIds, wave : WaveIds, start : Nat, end : Nat]
Assignment == [note : Notes, slot : Slot, track : 1 .. MaxTracks]

TypeOK ==
  /\ lifecycle \in {"setup", "active", "done"} /\ votingOpen \in BOOLEAN
  /\ votesPerUser \in 1 .. MaxVotesPerUser
  /\ author \in [Notes -> Users \cup {Nobody}] /\ votes \subseteq Notes \X Users
  /\ status \in [WaveIds -> {"absent", "planned", "open", "locked", "done"}]
  /\ tracks \in [WaveIds -> 0 .. MaxTracks]
  /\ slots \subseteq Slot /\ assigned \subseteq Assignment /\ linked \subseteq assigned
  /\ booking \in [WaveIds -> SUBSET Assignment]

\* "At most one wave may be open at a time": commands that open, lock and
\* delete waves in any order never break it (checked before each opening).
OneOpenWave == \A v, w \in WaveIds : status[v] = "open" /\ status[w] = "open" => v = w

\* The grid is consistent: an assignment's note and slot exist (foreign keys
\* with cascades), its track is one of the wave's, however tracks shrink and
\* slots and notes go; no cell holds two notes and no wave a note twice; a
\* wave not yet opened has none.
GridSound ==
  /\ \A x \in assigned : /\ Exists(x.note) /\ x.slot \in slots
                         /\ x.track <= tracks[x.slot.wave]
                         /\ status[x.slot.wave] \in {"open", "locked", "done"}
  /\ \A x, y \in assigned :
       x.slot.wave = y.slot.wave /\ (x.note = y.note \/ (x.slot = y.slot /\ x.track = y.track)) => x = y

\* The slots of a wave share no time, although they are compared at full
\* precision and stored in milliseconds.
SlotsDisjoint ==
  \A s, r \in slots : s # r /\ s.wave = r.wave /\ s.start < s.end /\ r.start < r.end
                        => s.end <= r.start \/ r.end <= s.start

\* A locked schedule is final: nothing moves in a closed wave any more, except
\* that a deleted note takes its session along.
ClosedWavesAreFinal ==
  [][\A w \in WaveIds : Closed(w) =>
       /\ Closed(w)' /\ (status[w] = "done" => status'[w] = "done")
       /\ tracks'[w] = tracks[w]
       /\ {s \in slots : s.wave = w} = {s \in slots' : s.wave = w}
       /\ WaveAssignments(w)' = {x \in WaveAssignments(w) : author'[x.note] # Nobody}]_vars

\* The votes for a session of a closed wave are history: they stay as they are
\* for as long as the note exists.
HistoryIsKept ==
  [][\A n \in Notes : ScheduledInClosedWave(n) /\ author'[n] # Nobody => Voters(n)' = Voters(n)]_vars

\* Nobody gets above their budget by what they or a scheduler do: the count
\* grows only by a vote cast within the limit, never because a refunded vote
\* counts again.
BudgetRespected ==
  [][\A u \in Users : VotesCast(u)' > VotesCast(u) => VotesCast(u)' <= votesPerUser]_vars

\* A meeting link belongs to a session of a closed wave, and nothing is asked
\* of the calendar for any other.
LinksAreFinal ==
  /\ \A x \in linked : Closed(x.slot.wave)
  /\ \A w \in WaveIds : \A x \in booking[w] : x.slot.wave = w /\ Closed(w)

\* The stored schedule is consistent, whatever was edited in which order: its
\* grid, the times of its slots, and its links.
ScheduleSound == GridSound /\ SlotsDisjoint /\ LinksAreFinal

\* "done: read-only archive for everyone": what the event has come to stays,
\* but for links that arrive late.
DoneIsFinal ==
  [][lifecycle = "done" => UNCHANGED <<settings, noteVars, waveVars, slots, assigned>>]_vars

\* Folding the events gives every browser what the server would send in a
\* snapshot, the user's own count of votes aside.
BoardMatches ==
  \A t \in Tabs : [tab[t] EXCEPT !.votesUsed = 0] = [Snapshot(t) EXCEPT !.votesUsed = 0]

\* "Whenever a user's votesUsed changes for a reason other than their own
\* vote, the server sends them" the new count: the browser's is the server's.
VotesUsedMatches == \A t \in Tabs : tab[t].votesUsed = VotesCast(t)
=============================================================================

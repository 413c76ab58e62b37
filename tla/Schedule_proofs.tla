---------------------------- MODULE Schedule_proofs ----------------------------
(***************************************************************************)
(* Proofs about votes and the schedule, for any users, notes, waves, slots *)
(* and limits.  The inductive invariant is the conjunction of type         *)
(* correctness, the consistency of the grid and what is known of links and *)
(* open waves; the action properties follow from it step by step.  That    *)
(* every open browser shows the tables (Seen) is inductive with it: the    *)
(* flags a browser derives are right only because assigned notes exist.    *)
(* With both, a browser's count of its user's votes never exceeds the      *)
(* server's (CountsNoMore), and its controls offer what the server allows. *)
(***************************************************************************)
EXTENDS Controls, FiniteSetTheorems, SequenceTheorems, TLAPS

Inv == TypeOK /\ OneOpenWave /\ GridSound /\ LinksAreFinal

---------------------------------------------------------------------------
(* Facts about single operators *)

\* The only transitions of a wave.
LEMMA WaveSteps ==
  ASSUME TypeOK, NEW w \in WaveIds, NEW next \in {"open", "locked", "done"},
         status[w] # "absent", CheckWaveTransition(w, next)
  PROVE  \/ status[w] = "planned" /\ next = "open"
         \/ status[w] = "open" /\ next = "locked"
         \/ status[w] = "locked" /\ next = "done"
<1> DEFINE r(x) == rank(waveOrder, x)
<1>1. Len(waveOrder) = 4 /\ waveOrder[1] = "planned" /\ waveOrder[2] = "open"
      /\ waveOrder[3] = "locked" /\ waveOrder[4] = "done"
  BY DEF waveOrder
<1>2. r("planned") = 1
  BY <1>1 DEF rank
<1>3. r("open") = 2
  BY <1>1 DEF rank
<1>4. r("locked") = 3
  BY <1>1 DEF rank
<1>5. r("done") = 4
  BY <1>1 DEF rank
<1>6. r(next) = r(status[w]) + 1
  BY DEF CheckWaveTransition
<1>7. status[w] \in {"planned", "open", "locked", "done"}
  BY DEF TypeOK
<1> QED BY <1>2, <1>3, <1>4, <1>5, <1>6, <1>7

\* Once done, the event's lifecycle stays.
LEMMA DoneHasNoNext ==
  ASSUME lifecycle = "done", NEW a, NEW next \in {"active", "done"}, SetLifecycle(a, next)
  PROVE  FALSE
<1>1. Len(Lifecycles) = 3 /\ Lifecycles[1] = "setup" /\ Lifecycles[2] = "active"
      /\ Lifecycles[3] = "done"
  BY DEF Lifecycles
<1>2. rank(Lifecycles, "active") = 2
  BY <1>1 DEF rank
<1>3. rank(Lifecycles, "done") = 3
  BY <1>1 DEF rank
<1> QED BY <1>2, <1>3 DEF SetLifecycle

\* Cutting a time to milliseconds.
LEMMA TimestampIsNat == ASSUME NEW t \in Times PROVE Timestamp(t) \in Nat
<1>1. t \in Nat /\ Millisecond \in Nat /\ Millisecond > 0
  BY ScheduleAssumption
<1>2. t \div Millisecond \in Nat
  BY <1>1
<1> QED BY <1>1, <1>2 DEF Timestamp

---------------------------------------------------------------------------
(* The inductive invariant *)

\* Nothing is scheduled at first.
LEMMA InvInit == Init => Inv
<1> SUFFICES ASSUME Init PROVE Inv
  OBVIOUS
<1> USE DEF Init
<1>1. TypeOK
  <2>1. tracks \in [WaveIds -> 0 .. MaxTracks]
    BY ScheduleAssumption
  <2>2. author \in [Notes -> Users \cup {Nobody}] /\ votes \subseteq Notes \X Users
    OBVIOUS
  <2>3. status \in [WaveIds -> {"absent", "planned", "open", "locked", "done"}]
    OBVIOUS
  <2>4. booking \in [WaveIds -> SUBSET Assignment]
    OBVIOUS
  <2> QED BY <2>1, <2>2, <2>3, <2>4 DEF TypeOK
<1>2. OneOpenWave
  BY DEF OneOpenWave
<1>3. GridSound /\ LinksAreFinal
  BY DEF GridSound, LinksAreFinal
<1> QED BY <1>1, <1>2, <1>3 DEF Inv

\* Commands about notes, votes and settings.
LEMMA InvNotes ==
  ASSUME Inv, NEW a \in Users, NoteCommand(a)
  PROVE  Inv'
<1> USE DEF Inv, TypeOK, OneOpenWave, GridSound, LinksAreFinal, Closed, Exists
<1>1. ASSUME NEW n \in Notes, CreateNote(a, n) PROVE Inv'
  BY <1>1, ScheduleAssumption DEF CreateNote, settings, waveVars, gridVars
<1>2. ASSUME NEW n \in Notes, DeleteNote(a, n) PROVE Inv'
  BY <1>2, ScheduleAssumption DEF DeleteNote, settings, waveVars
<1>3. ASSUME NEW n \in Notes, CastVote(a, n) PROVE Inv'
  BY <1>3 DEF CastVote, settings, waveVars, gridVars
<1>4. ASSUME NEW n \in Notes, RetractVote(a, n) PROVE Inv'
  BY <1>4 DEF RetractVote, settings, waveVars, gridVars
<1>5. ASSUME SetVoting(a) PROVE Inv'
  BY <1>5 DEF SetVoting, noteVars, waveVars, gridVars
<1>6. ASSUME NEW n \in 1 .. MaxVotesPerUser, SetVotesPerUser(a, n) PROVE Inv'
  BY <1>6 DEF SetVotesPerUser, noteVars, waveVars, gridVars
<1>7. ASSUME NEW next \in {"active", "done"}, SetLifecycle(a, next) PROVE Inv'
  BY <1>7 DEF SetLifecycle, noteVars, waveVars, gridVars
<1> QED BY <1>1, <1>2, <1>3, <1>4, <1>5, <1>6, <1>7 DEF NoteCommand

\* Commands about waves.
LEMMA InvWaves ==
  ASSUME Inv, NEW a \in Users, NEW w \in WaveIds,
         \/ \E k \in 1 .. MaxTracks : CreateWave(a, w, k) \/ UpdateWave(a, w, k)
         \/ \E next \in {"open", "locked", "done"} : SetWaveStatus(a, w, next)
         \/ DeleteWave(a, w) \/ ClearWave(a, w)
  PROVE  Inv'
<1> USE DEF Inv, TypeOK, OneOpenWave, GridSound, LinksAreFinal, Closed, Exists
<1>1. ASSUME NEW k \in 1 .. MaxTracks, CreateWave(a, w, k) PROVE Inv'
  BY <1>1, ScheduleAssumption DEF CreateWave, settings, noteVars, gridVars
<1>2. ASSUME NEW k \in 1 .. MaxTracks, UpdateWave(a, w, k) PROVE Inv'
  BY <1>2, ScheduleAssumption DEF UpdateWave, settings, noteVars, gridVars, WaveAssignments
<1>3. ASSUME NEW next \in {"open", "locked", "done"}, SetWaveStatus(a, w, next) PROVE Inv'
  <2>1. \/ status[w] = "planned" /\ next = "open"
        \/ status[w] = "open" /\ next = "locked"
        \/ status[w] = "locked" /\ next = "done"
    BY <1>3, WaveSteps DEF SetWaveStatus
  <2>2. /\ status' = [status EXCEPT ![w] = next]
        /\ UNCHANGED <<settings, noteVars, tracks, gridVars>>
        /\ booking' \in {booking, [booking EXCEPT ![w] = WaveAssignments(w)]}
        /\ next = "open" => \A o \in WaveIds \ {w} : status[o] # "open"
        /\ next # "locked" => booking' = booking
    BY <1>3 DEF SetWaveStatus, CheckWaveTransition
  <2> USE <2>2 DEF settings, noteVars, gridVars
  <2>3. WaveAssignments(w) \in SUBSET Assignment
    BY DEF WaveAssignments
  <2>4. TypeOK'
    BY <2>3
  <2>5. OneOpenWave'
    BY <2>1
  <2>6. GridSound'
    BY <2>1
  <2>7. LinksAreFinal'
    BY <2>1 DEF WaveAssignments
  <2> QED BY <2>4, <2>5, <2>6, <2>7
<1>4. ASSUME DeleteWave(a, w) PROVE Inv'
  <2>1. WaveAssignments(w) = {} /\ status[w] = "planned"
    BY <1>4 DEF WaveAssignments, DeleteWave, requireWaveStatus
  <2> QED BY <1>4, <2>1, ScheduleAssumption DEF DeleteWave, settings, noteVars, WaveAssignments
<1>5. ASSUME ClearWave(a, w) PROVE Inv'
  BY <1>5 DEF ClearWave, settings, noteVars, waveVars
<1> QED BY <1>1, <1>2, <1>3, <1>4, <1>5

\* Commands about slots.
LEMMA InvSlots ==
  ASSUME Inv, NEW a \in Users,
         \/ \E w \in WaveIds, id \in SlotIds, start, end \in Times : CreateSlot(a, w, id, start, end)
         \/ \E s \in slots : DeleteSlot(a, s)
  PROVE  Inv'
<1> USE DEF Inv, TypeOK, OneOpenWave, GridSound, LinksAreFinal, Closed, Exists
<1>1. ASSUME NEW w \in WaveIds, NEW id \in SlotIds, NEW start \in Times, NEW end \in Times,
             CreateSlot(a, w, id, start, end)
      PROVE  Inv'
  <2>1. [id |-> id, wave |-> w, start |-> Timestamp(start), end |-> Timestamp(end)] \in Slot
    BY TimestampIsNat DEF Slot
  <2> QED BY <1>1, <2>1 DEF CreateSlot, settings, noteVars, waveVars
<1>2. ASSUME NEW s \in slots, DeleteSlot(a, s) PROVE Inv'
  BY <1>2 DEF DeleteSlot, settings, noteVars, waveVars
<1> QED BY <1>1, <1>2

\* Commands about single assignments.
LEMMA InvAssignments ==
  ASSUME Inv, NEW a \in Users,
         \/ \E s \in slots, n \in Notes, k \in 1 .. MaxTracks : AssignNote(a, n, s, k)
         \/ \E x \in assigned : UnassignNote(a, x)
  PROVE  Inv'
<1> USE DEF Inv, TypeOK, OneOpenWave, GridSound, LinksAreFinal, Closed, Exists
<1>1. ASSUME NEW s \in slots, NEW n \in Notes, NEW k \in 1 .. MaxTracks, AssignNote(a, n, s, k)
      PROVE  Inv'
  <2> DEFINE x == [note |-> n, slot |-> s, track |-> k]
             old == {y \in WaveAssignments(s.wave) : y.note = n}
  <2>1. /\ assigned' = (assigned \ old) \cup {x} /\ linked' = linked \ old
        /\ status[s.wave] = "open" /\ k <= tracks[s.wave] /\ author[n] # Nobody
        /\ \A y \in assigned : ~(y.slot = s /\ y.track = k)
        /\ UNCHANGED <<settings, noteVars, waveVars, slots, booking>>
    BY <1>1 DEF AssignNote, MayAssign, requireWaveStatus
  <2>2. x \in Assignment /\ x.note = n /\ x.slot = s /\ x.track = k /\ s.wave \in WaveIds
    BY DEF Assignment, Slot
  <2>3. \A y \in assigned : y \in old <=> y.slot.wave = s.wave /\ y.note = n
    BY DEF WaveAssignments
  <2> HIDE DEF x, old
  <2> USE <2>1, <2>2, <2>3 DEF settings, noteVars, waveVars
  <2>4. TypeOK'
    OBVIOUS
  <2>5. OneOpenWave' /\ LinksAreFinal'
    OBVIOUS
  <2>6. GridSound'
    OBVIOUS
  <2> QED BY <2>4, <2>5, <2>6
<1>2. ASSUME NEW x \in assigned, UnassignNote(a, x) PROVE Inv'
  BY <1>2 DEF UnassignNote, settings, noteVars, waveVars
<1> QED BY <1>1, <1>2

\* The calendar, restarts and reloads.
LEMMA InvOthers ==
  ASSUME Inv,
         \/ \E w \in WaveIds : LinksArrive(w) \/ CallFails(w)
         \/ Restart
         \/ \E t \in Tabs : Reload(t)
         \/ UNCHANGED vars
  PROVE  Inv'
<1> USE DEF Inv, TypeOK, OneOpenWave, GridSound, LinksAreFinal, Closed, Exists
<1>1. ASSUME NEW w \in WaveIds, LinksArrive(w) PROVE Inv'
  BY <1>1 DEF LinksArrive, settings, noteVars, waveVars
<1>2. ASSUME NEW w \in WaveIds, CallFails(w) PROVE Inv'
  BY <1>2 DEF CallFails, settings, noteVars, waveVars, gridVars
<1>3. CASE Restart
  BY <1>3 DEF Restart, settings, noteVars, waveVars, gridVars
<1>4. ASSUME NEW t \in Tabs, Reload(t) PROVE Inv'
  BY <1>4 DEF Reload, settings, noteVars, waveVars, gridVars
<1>5. CASE UNCHANGED vars
  BY <1>5 DEF vars, settings, noteVars, waveVars, gridVars
<1> QED BY <1>1, <1>2, <1>3, <1>4, <1>5

\* Every step keeps the invariant.
LEMMA InvStep == Inv /\ [Next]_vars => Inv'
  BY InvNotes, InvWaves, InvSlots, InvAssignments, InvOthers DEF Next, ScheduleCommand

THEOREM AlwaysInv == Spec => []Inv
  BY InvInit, InvStep, PTL DEF Spec

\* Every table has rows of the right type, and links belong to assignments.
THEOREM TypeCorrect == Spec => []TypeOK
  BY AlwaysInv, PTL DEF Inv

\* At most one wave is open.
THEOREM AtMostOneOpen == Spec => []OneOpenWave
  BY AlwaysInv, PTL DEF Inv

\* Every assignment has its note, its slot and its track, no cell holds two
\* notes and no wave a note twice.
THEOREM GridAlwaysSound == Spec => []GridSound
  BY AlwaysInv, PTL DEF Inv

\* Links and calendar calls are only for closed waves.
THEOREM LinksAlwaysFinal == Spec => []LinksAreFinal
  BY AlwaysInv, PTL DEF Inv

---------------------------------------------------------------------------
(* What a step may not do *)

Final(w) ==
  /\ Closed(w)' /\ (status[w] = "done" => status'[w] = "done")
  /\ tracks'[w] = tracks[w]
  /\ {s \in slots : s.wave = w} = {s \in slots' : s.wave = w}
  /\ WaveAssignments(w)' = {x \in WaveAssignments(w) : author'[x.note] # Nobody}

\* Every command on a wave, its slots or its cells requires an earlier status.
LEMMA FinalStep ==
  ASSUME Inv, [Next]_vars, NEW w \in WaveIds, Closed(w)
  PROVE  Final(w)
<1> USE DEF Inv, TypeOK, GridSound, Closed, Exists, WaveAssignments, Final, requireWaveStatus
<1>1. ASSUME NEW a \in Users, NEW n \in Notes, CreateNote(a, n) PROVE Final(w)
  BY <1>1 DEF CreateNote, settings, waveVars, gridVars
<1>2. ASSUME NEW a \in Users, NEW n \in Notes, DeleteNote(a, n) PROVE Final(w)
  BY <1>2 DEF DeleteNote, settings, waveVars
<1>3. ASSUME NEW a \in Users, NEW n \in Notes, CastVote(a, n) PROVE Final(w)
  BY <1>3 DEF CastVote, settings, waveVars, gridVars
<1>4. ASSUME NEW a \in Users, NEW n \in Notes, RetractVote(a, n) PROVE Final(w)
  BY <1>4 DEF RetractVote, settings, waveVars, gridVars
<1>5. ASSUME NEW a \in Users, SetVoting(a) PROVE Final(w)
  BY <1>5 DEF SetVoting, noteVars, waveVars, gridVars
<1>6. ASSUME NEW a \in Users, NEW n \in 1 .. MaxVotesPerUser, SetVotesPerUser(a, n) PROVE Final(w)
  BY <1>6 DEF SetVotesPerUser, noteVars, waveVars, gridVars
<1>7. ASSUME NEW a \in Users, NEW next \in {"active", "done"}, SetLifecycle(a, next) PROVE Final(w)
  BY <1>7 DEF SetLifecycle, noteVars, waveVars, gridVars
<1>8. ASSUME NEW a \in Users, NEW v \in WaveIds, NEW k \in 1 .. MaxTracks, CreateWave(a, v, k) PROVE Final(w)
  BY <1>8 DEF CreateWave, settings, noteVars, gridVars
<1>9. ASSUME NEW a \in Users, NEW v \in WaveIds, NEW k \in 1 .. MaxTracks, UpdateWave(a, v, k) PROVE Final(w)
  BY <1>9 DEF UpdateWave, settings, noteVars, gridVars
<1>10. ASSUME NEW a \in Users, NEW v \in WaveIds, NEW next \in {"open", "locked", "done"}, SetWaveStatus(a, v, next) PROVE Final(w)
  <2>1. \/ status[v] = "planned" /\ next = "open"
        \/ status[v] = "open" /\ next = "locked"
        \/ status[v] = "locked" /\ next = "done"
    BY <1>10, WaveSteps DEF SetWaveStatus
  <2> QED BY <1>10, <2>1 DEF SetWaveStatus, settings, noteVars, gridVars
<1>11. ASSUME NEW a \in Users, NEW v \in WaveIds, NEW id \in SlotIds, NEW start \in Times, NEW end \in Times,
             CreateSlot(a, v, id, start, end)
      PROVE  Final(w)
  BY <1>11 DEF CreateSlot, settings, noteVars, waveVars
<1>12. ASSUME NEW a \in Users, NEW v \in WaveIds, DeleteWave(a, v) PROVE Final(w)
  BY <1>12 DEF DeleteWave, settings, noteVars
<1>13. ASSUME NEW a \in Users, NEW v \in WaveIds, ClearWave(a, v) PROVE Final(w)
  BY <1>13 DEF ClearWave, settings, noteVars, waveVars
<1>14. ASSUME NEW a \in Users, NEW s \in slots, DeleteSlot(a, s) PROVE Final(w)
  BY <1>14 DEF DeleteSlot, settings, noteVars, waveVars
<1>15. ASSUME NEW a \in Users, NEW s \in slots, NEW n \in Notes, NEW k \in 1 .. MaxTracks, AssignNote(a, n, s, k) PROVE Final(w)
  BY <1>15 DEF AssignNote, MayAssign, settings, noteVars, waveVars
<1>16. ASSUME NEW a \in Users, NEW x \in assigned, UnassignNote(a, x) PROVE Final(w)
  BY <1>16 DEF UnassignNote, settings, noteVars, waveVars
<1>17. ASSUME NEW v \in WaveIds, LinksArrive(v) PROVE Final(w)
  BY <1>17 DEF LinksArrive, settings, noteVars, waveVars
<1>18. ASSUME NEW v \in WaveIds, CallFails(v) PROVE Final(w)
  BY <1>18 DEF CallFails, settings, noteVars, waveVars, gridVars
<1>19. ASSUME Restart PROVE Final(w)
  BY <1>19 DEF Restart, settings, noteVars, waveVars, gridVars
<1>20. ASSUME NEW t \in Tabs, Reload(t) PROVE Final(w)
  BY <1>20 DEF Reload, settings, noteVars, waveVars, gridVars
<1>21. ASSUME UNCHANGED vars PROVE Final(w)
  BY <1>21 DEF vars, settings, noteVars, waveVars, gridVars
<1> QED
  BY <1>1, <1>2, <1>3, <1>4, <1>5, <1>6, <1>7, <1>8, <1>9, <1>10, <1>11,
     <1>12, <1>13, <1>14, <1>15, <1>16, <1>17, <1>18, <1>19, <1>20, <1>21 DEF Next, NoteCommand, ScheduleCommand

\* A locked schedule is final, for any waves, slots and tracks.
THEOREM ClosedStayFinal == Spec => ClosedWavesAreFinal
<1>1. Inv /\ [Next]_vars => \A w \in WaveIds : Closed(w) => Final(w)
  BY FinalStep
<1> QED BY <1>1, AlwaysInv, PTL DEF Spec, ClosedWavesAreFinal, Final

\* A vote is cast by its voter, and keeps its note.
LEMMA VoteStep ==
  ASSUME Inv, [Next]_vars, NEW m \in Notes, NEW u \in Users, <<m, u>> \in votes'
  PROVE  /\ <<m, u>> \in votes \/ CastVote(u, m)
         /\ Exists(m) => author'[m] # Nobody
<1> DEFINE Kept == (<<m, u>> \in votes \/ CastVote(u, m)) /\ (Exists(m) => author'[m] # Nobody)
<1> USE ScheduleAssumption DEF Inv, TypeOK, Exists
<1>1. ASSUME NEW a \in Users, NEW n \in Notes, CreateNote(a, n) PROVE Kept
  BY <1>1 DEF CreateNote, settings, waveVars, gridVars
<1>2. ASSUME NEW a \in Users, NEW n \in Notes, DeleteNote(a, n) PROVE Kept
  BY <1>2 DEF DeleteNote, settings, waveVars
<1>3. ASSUME NEW a \in Users, NEW n \in Notes, CastVote(a, n) PROVE Kept
  BY <1>3 DEF CastVote, settings, waveVars, gridVars
<1>4. ASSUME NEW a \in Users, NEW n \in Notes, RetractVote(a, n) PROVE Kept
  BY <1>4 DEF RetractVote, settings, waveVars, gridVars
<1>5. ASSUME NEW a \in Users, SetVoting(a) PROVE Kept
  BY <1>5 DEF SetVoting, noteVars, waveVars, gridVars
<1>6. ASSUME NEW a \in Users, NEW n \in 1 .. MaxVotesPerUser, SetVotesPerUser(a, n) PROVE Kept
  BY <1>6 DEF SetVotesPerUser, noteVars, waveVars, gridVars
<1>7. ASSUME NEW a \in Users, NEW next \in {"active", "done"}, SetLifecycle(a, next) PROVE Kept
  BY <1>7 DEF SetLifecycle, noteVars, waveVars, gridVars
<1>8. ASSUME NEW a \in Users, NEW v \in WaveIds, NEW k \in 1 .. MaxTracks, CreateWave(a, v, k) PROVE Kept
  BY <1>8 DEF CreateWave, settings, noteVars, gridVars
<1>9. ASSUME NEW a \in Users, NEW v \in WaveIds, NEW k \in 1 .. MaxTracks, UpdateWave(a, v, k) PROVE Kept
  BY <1>9 DEF UpdateWave, settings, noteVars, gridVars
<1>10. ASSUME NEW a \in Users, NEW v \in WaveIds, NEW next \in {"open", "locked", "done"}, SetWaveStatus(a, v, next) PROVE Kept
  BY <1>10 DEF SetWaveStatus, settings, noteVars, gridVars
<1>11. ASSUME NEW a \in Users, NEW v \in WaveIds, NEW id \in SlotIds, NEW start \in Times, NEW end \in Times,
             CreateSlot(a, v, id, start, end)
      PROVE  Kept
  BY <1>11 DEF CreateSlot, settings, noteVars, waveVars
<1>12. ASSUME NEW a \in Users, NEW v \in WaveIds, DeleteWave(a, v) PROVE Kept
  BY <1>12 DEF DeleteWave, settings, noteVars
<1>13. ASSUME NEW a \in Users, NEW v \in WaveIds, ClearWave(a, v) PROVE Kept
  BY <1>13 DEF ClearWave, settings, noteVars, waveVars
<1>14. ASSUME NEW a \in Users, NEW s \in slots, DeleteSlot(a, s) PROVE Kept
  BY <1>14 DEF DeleteSlot, settings, noteVars, waveVars
<1>15. ASSUME NEW a \in Users, NEW s \in slots, NEW n \in Notes, NEW k \in 1 .. MaxTracks, AssignNote(a, n, s, k) PROVE Kept
  BY <1>15 DEF AssignNote, settings, noteVars, waveVars
<1>16. ASSUME NEW a \in Users, NEW x \in assigned, UnassignNote(a, x) PROVE Kept
  BY <1>16 DEF UnassignNote, settings, noteVars, waveVars
<1>17. ASSUME NEW v \in WaveIds, LinksArrive(v) PROVE Kept
  BY <1>17 DEF LinksArrive, settings, noteVars, waveVars
<1>18. ASSUME NEW v \in WaveIds, CallFails(v) PROVE Kept
  BY <1>18 DEF CallFails, settings, noteVars, waveVars, gridVars
<1>19. ASSUME Restart PROVE Kept
  BY <1>19 DEF Restart, settings, noteVars, waveVars, gridVars
<1>20. ASSUME NEW t \in Tabs, Reload(t) PROVE Kept
  BY <1>20 DEF Reload, settings, noteVars, waveVars, gridVars
<1>21. ASSUME UNCHANGED vars PROVE Kept
  BY <1>21 DEF vars, settings, noteVars, waveVars, gridVars
<1> QED
  BY <1>1, <1>2, <1>3, <1>4, <1>5, <1>6, <1>7, <1>8, <1>9, <1>10, <1>11,
     <1>12, <1>13, <1>14, <1>15, <1>16, <1>17, <1>18, <1>19, <1>20, <1>21 DEF Next, NoteCommand, ScheduleCommand

\* The votes for a session of a closed wave are history, for any number of
\* waves, notes and users.
LEMMA HistoryStep ==
  ASSUME Inv, [Next]_vars, NEW m \in Notes, ScheduledInClosedWave(m), author'[m] # Nobody
  PROVE  Voters(m)' = Voters(m)
<1> DEFINE Kept == Voters(m)' = Voters(m)
<1> USE DEF Inv, TypeOK, Exists, Voters
<1>1. ASSUME NEW a \in Users, NEW n \in Notes, CreateNote(a, n) PROVE Kept
  BY <1>1 DEF CreateNote, settings, waveVars, gridVars
<1>2. ASSUME NEW a \in Users, NEW n \in Notes, DeleteNote(a, n) PROVE Kept
  BY <1>2 DEF DeleteNote, settings, waveVars
<1>3. ASSUME NEW a \in Users, NEW n \in Notes, CastVote(a, n) PROVE Kept
  BY <1>3 DEF CastVote, MayCastVote, settings, waveVars, gridVars
<1>4. ASSUME NEW a \in Users, NEW n \in Notes, RetractVote(a, n) PROVE Kept
  BY <1>4 DEF RetractVote, MayRetractVote, settings, waveVars, gridVars
<1>5. ASSUME NEW a \in Users, SetVoting(a) PROVE Kept
  BY <1>5 DEF SetVoting, noteVars, waveVars, gridVars
<1>6. ASSUME NEW a \in Users, NEW n \in 1 .. MaxVotesPerUser, SetVotesPerUser(a, n) PROVE Kept
  BY <1>6 DEF SetVotesPerUser, noteVars, waveVars, gridVars
<1>7. ASSUME NEW a \in Users, NEW next \in {"active", "done"}, SetLifecycle(a, next) PROVE Kept
  BY <1>7 DEF SetLifecycle, noteVars, waveVars, gridVars
<1>8. ASSUME NEW a \in Users, NEW v \in WaveIds, NEW k \in 1 .. MaxTracks, CreateWave(a, v, k) PROVE Kept
  BY <1>8 DEF CreateWave, settings, noteVars, gridVars
<1>9. ASSUME NEW a \in Users, NEW v \in WaveIds, NEW k \in 1 .. MaxTracks, UpdateWave(a, v, k) PROVE Kept
  BY <1>9 DEF UpdateWave, settings, noteVars, gridVars
<1>10. ASSUME NEW a \in Users, NEW v \in WaveIds, NEW next \in {"open", "locked", "done"}, SetWaveStatus(a, v, next) PROVE Kept
  BY <1>10 DEF SetWaveStatus, settings, noteVars, gridVars
<1>11. ASSUME NEW a \in Users, NEW v \in WaveIds, NEW id \in SlotIds, NEW start \in Times, NEW end \in Times,
             CreateSlot(a, v, id, start, end)
      PROVE  Kept
  BY <1>11 DEF CreateSlot, settings, noteVars, waveVars
<1>12. ASSUME NEW a \in Users, NEW v \in WaveIds, DeleteWave(a, v) PROVE Kept
  BY <1>12 DEF DeleteWave, settings, noteVars
<1>13. ASSUME NEW a \in Users, NEW v \in WaveIds, ClearWave(a, v) PROVE Kept
  BY <1>13 DEF ClearWave, settings, noteVars, waveVars
<1>14. ASSUME NEW a \in Users, NEW s \in slots, DeleteSlot(a, s) PROVE Kept
  BY <1>14 DEF DeleteSlot, settings, noteVars, waveVars
<1>15. ASSUME NEW a \in Users, NEW s \in slots, NEW n \in Notes, NEW k \in 1 .. MaxTracks, AssignNote(a, n, s, k) PROVE Kept
  BY <1>15 DEF AssignNote, settings, noteVars, waveVars
<1>16. ASSUME NEW a \in Users, NEW x \in assigned, UnassignNote(a, x) PROVE Kept
  BY <1>16 DEF UnassignNote, settings, noteVars, waveVars
<1>17. ASSUME NEW v \in WaveIds, LinksArrive(v) PROVE Kept
  BY <1>17 DEF LinksArrive, settings, noteVars, waveVars
<1>18. ASSUME NEW v \in WaveIds, CallFails(v) PROVE Kept
  BY <1>18 DEF CallFails, settings, noteVars, waveVars, gridVars
<1>19. ASSUME Restart PROVE Kept
  BY <1>19 DEF Restart, settings, noteVars, waveVars, gridVars
<1>20. ASSUME NEW t \in Tabs, Reload(t) PROVE Kept
  BY <1>20 DEF Reload, settings, noteVars, waveVars, gridVars
<1>21. ASSUME UNCHANGED vars PROVE Kept
  BY <1>21 DEF vars, settings, noteVars, waveVars, gridVars
<1> QED
  BY <1>1, <1>2, <1>3, <1>4, <1>5, <1>6, <1>7, <1>8, <1>9, <1>10, <1>11,
     <1>12, <1>13, <1>14, <1>15, <1>16, <1>17, <1>18, <1>19, <1>20, <1>21 DEF Next, NoteCommand, ScheduleCommand

THEOREM HistoryStays == Spec => HistoryIsKept
<1>1. Inv /\ [Next]_vars =>
        \A n \in Notes : ScheduledInClosedWave(n) /\ author'[n] # Nobody => Voters(n)' = Voters(n)
  BY HistoryStep
<1> QED BY <1>1, AlwaysInv, PTL DEF Spec, HistoryIsKept

\* After the end of the event, no step changes what it has come to.
LEMMA DoneStep ==
  ASSUME lifecycle = "done", [Next]_vars
  PROVE  UNCHANGED <<settings, noteVars, waveVars, slots, assigned>>
<1> DEFINE Kept == UNCHANGED <<settings, noteVars, waveVars, slots, assigned>>
<1> USE DEF CheckInteract, AuthorizeVote, AuthorizeVotingSettings, AuthorizeSchedule
<1>1. ASSUME NEW a \in Users, NEW n \in Notes, CreateNote(a, n) PROVE Kept
  BY <1>1 DEF CreateNote, settings, waveVars, gridVars
<1>2. ASSUME NEW a \in Users, NEW n \in Notes, DeleteNote(a, n) PROVE Kept
  BY <1>2 DEF DeleteNote, settings, waveVars
<1>3. ASSUME NEW a \in Users, NEW n \in Notes, CastVote(a, n) PROVE Kept
  BY <1>3 DEF CastVote, MayCastVote, settings, waveVars, gridVars
<1>4. ASSUME NEW a \in Users, NEW n \in Notes, RetractVote(a, n) PROVE Kept
  BY <1>4 DEF RetractVote, MayRetractVote, settings, waveVars, gridVars
<1>5. ASSUME NEW a \in Users, SetVoting(a) PROVE Kept
  BY <1>5 DEF SetVoting, noteVars, waveVars, gridVars
<1>6. ASSUME NEW a \in Users, NEW n \in 1 .. MaxVotesPerUser, SetVotesPerUser(a, n) PROVE Kept
  BY <1>6 DEF SetVotesPerUser, noteVars, waveVars, gridVars
<1>7. ASSUME NEW a \in Users, NEW next \in {"active", "done"}, SetLifecycle(a, next) PROVE Kept
  BY <1>7, DoneHasNoNext DEF SetLifecycle, noteVars, waveVars, gridVars
<1>8. ASSUME NEW a \in Users, NEW v \in WaveIds, NEW k \in 1 .. MaxTracks, CreateWave(a, v, k) PROVE Kept
  BY <1>8 DEF CreateWave, settings, noteVars, gridVars
<1>9. ASSUME NEW a \in Users, NEW v \in WaveIds, NEW k \in 1 .. MaxTracks, UpdateWave(a, v, k) PROVE Kept
  BY <1>9 DEF UpdateWave, settings, noteVars, gridVars
<1>10. ASSUME NEW a \in Users, NEW v \in WaveIds, NEW next \in {"open", "locked", "done"}, SetWaveStatus(a, v, next) PROVE Kept
  BY <1>10 DEF SetWaveStatus, settings, noteVars, gridVars
<1>11. ASSUME NEW a \in Users, NEW v \in WaveIds, NEW id \in SlotIds, NEW start \in Times, NEW end \in Times,
             CreateSlot(a, v, id, start, end)
      PROVE  Kept
  BY <1>11 DEF CreateSlot, settings, noteVars, waveVars
<1>12. ASSUME NEW a \in Users, NEW v \in WaveIds, DeleteWave(a, v) PROVE Kept
  BY <1>12 DEF DeleteWave, settings, noteVars
<1>13. ASSUME NEW a \in Users, NEW v \in WaveIds, ClearWave(a, v) PROVE Kept
  BY <1>13 DEF ClearWave, settings, noteVars, waveVars
<1>14. ASSUME NEW a \in Users, NEW s \in slots, DeleteSlot(a, s) PROVE Kept
  BY <1>14 DEF DeleteSlot, settings, noteVars, waveVars
<1>15. ASSUME NEW a \in Users, NEW s \in slots, NEW n \in Notes, NEW k \in 1 .. MaxTracks, AssignNote(a, n, s, k) PROVE Kept
  BY <1>15 DEF AssignNote, MayAssign, settings, noteVars, waveVars
<1>16. ASSUME NEW a \in Users, NEW x \in assigned, UnassignNote(a, x) PROVE Kept
  BY <1>16 DEF UnassignNote, settings, noteVars, waveVars
<1>17. ASSUME NEW v \in WaveIds, LinksArrive(v) PROVE Kept
  BY <1>17 DEF LinksArrive, settings, noteVars, waveVars
<1>18. ASSUME NEW v \in WaveIds, CallFails(v) PROVE Kept
  BY <1>18 DEF CallFails, settings, noteVars, waveVars, gridVars
<1>19. ASSUME Restart PROVE Kept
  BY <1>19 DEF Restart, settings, noteVars, waveVars, gridVars
<1>20. ASSUME NEW t \in Tabs, Reload(t) PROVE Kept
  BY <1>20 DEF Reload, settings, noteVars, waveVars, gridVars
<1>21. ASSUME UNCHANGED vars PROVE Kept
  BY <1>21 DEF vars, settings, noteVars, waveVars, gridVars
<1> QED
  BY <1>1, <1>2, <1>3, <1>4, <1>5, <1>6, <1>7, <1>8, <1>9, <1>10, <1>11,
     <1>12, <1>13, <1>14, <1>15, <1>16, <1>17, <1>18, <1>19, <1>20, <1>21 DEF Next, NoteCommand, ScheduleCommand

\* The event is over: nothing but late links changes any more.
THEOREM DoneStays == Spec => DoneIsFinal
<1>1. [Next]_vars => (lifecycle = "done" => UNCHANGED <<settings, noteVars, waveVars, slots, assigned>>)
  BY DoneStep
<1> QED BY <1>1, PTL DEF Spec, DoneIsFinal

---------------------------------------------------------------------------
(* Budgets *)

Counted(u) == {n \in Notes : <<n, u>> \in votes /\ ~ScheduledInClosedWave(n)}

\* A note stays scheduled in a closed wave for as long as it exists, so a
\* refunded vote is not counted again: what counts afterwards counted before,
\* or has just been cast.
LEMMA CountedStep ==
  ASSUME Inv, [Next]_vars, NEW u \in Users, NEW m \in Counted(u)'
  PROVE  m \in Counted(u) \/ CastVote(u, m)
<1>1. m \in Notes /\ <<m, u>> \in votes' /\ ~ScheduledInClosedWave(m)'
  BY DEF Counted
<1>2. /\ <<m, u>> \in votes \/ CastVote(u, m)
      /\ Exists(m) => author'[m] # Nobody
  BY <1>1, VoteStep
<1>3. ~ScheduledInClosedWave(m)
  <2> SUFFICES ASSUME NEW x \in assigned, x.note = m, Closed(x.slot.wave) PROVE FALSE
    BY DEF ScheduledInClosedWave
  <2>1. x.slot.wave \in WaveIds /\ Exists(m)
    BY DEF Inv, TypeOK, GridSound, Assignment, Slot
  <2>2. Final(x.slot.wave)
    BY <2>1, FinalStep
  <2>3. x \in WaveAssignments(x.slot.wave)'
    BY <2>1, <2>2, <1>2 DEF Final, WaveAssignments
  <2>4. x \in assigned' /\ Closed(x.slot.wave)'
    BY <2>2, <2>3 DEF Final, WaveAssignments
  <2> QED BY <2>4, <1>1 DEF ScheduledInClosedWave
<1> QED BY <1>1, <1>2, <1>3 DEF Counted

\* The count grows only by a vote cast within the limit.
LEMMA BudgetStep ==
  ASSUME IsFiniteSet(Notes), Inv, [Next]_vars, NEW u \in Users, VotesCast(u)' > VotesCast(u)
  PROVE  VotesCast(u)' <= votesPerUser
<1>1. /\ IsFiniteSet(Counted(u)) /\ IsFiniteSet(Counted(u)')
      /\ VotesCast(u) = Cardinality(Counted(u)) /\ VotesCast(u)' = Cardinality(Counted(u)')
  BY FS_Subset DEF Counted, VotesCast
<1>2. Cardinality(Counted(u)) \in Nat /\ Cardinality(Counted(u)') \in Nat
  BY <1>1, FS_CardinalityType
<1>3. CASE \E n \in Notes : CastVote(u, n)
  <2>1. PICK n \in Notes : CastVote(u, n)
    BY <1>3
  <2>2. Counted(u)' \subseteq Counted(u) \cup {n}
    BY <2>1 DEF CastVote, Counted, ScheduledInClosedWave, Closed, waveVars, gridVars
  <2> DEFINE more == Counted(u) \cup {n}
  <2>3. IsFiniteSet(more) /\ Cardinality(more) \in Nat /\ Cardinality(more) <= Cardinality(Counted(u)) + 1
    <3>1. /\ IsFiniteSet(more)
          /\ Cardinality(more) = IF n \in Counted(u) THEN Cardinality(Counted(u)) ELSE Cardinality(Counted(u)) + 1
      BY <1>1, FS_AddElement
    <3> QED BY <1>2, <3>1
  <2>4. Cardinality(Counted(u)') <= Cardinality(more)
    BY <2>2, <2>3, FS_Subset
  <2>5. VotesCast(u) < votesPerUser /\ votesPerUser \in Nat
    BY <2>1 DEF CastVote, MayCastVote, Inv, TypeOK
  <2> QED BY <1>1, <1>2, <2>3, <2>4, <2>5
<1>4. CASE ~\E n \in Notes : CastVote(u, n)
  <2>1. Counted(u)' \subseteq Counted(u)
    <3>1. Counted(u)' \subseteq Notes
      BY DEF Counted
    <3> QED BY <1>4, <3>1, CountedStep
  <2>2. Cardinality(Counted(u)') <= Cardinality(Counted(u))
    BY <1>1, <2>1, FS_Subset
  <2> QED BY <1>1, <1>2, <2>2
<1> QED BY <1>3, <1>4

\* Nobody gets above their budget but by an organizer's cut.
THEOREM BudgetKept == ASSUME IsFiniteSet(Notes) PROVE Spec => BudgetRespected
<1>1. Inv /\ [Next]_vars =>
        \A u \in Users : VotesCast(u)' > VotesCast(u) => VotesCast(u)' <= votesPerUser
  BY BudgetStep
<1> QED BY <1>1, AlwaysInv, PTL DEF Spec, BudgetRespected

---------------------------------------------------------------------------
(* Slots *)

Multiple(t) == \E i \in Nat : t = i * Millisecond

\* Counting in milliseconds keeps the order.
LEMMA Scaling ==
  ASSUME NEW i \in Nat, NEW j \in Nat
  PROVE  i <= j <=> i * Millisecond <= j * Millisecond
<1>1. Millisecond \in Nat /\ Millisecond > 0
  BY ScheduleAssumption
<1>2. CASE i <= j
  <2>1. PICK d \in Nat : j = i + d
    BY <1>2
  <2>2. j * Millisecond = i * Millisecond + d * Millisecond /\ d * Millisecond \in Nat /\ i * Millisecond \in Nat
    BY <1>1, <2>1
  <2> QED BY <1>2, <2>2
<1>3. CASE ~(i <= j)
  <2>1. PICK d \in Nat : i = j + 1 + d
    <3>1. i - j - 1 \in Nat /\ i = j + 1 + (i - j - 1)
      BY <1>3
    <3> QED BY <3>1
  <2>2. i * Millisecond = j * Millisecond + Millisecond + d * Millisecond
        /\ d * Millisecond \in Nat /\ j * Millisecond \in Nat
    BY <1>1, <2>1
  <2> QED BY <1>1, <1>3, <2>2
<1> QED BY <1>2, <1>3

\* Timestamp cuts off less than a millisecond.
LEMMA Cut ==
  ASSUME NEW t \in Times
  PROVE  /\ t \in Nat /\ Multiple(Timestamp(t)) /\ Timestamp(t) \in Nat
         /\ Timestamp(t) <= t /\ t < Timestamp(t) + Millisecond
<1>1. t \in Nat /\ Millisecond \in Nat /\ Millisecond > 0
  BY ScheduleAssumption
<1>2. /\ t \div Millisecond \in Nat
      /\ t = Millisecond * (t \div Millisecond) + (t % Millisecond)
      /\ t % Millisecond \in 0 .. Millisecond - 1
  BY <1>1
<1>3. Millisecond * (t \div Millisecond) = (t \div Millisecond) * Millisecond
      /\ (t \div Millisecond) * Millisecond \in Nat
  BY <1>1, <1>2
<1> QED BY <1>1, <1>2, <1>3 DEF Timestamp, Multiple

\* A stored time that is not after t is not after the stored t.
LEMMA CutAbove ==
  ASSUME NEW t \in Times, NEW c \in Nat, Multiple(c), c <= t
  PROVE  c <= Timestamp(t)
<1>1. PICK i \in Nat : c = i * Millisecond
  BY DEF Multiple
<1>2. PICK q \in Nat : Timestamp(t) = q * Millisecond
  BY Cut DEF Multiple
<1>3. Millisecond \in Nat /\ i * Millisecond \in Nat /\ q * Millisecond \in Nat
      /\ (q + 1) * Millisecond = q * Millisecond + Millisecond
  BY ScheduleAssumption
<1>4. ~((q + 1) * Millisecond <= i * Millisecond)
  BY <1>1, <1>2, <1>3, Cut
<1>5. ~(q + 1 <= i)
  BY <1>4, Scaling
<1>6. i <= q
  BY <1>5
<1> QED BY <1>1, <1>2, <1>6, Scaling

\* What is stored is no longer than what was asked for may be.
LEMMA CutLength ==
  ASSUME NEW s \in Times, NEW e \in Times, s < e, e - s <= MaxSlotLength
  PROVE  Timestamp(e) - Timestamp(s) <= MaxSlotLength
<1>1. PICK p \in Nat : Timestamp(s) = p * Millisecond
  BY Cut DEF Multiple
<1>2. PICK q \in Nat : Timestamp(e) = q * Millisecond
  BY Cut DEF Multiple
<1>3. PICK k \in Nat : MaxSlotLength = k * Millisecond
  <2>1. MaxSlotLength = Millisecond * (MaxSlotLength \div Millisecond) + (MaxSlotLength % Millisecond)
        /\ MaxSlotLength \div Millisecond \in Nat
    BY ScheduleAssumption
  <2>2. MaxSlotLength = (MaxSlotLength \div Millisecond) * Millisecond
    BY <2>1, ScheduleAssumption
  <2> QED BY <2>1, <2>2
<1>4. Millisecond \in Nat /\ p * Millisecond \in Nat /\ q * Millisecond \in Nat /\ k * Millisecond \in Nat
      /\ (p + k) * Millisecond = p * Millisecond + k * Millisecond
      /\ (p + k + 1) * Millisecond = p * Millisecond + k * Millisecond + Millisecond
  BY ScheduleAssumption
<1>5. ~((p + k + 1) * Millisecond <= q * Millisecond)
  BY <1>1, <1>2, <1>3, <1>4, Cut
<1>6. ~(p + k + 1 <= q)
  BY <1>5, Scaling
<1>7. q <= p + k
  BY <1>6
<1>8. q * Millisecond <= (p + k) * Millisecond
  BY <1>7, Scaling
<1> QED BY <1>1, <1>2, <1>3, <1>4, <1>8

\* Slots only come by create_slot.
LEMMA SlotStep ==
  ASSUME [Next]_vars
  PROVE  \/ slots' \subseteq slots
         \/ \E a \in Users, w \in WaveIds, id \in SlotIds, start, end \in Times : CreateSlot(a, w, id, start, end)
<1> DEFINE Kept == \/ slots' \subseteq slots
                   \/ \E a \in Users, w \in WaveIds, id \in SlotIds, start, end \in Times : CreateSlot(a, w, id, start, end)
<1>1. ASSUME NEW a \in Users, NEW n \in Notes, CreateNote(a, n) PROVE Kept
  BY <1>1 DEF CreateNote, settings, waveVars, gridVars
<1>2. ASSUME NEW a \in Users, NEW n \in Notes, DeleteNote(a, n) PROVE Kept
  BY <1>2 DEF DeleteNote, settings, waveVars
<1>3. ASSUME NEW a \in Users, NEW n \in Notes, CastVote(a, n) PROVE Kept
  BY <1>3 DEF CastVote, settings, waveVars, gridVars
<1>4. ASSUME NEW a \in Users, NEW n \in Notes, RetractVote(a, n) PROVE Kept
  BY <1>4 DEF RetractVote, settings, waveVars, gridVars
<1>5. ASSUME NEW a \in Users, SetVoting(a) PROVE Kept
  BY <1>5 DEF SetVoting, noteVars, waveVars, gridVars
<1>6. ASSUME NEW a \in Users, NEW n \in 1 .. MaxVotesPerUser, SetVotesPerUser(a, n) PROVE Kept
  BY <1>6 DEF SetVotesPerUser, noteVars, waveVars, gridVars
<1>7. ASSUME NEW a \in Users, NEW next \in {"active", "done"}, SetLifecycle(a, next) PROVE Kept
  BY <1>7 DEF SetLifecycle, noteVars, waveVars, gridVars
<1>8. ASSUME NEW a \in Users, NEW v \in WaveIds, NEW k \in 1 .. MaxTracks, CreateWave(a, v, k) PROVE Kept
  BY <1>8 DEF CreateWave, settings, noteVars, gridVars
<1>9. ASSUME NEW a \in Users, NEW v \in WaveIds, NEW k \in 1 .. MaxTracks, UpdateWave(a, v, k) PROVE Kept
  BY <1>9 DEF UpdateWave, settings, noteVars, gridVars
<1>10. ASSUME NEW a \in Users, NEW v \in WaveIds, NEW next \in {"open", "locked", "done"}, SetWaveStatus(a, v, next) PROVE Kept
  BY <1>10 DEF SetWaveStatus, settings, noteVars, gridVars
<1>11. ASSUME NEW a \in Users, NEW v \in WaveIds, NEW id \in SlotIds, NEW start \in Times, NEW end \in Times,
             CreateSlot(a, v, id, start, end)
      PROVE  Kept
  BY <1>11
<1>12. ASSUME NEW a \in Users, NEW v \in WaveIds, DeleteWave(a, v) PROVE Kept
  BY <1>12 DEF DeleteWave, settings, noteVars
<1>13. ASSUME NEW a \in Users, NEW v \in WaveIds, ClearWave(a, v) PROVE Kept
  BY <1>13 DEF ClearWave, settings, noteVars, waveVars
<1>14. ASSUME NEW a \in Users, NEW s \in slots, DeleteSlot(a, s) PROVE Kept
  BY <1>14 DEF DeleteSlot, settings, noteVars, waveVars
<1>15. ASSUME NEW a \in Users, NEW s \in slots, NEW n \in Notes, NEW k \in 1 .. MaxTracks, AssignNote(a, n, s, k) PROVE Kept
  BY <1>15 DEF AssignNote, settings, noteVars, waveVars
<1>16. ASSUME NEW a \in Users, NEW x \in assigned, UnassignNote(a, x) PROVE Kept
  BY <1>16 DEF UnassignNote, settings, noteVars, waveVars
<1>17. ASSUME NEW v \in WaveIds, LinksArrive(v) PROVE Kept
  BY <1>17 DEF LinksArrive, settings, noteVars, waveVars
<1>18. ASSUME NEW v \in WaveIds, CallFails(v) PROVE Kept
  BY <1>18 DEF CallFails, settings, noteVars, waveVars, gridVars
<1>19. ASSUME Restart PROVE Kept
  BY <1>19 DEF Restart, settings, noteVars, waveVars, gridVars
<1>20. ASSUME NEW t \in Tabs, Reload(t) PROVE Kept
  BY <1>20 DEF Reload, settings, noteVars, waveVars, gridVars
<1>21. ASSUME UNCHANGED vars PROVE Kept
  BY <1>21 DEF vars, settings, noteVars, waveVars, gridVars
<1> QED
  BY <1>1, <1>2, <1>3, <1>4, <1>5, <1>6, <1>7, <1>8, <1>9, <1>10, <1>11,
     <1>12, <1>13, <1>14, <1>15, <1>16, <1>17, <1>18, <1>19, <1>20, <1>21 DEF Next, NoteCommand, ScheduleCommand

StoredSlots == \A s \in slots : Multiple(s.start) /\ Multiple(s.end) /\ s.end - s.start <= MaxSlotLength

\* A stored slot is no longer than a slot may be, so the check for overlaps
\* sees every slot that has a length; and cutting both ends cannot make two
\* slots that did not overlap do so.
LEMMA DisjointStep ==
  ASSUME TypeOK, StoredSlots, SlotsDisjoint, [Next]_vars
  PROVE  StoredSlots' /\ SlotsDisjoint'
<1>1. CASE slots' \subseteq slots
  BY <1>1 DEF StoredSlots, SlotsDisjoint
<1>2. ASSUME NEW a \in Users, NEW w \in WaveIds, NEW id \in SlotIds, NEW start \in Times, NEW end \in Times,
             CreateSlot(a, w, id, start, end)
      PROVE  StoredSlots' /\ SlotsDisjoint'
  <2> DEFINE ts == Timestamp(start)
             te == Timestamp(end)
             slot == [id |-> id, wave |-> w, start |-> ts, end |-> te]
  <2>1. /\ slots' = slots \cup {slot}
        /\ start < end /\ end - start <= MaxSlotLength
        /\ \A r \in slots : r.wave = w /\ ParseSlot(r.start, r.end) => ~Overlaps(r, start, end)
    BY <1>2 DEF CreateSlot, ParseSlot
  <2>2. slot.start = ts /\ slot.end = te /\ slot.wave = w
    OBVIOUS
  <2>3. /\ start \in Nat /\ end \in Nat /\ ts \in Nat /\ te \in Nat /\ ts <= start /\ te <= end
        /\ Multiple(ts) /\ Multiple(te) /\ te - ts <= MaxSlotLength
    BY <2>1, Cut, CutLength
  <2>4. ASSUME NEW r \in slots, r.wave = w, r.start < r.end
        PROVE  r.end <= ts \/ te <= r.start
    <3>1. r.start \in Nat /\ r.end \in Nat /\ Multiple(r.end) /\ r.end - r.start <= MaxSlotLength
      BY DEF TypeOK, Slot, StoredSlots
    <3>2. ~(r.start < end /\ start < r.end)
      BY <2>1, <2>4, <3>1 DEF ParseSlot, Overlaps
    <3>3. CASE end <= r.start
      BY <3>3, <3>1, <2>3
    <3>4. CASE r.end <= start
      <4>1. r.end <= Timestamp(start)
        BY <3>1, <3>4, CutAbove
      <4> QED BY <4>1
    <3> QED BY <3>1, <3>2, <3>3, <3>4, <2>3
  <2> HIDE DEF slot, ts, te
  <2>5. StoredSlots'
    <3> SUFFICES ASSUME NEW r \in slots'
                 PROVE  Multiple(r.start) /\ Multiple(r.end) /\ r.end - r.start <= MaxSlotLength
      BY DEF StoredSlots, Multiple
    <3> QED BY <2>1, <2>2, <2>3 DEF StoredSlots
  <2>6. SlotsDisjoint'
    BY <2>1, <2>2, <2>4 DEF SlotsDisjoint
  <2> QED BY <2>5, <2>6
<1> QED BY <1>1, <1>2, SlotStep

\* Slots of a wave share no stored time, for any times and precision.
THEOREM SlotsStayDisjoint == Spec => []SlotsDisjoint
<1>1. Init => StoredSlots /\ SlotsDisjoint
  BY DEF Init, StoredSlots, SlotsDisjoint
<1>2. TypeOK /\ (StoredSlots /\ SlotsDisjoint) /\ [Next]_vars => (StoredSlots /\ SlotsDisjoint)'
  BY DisjointStep
<1> QED BY <1>1, <1>2, TypeCorrect, PTL DEF Spec

\* The stored schedule is consistent after any sequence of commands.
THEOREM ScheduleStaysSound == Spec => []ScheduleSound
<1>1. GridSound /\ SlotsDisjoint /\ LinksAreFinal => ScheduleSound
  BY DEF ScheduleSound
<1> QED BY <1>1, GridAlwaysSound, SlotsStayDisjoint, LinksAlwaysFinal, PTL

---------------------------------------------------------------------------
(* Folding the events of a commit *)

\* A set of naturals that is not empty has a least element.
LEMMA Least ==
  ASSUME NEW T \in SUBSET Nat, T # {}
  PROVE  \E x \in T : \A y \in T : x <= y
<1> DEFINE Below == OpToRel(<, Nat)
<1>1. IsWellFoundedOn(Below, Nat)
  BY NatLessThanWellFounded
<1>2. PICK x \in T : \A y \in T : <<y, x>> \notin Below
  <2> HIDE DEF Below
  <2> QED BY <1>1, WFMin
<1>3. \A y \in T : ~(y < x)
  BY <1>2 DEF OpToRel
<1> QED BY <1>3

\* A set with a natural number for each element has one with the least.
LEMMA LeastBy ==
  ASSUME NEW S, S # {}, NEW f, \A x \in S : f[x] \in Nat
  PROVE  \E x \in S : \A y \in S : f[x] <= f[y]
<1> DEFINE T == {f[x] : x \in S}
<1>1. PICK t \in T : \A u \in T : t <= u
  <2>1. T \in SUBSET Nat /\ T # {}
    OBVIOUS
  <2> QED BY <2>1, Least
<1> QED BY <1>1

\* Induction, for a set of naturals.
LEMMA Induct ==
  ASSUME NEW S \in SUBSET Nat, 0 \in S, \A n \in S : n + 1 \in S
  PROVE  S = Nat
<1> SUFFICES ASSUME Nat \ S # {} PROVE FALSE
  OBVIOUS
<1>1. PICK x \in Nat \ S : \A y \in Nat \ S : x <= y
  BY Least
<1>2. x # 0 /\ x - 1 \in Nat /\ x - 1 \in S
  BY <1>1
<1> QED BY <1>1, <1>2

\* The largest of a set of indices.
LEMMA LargestIndex ==
  ASSUME NEW n \in Nat, NEW s \in SUBSET (1 .. n), s # {}
  PROVE  Max(s) \in s /\ \A x \in s : x <= Max(s)
<1> DEFINE gap == [x \in s |-> n - x]
           top(x) == \A y \in s : x >= y
<1>1. \A x \in s : gap[x] \in Nat
  OBVIOUS
<1>2. PICK x \in s : \A y \in s : gap[x] <= gap[y]
  <2> HIDE DEF gap
  <2> QED BY <1>1, LeastBy
<1>3. top(x)
  <2> SUFFICES ASSUME NEW y \in s PROVE x >= y
    OBVIOUS
  <2>1. n - x <= n - y /\ x \in Nat /\ y \in Nat
    BY <1>2
  <2> QED BY <2>1
<1>4. Max(s) = CHOOSE y \in s : top(y)
  BY DEF Max
<1>5. Max(s) \in s /\ top(Max(s))
  <2> HIDE DEF top
  <2> QED BY <1>3, <1>4
<1>6. \A y \in s : y \in Int
  OBVIOUS
<1> QED BY <1>5, <1>6

\* The board b of t after the events es.
After(b, t, es) == FoldLeft(LAMBDA c, e : applyEvent(c, t, e), b, es)

\* g[k] is the board after k of the events.
Publishing(g, b, t, es, n) ==
  /\ g[0] = b
  /\ \A k \in 1 .. n : g[k] = applyEvent(g[k - 1], t, es[k])
  /\ After(b, t, es) = g[n]

\* The events are published one after the other.
LEMMA FoldOfEvents ==
  ASSUME NEW b, NEW t, NEW n \in Nat, NEW es, DOMAIN es = 1 .. n
  PROVE  \E g : Publishing(g, b, t, es, n)
<1> DEFINE Def(f, s) == IF s = {} THEN b ELSE applyEvent(f[s \ {Max(s)}], t, es[Max(s)])
           Iter(f, k) == f = [s \in SUBSET (1 .. k) |-> Def(f, s)]
           Good == {k \in Nat : k <= n => \E f : Iter(f, k)}
<1>1. 0 \in Good
  <2> DEFINE f == [s \in SUBSET (1 .. 0) |-> b]
  <2>0. \A x : x \notin 1 .. 0
    OBVIOUS
  <2>1. \A s \in SUBSET (1 .. 0) : Def(f, s) = b
    <3> SUFFICES ASSUME NEW s \in SUBSET (1 .. 0) PROVE Def(f, s) = b
      OBVIOUS
    <3>1. s = {}
      BY <2>0
    <3> QED BY <3>1
  <2>2. Iter(f, 0)
    <3> HIDE DEF Def
    <3> QED BY <2>1
  <2> HIDE DEF Iter
  <2> QED BY <2>2
<1>2. ASSUME NEW k \in Good PROVE k + 1 \in Good
  <2>0. k \in Nat /\ (k <= n => \E f : Iter(f, k))
    <3> HIDE DEF Iter
    <3> QED OBVIOUS
  <2> SUFFICES ASSUME k + 1 <= n PROVE \E f : Iter(f, k + 1)
    <3> HIDE DEF Iter
    <3> QED BY <2>0
  <2>1. PICK f : Iter(f, k)
    <3> HIDE DEF Iter
    <3> QED BY <2>0
  <2> DEFINE h == [s \in SUBSET (1 .. k + 1) |->
                     IF s \in SUBSET (1 .. k) THEN f[s]
                     ELSE applyEvent(f[s \ {k + 1}], t, es[k + 1])]
  <2>2. ASSUME NEW s \in SUBSET (1 .. k + 1) PROVE h[s] = Def(h, s)
    <3>1. CASE s = {}
      BY <2>1, <3>1
    <3>2. CASE s # {} /\ s \in SUBSET (1 .. k)
      <4>1. Max(s) \in s
        BY <3>2, LargestIndex
      <4>2. s \ {Max(s)} \in SUBSET (1 .. k)
        BY <3>2
      <4>3. h[s] = f[s] /\ h[s \ {Max(s)}] = f[s \ {Max(s)}]
        BY <3>2, <4>2
      <4>4. f[s] = Def(f, s)
        BY <2>1, <3>2
      <4> HIDE DEF h
      <4> QED BY <3>2, <4>3, <4>4
    <3>3. CASE s \notin SUBSET (1 .. k)
      <4>1. k + 1 \in s /\ s # {}
        BY <3>3
      <4>2. Max(s) = k + 1
        <5>1. k + 1 \in Nat /\ s \in SUBSET (1 .. k + 1)
          OBVIOUS
        <5>2. Max(s) \in s /\ \A x \in s : x <= Max(s)
          BY <4>1, <5>1, LargestIndex
        <5>3. Max(s) \in 1 .. k + 1 /\ k + 1 <= Max(s)
          BY <4>1, <5>1, <5>2
        <5> QED BY <5>1, <5>3
      <4>3. s \ {k + 1} \in SUBSET (1 .. k)
        OBVIOUS
      <4>4. h[s] = applyEvent(f[s \ {k + 1}], t, es[k + 1]) /\ h[s \ {k + 1}] = f[s \ {k + 1}]
        BY <3>3, <4>3
      <4> HIDE DEF h
      <4> QED BY <4>1, <4>2, <4>4
    <3> QED BY <3>1, <3>2, <3>3
  <2>3. Iter(h, k + 1)
    <3>1. [s \in SUBSET (1 .. k + 1) |-> h[s]] = [s \in SUBSET (1 .. k + 1) |-> Def(h, s)]
      <4> HIDE DEF h, Def
      <4> QED BY <2>2
    <3>2. h = [s \in SUBSET (1 .. k + 1) |-> h[s]]
      OBVIOUS
    <3> HIDE DEF h, Def
    <3> QED BY <3>1, <3>2
  <2> HIDE DEF Iter
  <2> QED BY <2>3
<1>3. Good = Nat
  <2> HIDE DEF Good
  <2>1. Good \in SUBSET Nat
    BY DEF Good
  <2> QED BY <1>1, <1>2, <2>1, Induct
<1> DEFINE iter == CHOOSE f : Iter(f, n)
<1>4. Iter(iter, n)
  <2>1. n \in Good
    BY <1>3
  <2>2. \E f : Iter(f, n)
    <3> HIDE DEF Iter
    <3> QED BY <2>1
  <2> HIDE DEF Iter
  <2> QED BY <2>2
<1>5. After(b, t, es) = iter[1 .. n]
  BY DEF After, FoldLeft, MapThenFoldSet
<1> DEFINE g == [k \in 0 .. n |-> iter[1 .. k]]
<1> HIDE DEF iter
<1>6. g[0] = b
  <2>0. \A x : x \notin 1 .. 0
    OBVIOUS
  <2>1. 1 .. 0 = {}
    BY <2>0, Zenon
  <2> QED BY <1>4, <2>1
<1>7. ASSUME NEW k \in 1 .. n PROVE g[k] = applyEvent(g[k - 1], t, es[k])
  <2>1. 1 .. k \in SUBSET (1 .. n) /\ k \in 1 .. k
    OBVIOUS
  <2>2. Max(1 .. k) = k
    <3>1. Max(1 .. k) \in 1 .. k /\ \A x \in 1 .. k : x <= Max(1 .. k)
      BY <2>1, LargestIndex
    <3> QED BY <3>1
  <2>3. (1 .. k) \ {k} = 1 .. k - 1
    OBVIOUS
  <2>4. iter[1 .. k] = applyEvent(iter[1 .. k - 1], t, es[k])
    BY <1>4, <2>1, <2>2, <2>3
  <2> QED BY <2>4
<1>8. g[n] = iter[1 .. n]
  OBVIOUS
<1> HIDE DEF g
<1> QED BY <1>5, <1>6, <1>7, <1>8 DEF Publishing

\* One event.
LEMMA AfterOne ==
  ASSUME NEW b, NEW t, NEW e
  PROVE  After(b, t, <<e>>) = applyEvent(b, t, e)
<1> DEFINE es == <<e>>
<1>1. DOMAIN es = 1 .. 1 /\ es[1] = e /\ 1 \in Nat
  OBVIOUS
<1> HIDE DEF es
<1>2. PICK g : Publishing(g, b, t, es, 1)
  BY <1>1, FoldOfEvents
<1>3. 1 \in 1 .. 1 /\ 1 - 1 = 0
  OBVIOUS
<1>4. g[1] = applyEvent(g[0], t, e)
  BY <1>1, <1>2, <1>3 DEF Publishing
<1> QED BY <1>2, <1>4 DEF es, Publishing

\* An event in front of others.
Prepended(e, f) == <<e>> \o f
Prefixed(es, e, f, m) ==
  DOMAIN es = 1 .. m + 1 /\ es[1] = e /\ \A i \in 1 .. m : es[i + 1] = f[i]

\* An event and then others, at the level of functions.
LEMMA FirstThenRest ==
  ASSUME NEW e, NEW m \in Nat, NEW E, NEW f \in [1 .. m -> E]
  PROVE  Prefixed(Prepended(e, f), e, f, m)
<1> DEFINE X == {e} \cup E
<1>1. f \in [1 .. m -> X] /\ e \in X
  OBVIOUS
<1> HIDE DEF X
<1>2. f \in Seq(X) /\ Len(f) = m /\ <<e>> \in Seq(X) /\ Len(<<e>>) = 1 /\ <<e>>[1] = e
  BY <1>1
<1>3. /\ <<e>> \o f \in Seq(X) /\ Len(<<e>> \o f) = 1 + m
      /\ \A i \in 1 .. 1 + m : (<<e>> \o f)[i] = IF i <= 1 THEN <<e>>[i] ELSE f[i - 1]
  BY <1>2, ConcatProperties
<1>4. DOMAIN (<<e>> \o f) = 1 .. Len(<<e>> \o f)
  BY <1>3, LenProperties
<1>5. /\ 1 + m = m + 1 /\ 1 \in 1 .. 1 + m
      /\ \A i \in 1 .. m : i + 1 \in 1 .. 1 + m /\ ~(i + 1 <= 1) /\ i + 1 - 1 = i
  OBVIOUS
<1> HIDE DEF X
<1> QED BY <1>2, <1>3, <1>4, <1>5 DEF Prefixed, Prepended

\* A finite set in some order, each element once.
LEMMA SetInOrder ==
  ASSUME NEW S, IsFiniteSet(S)
  PROVE  /\ Cardinality(S) \in Nat
         /\ SetToSeq(S) \in [1 .. Cardinality(S) -> S]
         /\ \A x \in S : \E i \in 1 .. Cardinality(S) : SetToSeq(S)[i] = x
         /\ IsInjective(SetToSeq(S))
<1> DEFINE n == Cardinality(S)
<1>1. n \in Nat /\ ExistsBijection(1 .. n, S)
  BY FS_CardinalityType
<1>2. \E f \in [1 .. n -> S] : IsInjective(f)
  BY <1>1 DEF ExistsBijection, Bijection, Injection
<1>3. SetToSeq(S) \in [1 .. n -> S] /\ IsInjective(SetToSeq(S))
  BY <1>2 DEF SetToSeq
<1>4. SetToSeq(S) \in Injection(1 .. n, S)
  BY <1>3 DEF Injection
<1>5. Cardinality(1 .. n) = n
  BY <1>1, FS_Interval
<1>6. SetToSeq(S) \in Surjection(1 .. n, S)
  <2> HIDE DEF n
  <2> QED BY <1>4, <1>5, FS_Injection DEF n
<1> QED BY <1>1, <1>3, <1>6 DEF Surjection

\* No events.
LEMMA AfterNone == ASSUME NEW b, NEW t PROVE After(b, t, <<>>) = b
<1> DEFINE es == <<>>
<1>0. \A x : x \notin 1 .. 0
  OBVIOUS
<1>1. DOMAIN es = 1 .. 0 /\ 0 \in Nat
  BY <1>0
<1> HIDE DEF es
<1>2. PICK g : Publishing(g, b, t, es, 0)
  BY <1>1, FoldOfEvents
<1> QED BY <1>2 DEF es, Publishing

\* An event and then others.
LEMMA AfterFirst ==
  ASSUME NEW b, NEW t, NEW e, NEW m \in Nat, NEW E, NEW f \in [1 .. m -> E]
  PROVE  After(b, t, Prepended(e, f)) = After(applyEvent(b, t, e), t, f)
<1> DEFINE es == Prepended(e, f)
           c == applyEvent(b, t, e)
<1>1. DOMAIN es = 1 .. m + 1 /\ es[1] = e /\ \A i \in 1 .. m : es[i + 1] = f[i]
  <2>1. Prefixed(es, e, f, m)
    BY FirstThenRest
  <2> HIDE DEF es
  <2> QED BY <2>1 DEF Prefixed
<1>2. DOMAIN f = 1 .. m /\ m + 1 \in Nat
  OBVIOUS
<1> HIDE DEF es, c
<1>3. PICK g : Publishing(g, b, t, es, m + 1)
  BY <1>1, <1>2, FoldOfEvents
<1>4. PICK h : Publishing(h, c, t, f, m)
  BY <1>2, FoldOfEvents
<1> DEFINE Good == {k \in Nat : k <= m => g[k + 1] = h[k]}
<1>5. 0 \in Good
  <2>1. 1 \in 1 .. m + 1 /\ 1 - 1 = 0 /\ 0 + 1 = 1
    OBVIOUS
  <2> QED BY <1>1, <1>3, <1>4, <2>1 DEF c, Publishing
<1>6. ASSUME NEW k \in Good PROVE k + 1 \in Good
  <2>1. k \in Nat /\ (k <= m => g[k + 1] = h[k])
    OBVIOUS
  <2> SUFFICES ASSUME k + 1 <= m PROVE g[k + 1 + 1] = h[k + 1]
    BY <2>1
  <2>2. /\ k + 1 \in 1 .. m /\ k + 1 + 1 \in 1 .. m + 1 /\ k + 1 + 1 - 1 = k + 1
        /\ k + 1 - 1 = k /\ k <= m
    BY <2>1
  <2> QED BY <1>1, <1>3, <1>4, <2>1, <2>2 DEF Publishing
<1>7. Good = Nat
  <2>1. Good \in SUBSET Nat
    OBVIOUS
  <2> HIDE DEF Good
  <2> QED BY <1>5, <1>6, <2>1, Induct
<1>8. g[m + 1] = h[m]
  <2>1. m \in Good
    BY <1>7
  <2> QED BY <2>1
<1> QED BY <1>3, <1>4, <1>8 DEF es, c, Publishing

\* Others and then an event.
LEMMA AfterLast ==
  ASSUME NEW b, NEW t, NEW e, NEW m \in Nat, NEW E, NEW f \in [1 .. m -> E]
  PROVE  After(b, t, Append(f, e)) = applyEvent(After(b, t, f), t, e)
<1> DEFINE es == Append(f, e)
           X == {e} \cup E
<1>1. DOMAIN es = 1 .. m + 1 /\ es[m + 1] = e /\ \A i \in 1 .. m : es[i] = f[i]
  <2>1. f \in [1 .. m -> X] /\ e \in X
    OBVIOUS
  <2> HIDE DEF X
  <2>2. f \in Seq(X) /\ Len(f) = m
    BY <2>1
  <2> QED BY <2>1, <2>2
<1>2. DOMAIN f = 1 .. m /\ m + 1 \in Nat
  OBVIOUS
<1> HIDE DEF es
<1>3. PICK g : Publishing(g, b, t, es, m + 1)
  BY <1>1, <1>2, FoldOfEvents
<1>4. PICK h : Publishing(h, b, t, f, m)
  BY <1>2, FoldOfEvents
<1> DEFINE Good == {k \in Nat : k <= m => g[k] = h[k]}
<1>5. 0 \in Good
  BY <1>3, <1>4 DEF Publishing
<1>6. ASSUME NEW k \in Good PROVE k + 1 \in Good
  <2>1. k \in Nat /\ (k <= m => g[k] = h[k])
    OBVIOUS
  <2> SUFFICES ASSUME k + 1 <= m PROVE g[k + 1] = h[k + 1]
    BY <2>1
  <2>2. k + 1 \in 1 .. m /\ k + 1 \in 1 .. m + 1 /\ k + 1 - 1 = k /\ k <= m
    BY <2>1
  <2> QED BY <1>1, <1>3, <1>4, <2>1, <2>2 DEF Publishing
<1>7. Good = Nat
  <2>1. Good \in SUBSET Nat
    OBVIOUS
  <2> HIDE DEF Good
  <2> QED BY <1>5, <1>6, <2>1, Induct
<1>8. g[m] = h[m]
  <2>1. m \in Good
    BY <1>7
  <2> QED BY <2>1
<1>9. m + 1 \in 1 .. m + 1 /\ m + 1 - 1 = m
  OBVIOUS
<1> QED BY <1>1, <1>3, <1>4, <1>8, <1>9 DEF es, Publishing

---------------------------------------------------------------------------
(* What the events do to a browser's board *)

Fields == {"lifecycle", "votingOpen", "votesPerUser", "notes", "votes", "status", "tracks",
           "slots", "assigned", "linked", "scheduled", "votesUsed"}

IsBoard(b) == b = [k \in Fields |-> b[k]]

\* The board b shows these tables; its flags follow from the assignments.
Shows(b, lc, vo, vp, ns, vs, st, tr, sl, as, li) ==
  /\ IsBoard(b)
  /\ b.lifecycle = lc /\ b.votingOpen = vo /\ b.votesPerUser = vp
  /\ b.notes = ns /\ b.votes = vs /\ b.status = st /\ b.tracks = tr /\ b.slots = sl
  /\ b.assigned = as /\ b.linked = li /\ b.scheduled = {x.note : x \in as}

\* A created note.
LEMMA OnNoteCreated ==
  ASSUME NEW lc, NEW vo, NEW vp, NEW ns, NEW vs, NEW st, NEW tr, NEW sl, NEW as, NEW li,
         NEW b, Shows(b, lc, vo, vp, ns, vs, st, tr, sl, as, li), NEW t, NEW n
  PROVE  Shows(applyEvent(b, t, [kind |-> "note_created", note |-> n]),
               lc, vo, vp, ns \cup {n}, vs, st, tr, sl, as, li)
<1> DEFINE c == [b EXCEPT !.notes = @ \cup {n}]
<1>1. applyEvent(b, t, [kind |-> "note_created", note |-> n]) = c
  BY DEF applyEvent
<1>2. IsBoard(c)
  BY DEF Shows, IsBoard
<1>3. Shows(c, lc, vo, vp, ns \cup {n}, vs, st, tr, sl, as, li)
  BY <1>2 DEF Shows, Fields, IsBoard
<1> QED BY <1>1, <1>3

\* A deleted note takes its votes, its assignments and its flag along.
LEMMA OnNoteDeleted ==
  ASSUME NEW lc, NEW vo, NEW vp, NEW ns, NEW vs, NEW st, NEW tr, NEW sl, NEW as, NEW li,
         NEW b, Shows(b, lc, vo, vp, ns, vs, st, tr, sl, as, li), NEW t, NEW n \in ns
  PROVE  Shows(applyEvent(b, t, [kind |-> "note_deleted", note |-> n]),
               lc, vo, vp, ns \ {n}, {v \in vs : v[1] # n}, st, tr, sl,
               {x \in as : x.note # n}, {x \in li : x.note # n})
<1> DEFINE mine == IF <<n, t>> \in b.votes THEN 1 ELSE 0
           used == IF b.votesUsed > mine THEN b.votesUsed - mine ELSE 0
           c == [b EXCEPT !.notes = @ \ {n},
                          !.votes = {v \in @ : v[1] # n},
                          !.scheduled = @ \ {n},
                          !.assigned = {x \in @ : x.note # n},
                          !.linked = {x \in @ : x.note # n},
                          !.votesUsed = used]
<1>1. applyEvent(b, t, [kind |-> "note_deleted", note |-> n]) = noteDeleted(b, t, n)
  BY DEF applyEvent
<1>2. noteDeleted(b, t, n) = c
  BY DEF noteDeleted, Shows
<1> HIDE DEF used
<1>3. IsBoard(c)
  BY DEF Shows, IsBoard
<1>4. /\ c.lifecycle = b.lifecycle /\ c.votingOpen = b.votingOpen
      /\ c.votesPerUser = b.votesPerUser /\ c.notes = b.notes \ {n}
      /\ c.votes = {v \in b.votes : v[1] # n} /\ c.status = b.status /\ c.tracks = b.tracks
      /\ c.slots = b.slots /\ c.assigned = {x \in b.assigned : x.note # n}
      /\ c.linked = {x \in b.linked : x.note # n} /\ c.scheduled = b.scheduled \ {n}
  BY DEF Shows, IsBoard, Fields
<1>5. {x.note : x \in as} \ {n} = {x.note : x \in {x \in as : x.note # n}}
  OBVIOUS
<1> HIDE DEF c
<1> QED BY <1>1, <1>2, <1>3, <1>4, <1>5 DEF Shows

Voted(b, vs, used) == [b EXCEPT !.votes = vs, !.votesUsed = used]

\* A vote.
LEMMA OnVote ==
  ASSUME NEW lc, NEW vo, NEW vp, NEW ns, NEW vs, NEW st, NEW tr, NEW sl, NEW as, NEW li,
         NEW b, Shows(b, lc, vo, vp, ns, vs, st, tr, sl, as, li), NEW t, NEW n \in ns, NEW a
  PROVE  /\ Shows(applyEvent(b, t, [kind |-> "vote_cast", note |-> n, by |-> a]),
                  lc, vo, vp, ns, vs \cup {<<n, a>>}, st, tr, sl, as, li)
         /\ Shows(applyEvent(b, t, [kind |-> "vote_retracted", note |-> n, by |-> a]),
                  lc, vo, vp, ns, vs \ {<<n, a>>}, st, tr, sl, as, li)
<1>1. ASSUME NEW vs2, NEW used
      PROVE  Shows(Voted(b, vs2, used), lc, vo, vp, ns, vs2, st, tr, sl, as, li)
  <2> DEFINE c == [b EXCEPT !.votes = vs2, !.votesUsed = used]
  <2>1. IsBoard(c)
    BY DEF Shows, IsBoard
  <2> QED BY <2>1 DEF Shows, Fields, IsBoard, Voted
<1>2. ASSUME NEW cast \in BOOLEAN
      PROVE  \E used : voteChanged(b, t, n, a, cast) =
               [b EXCEPT !.votes = IF cast THEN @ \cup {<<n, a>>} ELSE @ \ {<<n, a>>},
                         !.votesUsed = used]
  BY DEF voteChanged, Shows
<1>3. Shows(voteChanged(b, t, n, a, TRUE), lc, vo, vp, ns, vs \cup {<<n, a>>}, st, tr, sl, as, li)
  <2> DEFINE vs2 == b.votes \cup {<<n, a>>}
  <2>1. PICK used : voteChanged(b, t, n, a, TRUE) = Voted(b, vs2, used)
    BY <1>2 DEF Voted
  <2>2. vs2 = vs \cup {<<n, a>>}
    BY DEF Shows
  <2> HIDE DEF vs2
  <2> QED BY <1>1, <2>1, <2>2
<1>4. Shows(voteChanged(b, t, n, a, FALSE), lc, vo, vp, ns, vs \ {<<n, a>>}, st, tr, sl, as, li)
  <2> DEFINE vs2 == b.votes \ {<<n, a>>}
  <2>1. PICK used : voteChanged(b, t, n, a, FALSE) = Voted(b, vs2, used)
    BY <1>2 DEF Voted
  <2>2. vs2 = vs \ {<<n, a>>}
    BY DEF Shows
  <2> HIDE DEF vs2
  <2> QED BY <1>1, <2>1, <2>2
<1>5. applyEvent(b, t, [kind |-> "vote_cast", note |-> n, by |-> a]) = voteChanged(b, t, n, a, TRUE)
  BY DEF applyEvent
<1>6. applyEvent(b, t, [kind |-> "vote_retracted", note |-> n, by |-> a])
        = voteChanged(b, t, n, a, FALSE)
  BY DEF applyEvent
<1> QED BY <1>3, <1>4, <1>5, <1>6

\* The event's settings.
LEMMA OnSettings ==
  ASSUME NEW lc, NEW vo, NEW vp, NEW ns, NEW vs, NEW st, NEW tr, NEW sl, NEW as, NEW li,
         NEW b, Shows(b, lc, vo, vp, ns, vs, st, tr, sl, as, li), NEW t, NEW y
  PROVE  /\ Shows(applyEvent(b, t, [kind |-> "lifecycle_set", to |-> y]),
                  y, vo, vp, ns, vs, st, tr, sl, as, li)
         /\ Shows(applyEvent(b, t, [kind |-> "voting_set", open |-> y]),
                  lc, y, vp, ns, vs, st, tr, sl, as, li)
         /\ Shows(applyEvent(b, t, [kind |-> "votes_per_user_set", n |-> y]),
                  lc, vo, y, ns, vs, st, tr, sl, as, li)
<1>1. Shows([b EXCEPT !.lifecycle = y], y, vo, vp, ns, vs, st, tr, sl, as, li)
  <2>1. IsBoard([b EXCEPT !.lifecycle = y])
    BY DEF Shows, IsBoard
  <2> QED BY <2>1 DEF Shows, Fields, IsBoard
<1>2. Shows([b EXCEPT !.votingOpen = y], lc, y, vp, ns, vs, st, tr, sl, as, li)
  <2>1. IsBoard([b EXCEPT !.votingOpen = y])
    BY DEF Shows, IsBoard
  <2> QED BY <2>1 DEF Shows, Fields, IsBoard
<1>3. Shows([b EXCEPT !.votesPerUser = y], lc, vo, y, ns, vs, st, tr, sl, as, li)
  <2>1. IsBoard([b EXCEPT !.votesPerUser = y])
    BY DEF Shows, IsBoard
  <2> QED BY <2>1 DEF Shows, Fields, IsBoard
<1>4. applyEvent(b, t, [kind |-> "lifecycle_set", to |-> y]) = [b EXCEPT !.lifecycle = y]
  BY DEF applyEvent
<1>5. applyEvent(b, t, [kind |-> "voting_set", open |-> y]) = [b EXCEPT !.votingOpen = y]
  BY DEF applyEvent
<1>6. applyEvent(b, t, [kind |-> "votes_per_user_set", n |-> y]) = [b EXCEPT !.votesPerUser = y]
  BY DEF applyEvent
<1> QED BY <1>1, <1>2, <1>3, <1>4, <1>5, <1>6

\* A user's own count, sent to one user: nothing else changes.
LEMMA OnVotesUsed ==
  ASSUME NEW lc, NEW vo, NEW vp, NEW ns, NEW vs, NEW st, NEW tr, NEW sl, NEW as, NEW li,
         NEW b, Shows(b, lc, vo, vp, ns, vs, st, tr, sl, as, li), NEW t,
         NEW e, e.kind = "votes_used_set"
  PROVE  Shows(applyEvent(b, t, e), lc, vo, vp, ns, vs, st, tr, sl, as, li)
<1> DEFINE used == e.used
<1>1. applyEvent(b, t, e) \in {b, [b EXCEPT !.votesUsed = used]}
  BY DEF applyEvent
<1> HIDE DEF used
<1>2. Shows([b EXCEPT !.votesUsed = used], lc, vo, vp, ns, vs, st, tr, sl, as, li)
  <2>1. IsBoard([b EXCEPT !.votesUsed = used])
    BY DEF Shows, IsBoard
  <2> QED BY <2>1 DEF Shows, Fields, IsBoard
<1> QED BY <1>1, <1>2

\* A wave's status and tracks.
LEMMA OnWave ==
  ASSUME NEW lc, NEW vo, NEW vp, NEW ns, NEW vs, NEW st, NEW tr, NEW sl, NEW as, NEW li,
         NEW b, Shows(b, lc, vo, vp, ns, vs, st, tr, sl, as, li), NEW t, NEW w, NEW s, NEW k
  PROVE  /\ \A kind \in {"wave_created", "wave_updated"} :
              Shows(applyEvent(b, t, [kind |-> kind, wave |-> w, status |-> s, tracks |-> k]),
                    lc, vo, vp, ns, vs, [st EXCEPT ![w] = s], [tr EXCEPT ![w] = k], sl, as, li)
         /\ Shows(applyEvent(b, t, [kind |-> "wave_status_set", wave |-> w, status |-> s]),
                  lc, vo, vp, ns, vs, [st EXCEPT ![w] = s], tr, sl, as, li)
<1> DEFINE st2 == [st EXCEPT ![w] = s]
           tr2 == [tr EXCEPT ![w] = k]
           both == [b EXCEPT !.status[w] = s, !.tracks[w] = k]
           one == [b EXCEPT !.status[w] = s]
<1>1. both = [b EXCEPT !.status = st2, !.tracks = tr2] /\ one = [b EXCEPT !.status = st2]
  BY DEF Shows, IsBoard, Fields
<1>2. ASSUME NEW kind \in {"wave_created", "wave_updated"}
      PROVE  applyEvent(b, t, [kind |-> kind, wave |-> w, status |-> s, tracks |-> k]) = both
  BY DEF applyEvent
<1>3. applyEvent(b, t, [kind |-> "wave_status_set", wave |-> w, status |-> s]) = one
  BY DEF applyEvent
<1> HIDE DEF st2, tr2, both, one
<1>4. Shows(both, lc, vo, vp, ns, vs, st2, tr2, sl, as, li)
  <2>1. IsBoard(both)
    BY <1>1 DEF Shows, IsBoard
  <2> QED BY <1>1, <2>1 DEF Shows, Fields, IsBoard
<1>5. Shows(one, lc, vo, vp, ns, vs, st2, tr, sl, as, li)
  <2>1. IsBoard(one)
    BY <1>1 DEF Shows, IsBoard
  <2> QED BY <1>1, <2>1 DEF Shows, Fields, IsBoard
<1> QED BY <1>2, <1>3, <1>4, <1>5 DEF st2, tr2

\* Deriving the flags of the notes N again gives the flags of all notes,
\* when no assignment of another note came or went.
LEMMA OnAssignments ==
  ASSUME NEW lc, NEW vo, NEW vp, NEW ns, NEW vs, NEW st, NEW tr, NEW sl, NEW as, NEW li,
         NEW b, Shows(b, lc, vo, vp, ns, vs, st, tr, sl, as, li), NEW xs, NEW N,
         \A x \in xs : x.note \in ns,
         \A x \in as \cup xs : x.note \notin N => (x \in as <=> x \in xs)
  PROVE  Shows(withAssignments(b, xs, N), lc, vo, vp, ns, vs, st, tr, sl, xs, li \cap xs)
<1> DEFINE flags == (b.scheduled \ N) \cup {n \in N \cap b.notes : \E x \in xs : x.note = n}
           kept == b.linked \cap xs
           c == [b EXCEPT !.assigned = xs, !.linked = kept, !.scheduled = flags]
<1>1. flags = {x.note : x \in xs} /\ kept = li \cap xs
  BY DEF Shows
<1>2. withAssignments(b, xs, N) = c
  BY DEF withAssignments, Shows, IsBoard, Fields
<1> HIDE DEF flags, kept
<1>3. IsBoard(c)
  BY DEF Shows, IsBoard
<1>4. /\ c.lifecycle = b.lifecycle /\ c.votingOpen = b.votingOpen
      /\ c.votesPerUser = b.votesPerUser /\ c.notes = b.notes /\ c.votes = b.votes
      /\ c.status = b.status /\ c.tracks = b.tracks /\ c.slots = b.slots
      /\ c.assigned = xs /\ c.linked = kept /\ c.scheduled = flags
  BY DEF Shows, IsBoard, Fields
<1> HIDE DEF c
<1> QED BY <1>1, <1>2, <1>3, <1>4 DEF Shows

\* An assigned note.
LEMMA OnAssigned ==
  ASSUME NEW lc, NEW vo, NEW vp, NEW ns, NEW vs, NEW st, NEW tr, NEW sl, NEW as, NEW li,
         NEW b, Shows(b, lc, vo, vp, ns, vs, st, tr, sl, as, li), NEW t,
         NEW x, x.note \in ns, \A y \in as : y.note \in ns, li \subseteq as
  PROVE  Shows(applyEvent(b, t, [kind |-> "note_assigned", assignment |-> x]),
               lc, vo, vp, ns, vs, st, tr, sl, as \cup {x}, li)
<1> DEFINE xs == as \cup {x}
           N == {x.note}
<1>1. applyEvent(b, t, [kind |-> "note_assigned", assignment |-> x]) = withAssignments(b, xs, N)
  BY DEF applyEvent, Shows
<1>2. /\ \A y \in xs : y.note \in ns
      /\ \A y \in as \cup xs : y.note \notin N => (y \in as <=> y \in xs)
      /\ li \cap xs = li
  OBVIOUS
<1> HIDE DEF xs, N
<1>3. Shows(withAssignments(b, xs, N), lc, vo, vp, ns, vs, st, tr, sl, xs, li \cap xs)
  BY <1>2, OnAssignments
<1> QED BY <1>1, <1>2, <1>3 DEF xs

\* Assignments that go.
LEMMA OnWithout ==
  ASSUME NEW lc, NEW vo, NEW vp, NEW ns, NEW vs, NEW st, NEW tr, NEW sl, NEW as, NEW li,
         NEW b, Shows(b, lc, vo, vp, ns, vs, st, tr, sl, as, li),
         NEW gone, \A y \in as : y.note \in ns, li \subseteq as
  PROVE  Shows(withoutAssignments(b, gone), lc, vo, vp, ns, vs, st, tr, sl, as \ gone, li \ gone)
<1> DEFINE xs == as \ gone
           N == {x.note : x \in gone}
<1>1. withoutAssignments(b, gone) = withAssignments(b, xs, N)
  BY DEF withoutAssignments, Shows
<1>2. /\ \A y \in xs : y.note \in ns
      /\ \A y \in as \cup xs : y.note \notin N => (y \in as <=> y \in xs)
      /\ li \cap xs = li \ gone
  OBVIOUS
<1> HIDE DEF xs, N
<1>3. Shows(withAssignments(b, xs, N), lc, vo, vp, ns, vs, st, tr, sl, xs, li \cap xs)
  BY <1>2, OnAssignments
<1> QED BY <1>1, <1>2, <1>3 DEF xs

\* An unassigned note.
LEMMA OnUnassigned ==
  ASSUME NEW lc, NEW vo, NEW vp, NEW ns, NEW vs, NEW st, NEW tr, NEW sl, NEW as, NEW li,
         NEW b, Shows(b, lc, vo, vp, ns, vs, st, tr, sl, as, li), NEW t,
         NEW x \in as, \A y \in as : y.note \in ns, li \subseteq as
  PROVE  Shows(applyEvent(b, t, [kind |-> "note_unassigned", assignment |-> x]),
               lc, vo, vp, ns, vs, st, tr, sl, as \ {x}, li \ {x})
<1> DEFINE gone == {x}
<1>1. gone = {x} \cap b.assigned
  BY DEF Shows
<1>2. applyEvent(b, t, [kind |-> "note_unassigned", assignment |-> x]) = withoutAssignments(b, gone)
  BY <1>1 DEF applyEvent
<1> HIDE DEF gone
<1>3. Shows(withoutAssignments(b, gone), lc, vo, vp, ns, vs, st, tr, sl, as \ gone, li \ gone)
  BY OnWithout
<1> QED BY <1>2, <1>3 DEF gone

\* A deleted wave takes its slots and its assignments along.
LEMMA OnWaveDeleted ==
  ASSUME NEW lc, NEW vo, NEW vp, NEW ns, NEW vs, NEW st, NEW tr, NEW sl, NEW as, NEW li,
         NEW b, Shows(b, lc, vo, vp, ns, vs, st, tr, sl, as, li), NEW t, NEW w,
         \A y \in as : y.note \in ns, li \subseteq as
  PROVE  Shows(applyEvent(b, t, [kind |-> "wave_deleted", wave |-> w]),
               lc, vo, vp, ns, vs, [st EXCEPT ![w] = "absent"], [tr EXCEPT ![w] = 0],
               {s \in sl : s.wave # w}, as \ {x \in as : x.slot.wave = w},
               li \ {x \in as : x.slot.wave = w})
<1> DEFINE st2 == [st EXCEPT ![w] = "absent"]
           tr2 == [tr EXCEPT ![w] = 0]
           sl2 == {s \in sl : s.wave # w}
           gone == {x \in as : x.slot.wave = w}
           c == [b EXCEPT !.status[w] = "absent", !.tracks[w] = 0,
                          !.slots = {s \in @ : s.wave # w}]
<1>1. c = [b EXCEPT !.status = st2, !.tracks = tr2, !.slots = sl2]
  BY DEF Shows, IsBoard, Fields
<1>2. applyEvent(b, t, [kind |-> "wave_deleted", wave |-> w]) = withoutAssignments(c, gone)
  <2>1. gone = {x \in b.assigned : x.slot.wave = w}
    BY DEF Shows
  <2> HIDE DEF gone
  <2> QED BY <2>1 DEF applyEvent
<1> HIDE DEF st2, tr2, sl2, gone, c
<1>3. Shows(c, lc, vo, vp, ns, vs, st2, tr2, sl2, as, li)
  <2>1. IsBoard(c)
    BY <1>1 DEF Shows, IsBoard
  <2> QED BY <1>1, <2>1 DEF Shows, Fields, IsBoard
<1>4. Shows(withoutAssignments(c, gone), lc, vo, vp, ns, vs, st2, tr2, sl2, as \ gone, li \ gone)
  BY <1>3, OnWithout
<1> QED BY <1>2, <1>4 DEF st2, tr2, sl2, gone

\* Slots.
LEMMA OnSlot ==
  ASSUME NEW lc, NEW vo, NEW vp, NEW ns, NEW vs, NEW st, NEW tr, NEW sl, NEW as, NEW li,
         NEW b, Shows(b, lc, vo, vp, ns, vs, st, tr, sl, as, li), NEW t, NEW s,
         \A y \in as : y.note \in ns, li \subseteq as
  PROVE  /\ Shows(applyEvent(b, t, [kind |-> "slot_created", slot |-> s]),
                  lc, vo, vp, ns, vs, st, tr, sl \cup {s}, as, li)
         /\ (\A x \in as : x.slot # s) =>
              Shows(applyEvent(b, t, [kind |-> "slot_deleted", slot |-> s]),
                    lc, vo, vp, ns, vs, st, tr, sl \ {s}, as, li)
<1>1. ASSUME NEW sl2
      PROVE  Shows([b EXCEPT !.slots = sl2], lc, vo, vp, ns, vs, st, tr, sl2, as, li)
  <2>1. IsBoard([b EXCEPT !.slots = sl2])
    BY DEF Shows, IsBoard
  <2> QED BY <2>1 DEF Shows, Fields, IsBoard
<1>2. applyEvent(b, t, [kind |-> "slot_created", slot |-> s]) = [b EXCEPT !.slots = sl \cup {s}]
  BY DEF applyEvent, Shows
<1>3. ASSUME \A x \in as : x.slot # s
      PROVE  Shows(applyEvent(b, t, [kind |-> "slot_deleted", slot |-> s]),
                   lc, vo, vp, ns, vs, st, tr, sl \ {s}, as, li)
  <2> DEFINE c == [b EXCEPT !.slots = sl \ {s}]
             gone == {}
  <2>1. gone = {x \in b.assigned : x.slot = s}
    BY <1>3 DEF Shows
  <2>2. applyEvent(b, t, [kind |-> "slot_deleted", slot |-> s]) = withoutAssignments(c, gone)
    <3> HIDE DEF gone
    <3> QED BY <2>1 DEF applyEvent, Shows
  <2>3. Shows(c, lc, vo, vp, ns, vs, st, tr, sl \ {s}, as, li)
    BY <1>1
  <2> HIDE DEF c, gone
  <2>4. Shows(withoutAssignments(c, gone), lc, vo, vp, ns, vs, st, tr, sl \ {s}, as \ gone, li \ gone)
    BY <2>3, OnWithout
  <2>5. as \ gone = as /\ li \ gone = li
    BY DEF gone
  <2> QED BY <2>2, <2>4, <2>5
<1>4. Shows(applyEvent(b, t, [kind |-> "slot_created", slot |-> s]),
            lc, vo, vp, ns, vs, st, tr, sl \cup {s}, as, li)
  BY <1>1, <1>2
<1> QED BY <1>3, <1>4

\* Meeting links.
LEMMA OnLinks ==
  ASSUME NEW lc, NEW vo, NEW vp, NEW ns, NEW vs, NEW st, NEW tr, NEW sl, NEW as, NEW li,
         NEW b, Shows(b, lc, vo, vp, ns, vs, st, tr, sl, as, li), NEW t, NEW xs \in SUBSET as
  PROVE  Shows(applyEvent(b, t, [kind |-> "assignment_links_set", links |-> xs]),
               lc, vo, vp, ns, vs, st, tr, sl, as, li \cup xs)
<1> DEFINE li2 == li \cup xs
           c == [b EXCEPT !.linked = li2]
<1>1. b.linked \cup (xs \cap b.assigned) = li2
  BY DEF Shows
<1>2. applyEvent(b, t, [kind |-> "assignment_links_set", links |-> xs]) = c
  <2> HIDE DEF li2
  <2> QED BY <1>1 DEF applyEvent
<1> HIDE DEF li2
<1>3. IsBoard(c)
  BY DEF Shows, IsBoard
<1>4. Shows(c, lc, vo, vp, ns, vs, st, tr, sl, as, li2)
  BY <1>3 DEF Shows, Fields, IsBoard
<1> QED BY <1>2, <1>4 DEF li2

\* However many users are told their count, nothing else changes.
LEMMA AfterCounts ==
  ASSUME NEW lc, NEW vo, NEW vp, NEW ns, NEW vs, NEW st, NEW tr, NEW sl, NEW as, NEW li,
         NEW b, Shows(b, lc, vo, vp, ns, vs, st, tr, sl, as, li), NEW t,
         NEW m \in Nat, NEW es, DOMAIN es = 1 .. m, \A i \in 1 .. m : es[i].kind = "votes_used_set"
  PROVE  Shows(After(b, t, es), lc, vo, vp, ns, vs, st, tr, sl, as, li)
<1> DEFINE ok(c) == Shows(c, lc, vo, vp, ns, vs, st, tr, sl, as, li)
<1>1. PICK g : Publishing(g, b, t, es, m)
  BY FoldOfEvents
<1> DEFINE Good == {k \in Nat : k <= m => ok(g[k])}
<1>2. 0 \in Good
  BY <1>1 DEF Publishing
<1>3. ASSUME NEW k \in Good PROVE k + 1 \in Good
  <2>1. k \in Nat /\ (k <= m => ok(g[k]))
    OBVIOUS
  <2> SUFFICES ASSUME k + 1 <= m PROVE ok(g[k + 1])
    <3> HIDE DEF ok
    <3> QED BY <2>1
  <2>2. k + 1 \in 1 .. m /\ k + 1 - 1 = k /\ k <= m
    BY <2>1
  <2>3. g[k + 1] = applyEvent(g[k], t, es[k + 1]) /\ es[k + 1].kind = "votes_used_set"
    BY <1>1, <2>2 DEF Publishing
  <2> QED BY <2>1, <2>2, <2>3, OnVotesUsed
<1>4. Good = Nat
  <2>1. Good \in SUBSET Nat
    OBVIOUS
  <2> HIDE DEF Good
  <2> QED BY <1>2, <1>3, <2>1, Induct
<1>5. ok(g[m])
  <2>1. m \in Good /\ m <= m
    <3> HIDE DEF Good
    <3> QED BY <1>4
  <2> HIDE DEF ok
  <2> QED BY <2>1
<1> QED BY <1>1, <1>5 DEF Publishing

\* Notes unassigned one by one, in whatever order.
LEMMA AfterUnassigned ==
  ASSUME NEW lc, NEW vo, NEW vp, NEW ns, NEW vs, NEW st, NEW tr, NEW sl, NEW as, NEW li,
         NEW b, Shows(b, lc, vo, vp, ns, vs, st, tr, sl, as, li), NEW t,
         \A y \in as : y.note \in ns, li \subseteq as,
         NEW xs \in SUBSET as, IsFiniteSet(xs)
  PROVE  Shows(After(b, t, unassignedEvents(xs)), lc, vo, vp, ns, vs, st, tr, sl, as \ xs, li \ xs)
<1> DEFINE m == Cardinality(xs)
           q == SetToSeq(xs)
           es == unassignedEvents(xs)
           first(k) == {q[i] : i \in 1 .. k}
           ok(k, c) == Shows(c, lc, vo, vp, ns, vs, st, tr, sl, as \ first(k), li \ first(k))
<1>1. m \in Nat /\ q \in [1 .. m -> xs] /\ (\A x \in xs : \E i \in 1 .. m : q[i] = x)
      /\ IsInjective(q)
  BY SetInOrder
<1>2. /\ DOMAIN es = 1 .. m
      /\ \A i \in 1 .. m : es[i] = [kind |-> "note_unassigned", assignment |-> q[i]]
  <2>1. es = [i \in DOMAIN q |-> [kind |-> "note_unassigned", assignment |-> q[i]]]
    BY DEF unassignedEvents
  <2> HIDE DEF es, q, m
  <2> QED BY <1>1, <2>1
<1> HIDE DEF es, q, m
<1>3. PICK g : Publishing(g, b, t, es, m)
  BY <1>1, <1>2, FoldOfEvents
<1> DEFINE Good == {k \in Nat : k <= m => ok(k, g[k])}
<1>4. 0 \in Good
  <2>1. first(0) = {}
    <3>1. \A x : x \notin first(0)
      OBVIOUS
    <3> HIDE DEF first
    <3> QED BY <3>1, Zenon
  <2>2. as \ first(0) = as /\ li \ first(0) = li
    <3> HIDE DEF first
    <3> QED BY <2>1
  <2> HIDE DEF first
  <2> QED BY <1>3, <2>2 DEF Publishing
<1>5. ASSUME NEW k \in Good PROVE k + 1 \in Good
  <2>1. k \in Nat /\ (k <= m => ok(k, g[k]))
    <3> HIDE DEF first
    <3> QED OBVIOUS
  <2> SUFFICES ASSUME k + 1 <= m PROVE ok(k + 1, g[k + 1])
    <3> HIDE DEF ok
    <3> QED BY <2>1
  <2>2. k + 1 \in 1 .. m /\ k + 1 - 1 = k /\ k <= m
    BY <1>1, <2>1
  <2> DEFINE x == q[k + 1]
             e == [kind |-> "note_unassigned", assignment |-> x]
             old == as \ first(k)
             lnk == li \ first(k)
  <2>3. g[k + 1] = applyEvent(g[k], t, e)
    BY <1>2, <1>3, <2>2 DEF Publishing
  <2>4. x \in as /\ x \notin first(k)
    <3>1. x \in as
      BY <1>1, <2>2
    <3>2. \A i \in 1 .. k : i \in 1 .. m /\ i # k + 1
      BY <1>1, <2>1, <2>2
    <3>3. \A i, j \in 1 .. m : q[i] = q[j] => i = j
      BY <1>1 DEF IsInjective
    <3>4. \A i \in 1 .. k : q[i] # q[k + 1]
      BY <2>2, <3>2, <3>3
    <3> QED BY <3>1, <3>4
  <2>5. first(k + 1) = first(k) \cup {x}
    <3>1. \A i : i \in 1 .. k + 1 <=> i \in 1 .. k \/ i = k + 1
      BY <2>1
    <3> QED BY <3>1
  <2>6. Shows(g[k], lc, vo, vp, ns, vs, st, tr, sl, old, lnk)
    BY <2>1, <2>2
  <2>7. x \in old /\ (\A y \in old : y.note \in ns) /\ lnk \subseteq old
        /\ old \ {x} = as \ first(k + 1) /\ lnk \ {x} = li \ first(k + 1)
    <3> HIDE DEF first, x
    <3> QED BY <2>4, <2>5
  <2> HIDE DEF old, lnk, x, first
  <2>8. Shows(applyEvent(g[k], t, e), lc, vo, vp, ns, vs, st, tr, sl, old \ {x}, lnk \ {x})
    BY <2>6, <2>7, OnUnassigned
  <2> HIDE DEF e
  <2> QED BY <2>3, <2>7, <2>8
<1>6. Good = Nat
  <2>1. Good \in SUBSET Nat
    <3> HIDE DEF ok
    <3> QED OBVIOUS
  <2> HIDE DEF Good
  <2> QED BY <1>4, <1>5, <2>1, Induct
<1>7. ok(m, g[m])
  <2>1. m \in Good /\ m <= m
    <3> HIDE DEF Good
    <3> QED BY <1>1, <1>6
  <2> HIDE DEF ok
  <2> QED BY <2>1
<1>8. first(m) = xs
  BY <1>1
<1>9. After(b, t, es) = g[m]
  BY <1>3 DEF Publishing
<1> HIDE DEF first
<1> QED BY <1>7, <1>8, <1>9 DEF es

---------------------------------------------------------------------------
(* Every open browser shows the tables *)

NotesNow == {n \in Notes : Exists(n)}

Current(b) ==
  Shows(b, lifecycle, votingOpen, votesPerUser, NotesNow, votes, status, tracks, slots,
        assigned, linked)

\* With finitely many votes and assignments, what is announced one by one is
\* announced in full.
Seen == /\ IsFiniteSet(assigned) /\ IsFiniteSet(votes)
        /\ tab = [t \in Tabs |-> tab[t]]
        /\ \A t \in Tabs : Current(tab[t])

\* What a commit publishes reaches every browser.
LEMMA PublishFolds ==
  ASSUME NEW es, Publish(es)
  PROVE  tab' = [t \in Tabs |-> tab'[t]] /\ \A t \in Tabs : tab'[t] = After(tab[t], t, es)
<1>1. tab' = [t \in Tabs |-> After(tab[t], t, es)]
  BY DEF Publish, After
<1> QED BY <1>1

\* What a commit with one event publishes.
LEMMA PublishOne ==
  ASSUME NEW e, Publish(<<e>>)
  PROVE  /\ tab' = [t \in Tabs |-> tab'[t]]
         /\ \A t \in Tabs : tab'[t] = applyEvent(tab[t], t, e)
  BY PublishFolds, AfterOne

\* The notes of assignments exist.
LEMMA NotesThere ==
  ASSUME Inv
  PROVE  (\A y \in assigned : y.note \in NotesNow) /\ linked \subseteq assigned
<1>1. \A y \in assigned : y.note \in Notes /\ Exists(y.note)
  BY DEF Inv, TypeOK, GridSound, Assignment
<1> QED BY <1>1 DEF Inv, TypeOK, NotesNow

\* A snapshot shows the tables.
LEMMA SnapshotShows == ASSUME NEW t PROVE Current(Snapshot(t))
<1> DEFINE used == VotesCast(t)
           ns == {n \in Notes : Exists(n)}
           flags == {x.note : x \in assigned}
           b == [lifecycle |-> lifecycle, votingOpen |-> votingOpen, votesPerUser |-> votesPerUser,
                 notes |-> ns, votes |-> votes, status |-> status, tracks |-> tracks,
                 slots |-> slots, assigned |-> assigned, linked |-> linked,
                 scheduled |-> flags, votesUsed |-> used]
<1>1. Snapshot(t) = b
  BY DEF Snapshot
<1>2. ns = NotesNow /\ flags = {x.note : x \in assigned}
  BY DEF NotesNow
<1> HIDE DEF used, ns, flags
<1>3. /\ b.lifecycle = lifecycle /\ b.votingOpen = votingOpen
      /\ b.votesPerUser = votesPerUser /\ b.notes = ns /\ b.votes = votes
      /\ b.status = status /\ b.tracks = tracks
      /\ b.slots = slots /\ b.assigned = assigned /\ b.linked = linked /\ b.scheduled = flags
  OBVIOUS
<1>4. IsBoard(b)
  BY DEF IsBoard, Fields
<1> HIDE DEF b
<1> QED BY <1>1, <1>2, <1>3, <1>4 DEF Current, Shows

\* Commands about notes and votes.
LEMMA SeenNotes ==
  ASSUME Inv, Seen, NEW a \in Users, NoteCommand(a)
  PROVE  Seen'
<1>1. ASSUME NEW n \in Notes, CreateNote(a, n) PROVE Seen'
  <2>1. /\ UNCHANGED <<lifecycle, votingOpen, votesPerUser, votes, status, tracks>>
        /\ UNCHANGED <<slots, assigned, linked>>
        /\ Publish(<<[kind |-> "note_created", note |-> n]>>)
    BY <1>1 DEF CreateNote, settings, waveVars, gridVars
  <2>2. NotesNow' = NotesNow \cup {n}
    BY <1>1, ScheduleAssumption DEF CreateNote, NotesNow, Exists, Inv, TypeOK
  <2> QED BY <2>1, <2>2, PublishOne, OnNoteCreated DEF Seen, Current
<1>2. ASSUME NEW n \in Notes, DeleteNote(a, n) PROVE Seen'
  <2>1. /\ UNCHANGED <<lifecycle, votingOpen, votesPerUser, status, tracks, slots>>
        /\ votes' = {v \in votes : v[1] # n}
        /\ assigned' = {x \in assigned : x.note # n}
        /\ linked' = {x \in linked : x.note # n}
        /\ Publish(<<[kind |-> "note_deleted", note |-> n]>>)
    BY <1>2 DEF DeleteNote, settings, waveVars
  <2>2. NotesNow' = NotesNow \ {n} /\ n \in NotesNow
    BY <1>2, ScheduleAssumption DEF DeleteNote, NotesNow, Exists, Inv, TypeOK
  <2>3. IsFiniteSet(assigned') /\ IsFiniteSet(votes')
    <3>1. assigned' \in SUBSET assigned /\ votes' \in SUBSET votes
      BY <2>1
    <3> QED BY <3>1, FS_Subset DEF Seen
  <2>4. ASSUME NEW t \in Tabs PROVE Current(tab[t])'
    <3>1. Current(tab[t]) /\ tab'[t] = applyEvent(tab[t], t, [kind |-> "note_deleted", note |-> n])
      BY <2>1, PublishOne DEF Seen
    <3> QED BY <2>1, <2>2, <3>1, OnNoteDeleted DEF Current
  <2> QED BY <2>1, <2>3, <2>4, PublishOne DEF Seen
<1>3. ASSUME NEW n \in Notes, CastVote(a, n) PROVE Seen'
  <2>1. /\ UNCHANGED <<lifecycle, votingOpen, votesPerUser, NotesNow, status, tracks>>
        /\ UNCHANGED <<slots, assigned, linked>>
        /\ votes' = votes \cup {<<n, a>>} /\ n \in NotesNow
        /\ Publish(<<[kind |-> "vote_cast", note |-> n, by |-> a]>>)
    BY <1>3 DEF CastVote, MayCastVote, AuthorizeVote, settings, waveVars, gridVars, NotesNow, Exists
  <2>2. IsFiniteSet(votes')
    BY <2>1, FS_AddElement DEF Seen
  <2>3. ASSUME NEW t \in Tabs PROVE Current(tab[t])'
    <3> DEFINE e == [kind |-> "vote_cast", note |-> n, by |-> a]
    <3>1. Current(tab[t]) /\ tab'[t] = applyEvent(tab[t], t, e)
      BY <2>1, PublishOne DEF Seen
    <3>2. Current(tab[t])' <=>
            Shows(tab'[t], lifecycle', votingOpen', votesPerUser', NotesNow', votes', status',
                  tracks', slots', assigned', linked')
      BY DEF Current
    <3>3. Shows(applyEvent(tab[t], t, e), lifecycle', votingOpen', votesPerUser', NotesNow', votes',
                status', tracks', slots', assigned', linked')
      BY <2>1, <3>1, OnVote DEF Current
    <3> QED BY <3>1, <3>2, <3>3
  <2> QED BY <2>1, <2>2, <2>3, PublishOne DEF Seen
<1>4. ASSUME NEW n \in Notes, RetractVote(a, n) PROVE Seen'
  <2>1. /\ UNCHANGED <<lifecycle, votingOpen, votesPerUser, NotesNow, status, tracks>>
        /\ UNCHANGED <<slots, assigned, linked>>
        /\ votes' = votes \ {<<n, a>>} /\ n \in NotesNow
        /\ Publish(<<[kind |-> "vote_retracted", note |-> n, by |-> a]>>)
    BY <1>4 DEF RetractVote, MayRetractVote, AuthorizeVote, settings, waveVars, gridVars, NotesNow, Exists
  <2>2. IsFiniteSet(votes')
    BY <2>1, FS_RemoveElement DEF Seen
  <2>3. ASSUME NEW t \in Tabs PROVE Current(tab[t])'
    <3> DEFINE e == [kind |-> "vote_retracted", note |-> n, by |-> a]
    <3>1. Current(tab[t]) /\ tab'[t] = applyEvent(tab[t], t, e)
      BY <2>1, PublishOne DEF Seen
    <3>2. Current(tab[t])' <=>
            Shows(tab'[t], lifecycle', votingOpen', votesPerUser', NotesNow', votes', status',
                  tracks', slots', assigned', linked')
      BY DEF Current
    <3>3. Shows(applyEvent(tab[t], t, e), lifecycle', votingOpen', votesPerUser', NotesNow', votes',
                status', tracks', slots', assigned', linked')
      BY <2>1, <3>1, OnVote DEF Current
    <3> QED BY <3>1, <3>2, <3>3
  <2> QED BY <2>1, <2>2, <2>3, PublishOne DEF Seen
<1>5. ASSUME SetVoting(a) PROVE Seen'
  <2>1. /\ UNCHANGED <<lifecycle, votesPerUser, NotesNow, votes, status, tracks>>
        /\ UNCHANGED <<slots, assigned, linked>>
        /\ Publish(<<[kind |-> "voting_set", open |-> votingOpen']>>)
    BY <1>5 DEF SetVoting, noteVars, waveVars, gridVars, NotesNow, Exists
  <2>3. ASSUME NEW t \in Tabs PROVE Current(tab[t])'
    <3> DEFINE e == [kind |-> "voting_set", open |-> votingOpen']
    <3>1. Current(tab[t]) /\ tab'[t] = applyEvent(tab[t], t, e)
      BY <2>1, PublishOne DEF Seen
    <3>2. Current(tab[t])' <=>
            Shows(tab'[t], lifecycle', votingOpen', votesPerUser', NotesNow', votes', status',
                  tracks', slots', assigned', linked')
      BY DEF Current
    <3>3. Shows(applyEvent(tab[t], t, e), lifecycle', votingOpen', votesPerUser', NotesNow', votes',
                status', tracks', slots', assigned', linked')
      BY <2>1, <3>1, OnSettings DEF Current
    <3> QED BY <3>1, <3>2, <3>3
  <2> QED BY <2>1, <2>3, PublishOne DEF Seen
<1>6. ASSUME NEW n \in 1 .. MaxVotesPerUser, SetVotesPerUser(a, n) PROVE Seen'
  <2>1. /\ UNCHANGED <<lifecycle, votingOpen, NotesNow, votes, status, tracks>>
        /\ UNCHANGED <<slots, assigned, linked>> /\ votesPerUser' = n
        /\ Publish(<<[kind |-> "votes_per_user_set", n |-> n]>>)
    BY <1>6 DEF SetVotesPerUser, noteVars, waveVars, gridVars, NotesNow, Exists
  <2>3. ASSUME NEW t \in Tabs PROVE Current(tab[t])'
    <3> DEFINE e == [kind |-> "votes_per_user_set", n |-> n]
    <3>1. Current(tab[t]) /\ tab'[t] = applyEvent(tab[t], t, e)
      BY <2>1, PublishOne DEF Seen
    <3>2. Current(tab[t])' <=>
            Shows(tab'[t], lifecycle', votingOpen', votesPerUser', NotesNow', votes', status',
                  tracks', slots', assigned', linked')
      BY DEF Current
    <3>3. Shows(applyEvent(tab[t], t, e), lifecycle', votingOpen', votesPerUser', NotesNow', votes',
                status', tracks', slots', assigned', linked')
      BY <2>1, <3>1, OnSettings DEF Current
    <3> QED BY <3>1, <3>2, <3>3
  <2> QED BY <2>1, <2>3, PublishOne DEF Seen
<1>7. ASSUME NEW next \in {"active", "done"}, SetLifecycle(a, next) PROVE Seen'
  <2>1. /\ UNCHANGED <<votingOpen, votesPerUser, NotesNow, votes, status, tracks>>
        /\ UNCHANGED <<slots, assigned, linked>> /\ lifecycle' = next
        /\ Publish(<<[kind |-> "lifecycle_set", to |-> next]>>)
    BY <1>7 DEF SetLifecycle, noteVars, waveVars, gridVars, NotesNow, Exists
  <2>3. ASSUME NEW t \in Tabs PROVE Current(tab[t])'
    <3> DEFINE e == [kind |-> "lifecycle_set", to |-> next]
    <3>1. Current(tab[t]) /\ tab'[t] = applyEvent(tab[t], t, e)
      BY <2>1, PublishOne DEF Seen
    <3>2. Current(tab[t])' <=>
            Shows(tab'[t], lifecycle', votingOpen', votesPerUser', NotesNow', votes', status',
                  tracks', slots', assigned', linked')
      BY DEF Current
    <3>3. Shows(applyEvent(tab[t], t, e), lifecycle', votingOpen', votesPerUser', NotesNow', votes',
                status', tracks', slots', assigned', linked')
      BY <2>1, <3>1, OnSettings DEF Current
    <3> QED BY <3>1, <3>2, <3>3
  <2> QED BY <2>1, <2>3, PublishOne DEF Seen
<1> QED BY <1>1, <1>2, <1>3, <1>4, <1>5, <1>6, <1>7 DEF NoteCommand

\* The users who are told their count are finitely many.
LEMMA TellsFinitelyMany ==
  ASSUME IsFiniteSet(votes), NEW w
  PROVE  IsFiniteSet({u \in Users : \E x \in WaveAssignments(w) : u \in Voters(x.note)})
<1> DEFINE by == [v \in votes |-> v[2]]
           voters == {v[2] : v \in votes}
           told == {u \in Users : \E x \in WaveAssignments(w) : u \in Voters(x.note)}
<1>1. by \in Surjection(votes, voters)
  BY DEF Surjection
<1>2. told \in SUBSET voters
  <2>1. \A u \in told : \E n : <<n, u>> \in votes
    BY DEF Voters
  <2>2. \A n, u : <<n, u>> \in votes => u \in voters
    OBVIOUS
  <2> HIDE DEF told, voters
  <2> QED BY <2>1, <2>2
<1> HIDE DEF by, voters, told
<1>3. IsFiniteSet(voters)
  BY <1>1, FS_Surjection
<1> QED BY <1>2, <1>3, FS_Subset DEF told

\* The events of a lock: the new status, then counts.
LEMMA AfterLock ==
  ASSUME NEW lc, NEW vo, NEW vp, NEW ns, NEW vs, NEW st, NEW tr, NEW sl, NEW as, NEW li,
         NEW b, Shows(b, lc, vo, vp, ns, vs, st, tr, sl, as, li), NEW t,
         IsFiniteSet(votes), NEW w, NEW s
  PROVE  Shows(After(b, t, <<[kind |-> "wave_status_set", wave |-> w, status |-> s]>>
                             \o budgetUpdates(w)),
               lc, vo, vp, ns, vs, [st EXCEPT ![w] = s], tr, sl, as, li)
<1> DEFINE told == {u \in Users : \E x \in WaveAssignments(w) : u \in Voters(x.note)}
           us == SetToSeq(told)
           m == Cardinality(told)
           f == budgetUpdates(w)
           e == [kind |-> "wave_status_set", wave |-> w, status |-> s]
           st2 == [st EXCEPT ![w] = s]
<1>1. m \in Nat /\ us \in [1 .. m -> told]
  <2>1. IsFiniteSet(told)
    BY TellsFinitelyMany
  <2> HIDE DEF told
  <2> QED BY <2>1, SetInOrder
<1>2. DOMAIN f = 1 .. m /\ \A i \in 1 .. m : f[i].kind = "votes_used_set"
  <2>1. f = [i \in DOMAIN us |->
               [kind |-> "votes_used_set", onlyUser |-> us[i], used |-> VotesCast(us[i])']]
    BY DEF budgetUpdates
  <2>2. DOMAIN us = 1 .. m
    <3> HIDE DEF us, m, told
    <3> QED BY <1>1
  <2> HIDE DEF us, m, f
  <2> QED BY <2>1, <2>2
<1>3. Shows(applyEvent(b, t, e), lc, vo, vp, ns, vs, st2, tr, sl, as, li)
  <2> HIDE DEF told, us, m, f
  <2> QED BY OnWave
<1> DEFINE E == {f[i] : i \in 1 .. m}
<1>4. f \in [1 .. m -> E]
  <2>1. f = [i \in DOMAIN f |-> f[i]]
    BY DEF budgetUpdates
  <2> HIDE DEF f, m
  <2> QED BY <1>2, <2>1
<1> HIDE DEF told, us, m, f, e, st2, E
<1>5. After(b, t, Prepended(e, f)) = After(applyEvent(b, t, e), t, f)
  BY <1>1, <1>4, AfterFirst
<1>6. Shows(After(applyEvent(b, t, e), t, f), lc, vo, vp, ns, vs, st2, tr, sl, as, li)
  BY <1>1, <1>2, <1>3, AfterCounts
<1> QED BY <1>5, <1>6 DEF Prepended, f, e, st2

\* Commands about waves.
LEMMA SeenWaves ==
  ASSUME Inv, Seen, NEW a \in Users, NEW w \in WaveIds,
         \/ \E k \in 1 .. MaxTracks : CreateWave(a, w, k) \/ UpdateWave(a, w, k)
         \/ \E next \in {"open", "locked", "done"} : SetWaveStatus(a, w, next)
         \/ DeleteWave(a, w) \/ ClearWave(a, w)
  PROVE  Seen'
<1> DEFINE ShowsNext(b) == Shows(b, lifecycle', votingOpen', votesPerUser', NotesNow', votes',
                                 status', tracks', slots', assigned', linked')
<1>0. \A t : Current(tab[t])' <=> ShowsNext(tab'[t])
  BY DEF Current
<1>1. ASSUME NEW k \in 1 .. MaxTracks, CreateWave(a, w, k) PROVE Seen'
  <2> DEFINE e == [kind |-> "wave_created", wave |-> w, status |-> "planned", tracks |-> k]
  <2>1. /\ UNCHANGED <<lifecycle, votingOpen, votesPerUser, NotesNow, votes>>
        /\ UNCHANGED <<slots, assigned, linked>>
        /\ status' = [status EXCEPT ![w] = "planned"] /\ tracks' = [tracks EXCEPT ![w] = k]
        /\ Publish(<<e>>)
    BY <1>1 DEF CreateWave, settings, noteVars, gridVars, waveEvent, NotesNow, Exists
  <2>2. ASSUME NEW t \in Tabs PROVE Current(tab[t])'
    <3>1. Current(tab[t]) /\ tab'[t] = applyEvent(tab[t], t, e)
      BY <2>1, PublishOne DEF Seen
    <3>2. ShowsNext(applyEvent(tab[t], t, e))
      BY <2>1, <3>1, OnWave DEF Current
    <3> QED BY <1>0, <3>1, <3>2
  <2> QED BY <2>1, <2>2, PublishOne DEF Seen
<1>2. ASSUME NEW k \in 1 .. MaxTracks, UpdateWave(a, w, k) PROVE Seen'
  <2> DEFINE s == status[w]
             e == [kind |-> "wave_updated", wave |-> w, status |-> s, tracks |-> k]
  <2>1. /\ UNCHANGED <<lifecycle, votingOpen, votesPerUser, NotesNow, votes>>
        /\ UNCHANGED <<slots, assigned, linked, status>>
        /\ tracks' = [tracks EXCEPT ![w] = k]
        /\ Publish(<<e>>)
    BY <1>2 DEF UpdateWave, settings, noteVars, gridVars, waveEvent, NotesNow, Exists
  <2>2. status' = [status EXCEPT ![w] = s]
    BY <2>1 DEF Inv, TypeOK
  <2> HIDE DEF s
  <2>3. ASSUME NEW t \in Tabs PROVE Current(tab[t])'
    <3>1. Current(tab[t]) /\ tab'[t] = applyEvent(tab[t], t, e)
      BY <2>1, PublishOne DEF Seen
    <3>2. ShowsNext(applyEvent(tab[t], t, e))
      <4>1. Shows(applyEvent(tab[t], t, e), lifecycle, votingOpen, votesPerUser, NotesNow, votes,
                  [status EXCEPT ![w] = s], [tracks EXCEPT ![w] = k], slots, assigned, linked)
        BY <3>1, OnWave DEF Current
      <4> QED BY <2>1, <2>2, <4>1
    <3> QED BY <1>0, <3>1, <3>2
  <2> QED BY <2>1, <2>3, PublishOne DEF Seen
<1>3. ASSUME NEW next \in {"open", "locked", "done"}, SetWaveStatus(a, w, next) PROVE Seen'
  <2> DEFINE e == [kind |-> "wave_status_set", wave |-> w, status |-> next]
  <2>1. /\ UNCHANGED <<lifecycle, votingOpen, votesPerUser, NotesNow, votes>>
        /\ UNCHANGED <<tracks, slots, assigned, linked>>
        /\ status' = [status EXCEPT ![w] = next]
        /\ Publish(<<e>>) \/ Publish(<<e>> \o budgetUpdates(w))
    BY <1>3 DEF SetWaveStatus, settings, noteVars, gridVars, NotesNow, Exists
  <2>2. CASE Publish(<<e>>)
    <3>1. ASSUME NEW t \in Tabs PROVE Current(tab[t])'
      <4>1. Current(tab[t]) /\ tab'[t] = applyEvent(tab[t], t, e)
        BY <2>2, PublishOne DEF Seen
      <4>2. ShowsNext(applyEvent(tab[t], t, e))
        BY <2>1, <4>1, OnWave DEF Current
      <4> QED BY <1>0, <4>1, <4>2
    <3> QED BY <2>1, <2>2, <3>1, PublishOne DEF Seen
  <2>3. CASE Publish(<<e>> \o budgetUpdates(w))
    <3> DEFINE es == <<e>> \o budgetUpdates(w)
    <3>1. ASSUME NEW t \in Tabs PROVE Current(tab[t])'
      <4>1. Current(tab[t]) /\ tab'[t] = After(tab[t], t, es)
        <5> HIDE DEF es
        <5> QED BY <2>3, PublishFolds DEF Seen, es
      <4>2. ShowsNext(After(tab[t], t, es))
        BY <2>1, <4>1, AfterLock DEF Current, Seen
      <4> HIDE DEF es, e
      <4> QED BY <1>0, <4>1, <4>2
    <3> HIDE DEF es
    <3>2. tab' = [t \in Tabs |-> tab'[t]]
      BY <2>3, PublishFolds DEF es
    <3> QED BY <2>1, <3>1, <3>2 DEF Seen
  <2> QED BY <2>1, <2>2, <2>3
<1>4. ASSUME DeleteWave(a, w) PROVE Seen'
  <2> DEFINE e == [kind |-> "wave_deleted", wave |-> w]
             gone == {x \in assigned : x.slot.wave = w}
  <2>1. /\ UNCHANGED <<lifecycle, votingOpen, votesPerUser, NotesNow, votes>>
        /\ status' = [status EXCEPT ![w] = "absent"] /\ tracks' = [tracks EXCEPT ![w] = 0]
        /\ slots' = {s \in slots : s.wave # w}
        /\ assigned' = assigned \ gone /\ linked' = linked \ gone
        /\ Publish(<<e>>)
    BY <1>4 DEF DeleteWave, settings, noteVars, NotesNow, Exists, WaveAssignments
  <2>2. ASSUME NEW t \in Tabs PROVE Current(tab[t])'
    <3>1. Current(tab[t]) /\ tab'[t] = applyEvent(tab[t], t, e)
      BY <2>1, PublishOne DEF Seen
    <3>2. ShowsNext(applyEvent(tab[t], t, e))
      <4>1. Shows(applyEvent(tab[t], t, e), lifecycle, votingOpen, votesPerUser, NotesNow, votes,
                  [status EXCEPT ![w] = "absent"], [tracks EXCEPT ![w] = 0],
                  {s \in slots : s.wave # w}, assigned \ gone, linked \ gone)
        BY <3>1, NotesThere, OnWaveDeleted DEF Current
      <4> HIDE DEF e, gone
      <4> QED BY <2>1, <4>1
    <3> QED BY <1>0, <3>1, <3>2
  <2>3. IsFiniteSet(assigned')
    <3>1. assigned' \in SUBSET assigned
      BY <2>1
    <3> QED BY <3>1, FS_Subset DEF Seen
  <2> QED BY <2>1, <2>2, <2>3, PublishOne DEF Seen
<1>5. ASSUME ClearWave(a, w) PROVE Seen'
  <2> DEFINE xs == WaveAssignments(w)
             es == unassignedEvents(xs)
  <2>1. /\ UNCHANGED <<lifecycle, votingOpen, votesPerUser, NotesNow, votes>>
        /\ UNCHANGED <<status, tracks, slots>>
        /\ assigned' = assigned \ xs /\ linked' = linked \ xs
        /\ Publish(es)
    BY <1>5 DEF ClearWave, settings, noteVars, waveVars, NotesNow, Exists
  <2>2. xs \in SUBSET assigned
    BY DEF WaveAssignments
  <2> HIDE DEF xs
  <2>3. IsFiniteSet(xs) /\ IsFiniteSet(assigned')
    <3>1. assigned' \in SUBSET assigned
      BY <2>1
    <3> QED BY <2>2, <3>1, FS_Subset DEF Seen
  <2>4. ASSUME NEW t \in Tabs PROVE Current(tab[t])'
    <3>1. Current(tab[t]) /\ tab'[t] = After(tab[t], t, es)
      BY <2>1, PublishFolds DEF Seen
    <3>2. ShowsNext(After(tab[t], t, es))
      BY <2>1, <2>2, <2>3, <3>1, NotesThere, AfterUnassigned DEF Current
    <3> QED BY <1>0, <3>1, <3>2
  <2> QED BY <2>1, <2>3, <2>4, PublishFolds DEF Seen
<1> QED BY <1>1, <1>2, <1>3, <1>4, <1>5

\* Commands about slots and assignments.
LEMMA SeenGrid ==
  ASSUME Inv, Seen, NEW a \in Users,
         \/ \E w \in WaveIds, id \in SlotIds, start, end \in Times : CreateSlot(a, w, id, start, end)
         \/ \E s \in slots :
              \/ DeleteSlot(a, s)
              \/ \E n \in Notes, k \in 1 .. MaxTracks : AssignNote(a, n, s, k)
         \/ \E x \in assigned : UnassignNote(a, x)
  PROVE  Seen'
<1> DEFINE ShowsNext(b) == Shows(b, lifecycle', votingOpen', votesPerUser', NotesNow', votes',
                                 status', tracks', slots', assigned', linked')
<1>0. \A t : Current(tab[t])' <=> ShowsNext(tab'[t])
  BY DEF Current
<1>1. ASSUME NEW w \in WaveIds, NEW id \in SlotIds, NEW start \in Times, NEW end \in Times,
             CreateSlot(a, w, id, start, end)
      PROVE  Seen'
  <2> DEFINE slot == [id |-> id, wave |-> w, start |-> Timestamp(start), end |-> Timestamp(end)]
  <2>1. /\ UNCHANGED <<lifecycle, votingOpen, votesPerUser, NotesNow, votes>>
        /\ UNCHANGED <<status, tracks, assigned, linked>>
        /\ slots' = slots \cup {slot}
        /\ Publish(<<[kind |-> "slot_created", slot |-> slot]>>)
    BY <1>1 DEF CreateSlot, settings, noteVars, waveVars, NotesNow, Exists
  <2> HIDE DEF slot
  <2> DEFINE e == [kind |-> "slot_created", slot |-> slot]
  <2>2. ASSUME NEW t \in Tabs PROVE Current(tab[t])'
    <3>1. Current(tab[t]) /\ tab'[t] = applyEvent(tab[t], t, e)
      BY <2>1, PublishOne DEF Seen
    <3>2. Shows(applyEvent(tab[t], t, e), lifecycle, votingOpen, votesPerUser, NotesNow, votes,
                status, tracks, slots \cup {slot}, assigned, linked)
      BY <3>1, NotesThere, OnSlot DEF Current
    <3> HIDE DEF e
    <3> QED BY <1>0, <2>1, <3>1, <3>2
  <2> QED BY <2>1, <2>2, PublishOne DEF Seen
<1>2. ASSUME NEW s \in slots, DeleteSlot(a, s) PROVE Seen'
  <2> DEFINE e == [kind |-> "slot_deleted", slot |-> s]
  <2>1. /\ UNCHANGED <<lifecycle, votingOpen, votesPerUser, NotesNow, votes>>
        /\ UNCHANGED <<status, tracks, assigned, linked>>
        /\ slots' = slots \ {s} /\ \A x \in assigned : x.slot # s
        /\ Publish(<<e>>)
    BY <1>2 DEF DeleteSlot, settings, noteVars, waveVars, NotesNow, Exists
  <2>2. ASSUME NEW t \in Tabs PROVE Current(tab[t])'
    <3>1. Current(tab[t]) /\ tab'[t] = applyEvent(tab[t], t, e)
      BY <2>1, PublishOne DEF Seen
    <3>2. Shows(applyEvent(tab[t], t, e), lifecycle, votingOpen, votesPerUser, NotesNow, votes,
                status, tracks, slots \ {s}, assigned, linked)
      BY <2>1, <3>1, NotesThere, OnSlot DEF Current
    <3> HIDE DEF e
    <3> QED BY <1>0, <2>1, <3>1, <3>2
  <2> QED BY <2>1, <2>2, PublishOne DEF Seen
<1>3. ASSUME NEW s \in slots, NEW n \in Notes, NEW k \in 1 .. MaxTracks, AssignNote(a, n, s, k)
      PROVE  Seen'
  <2> DEFINE x == [note |-> n, slot |-> s, track |-> k]
             old == {y \in WaveAssignments(s.wave) : y.note = n}
             e == [kind |-> "note_assigned", assignment |-> x]
             f == unassignedEvents(old)
             es == Append(f, e)
             as == assigned \ old
             li == linked \ old
  <2>1. /\ UNCHANGED <<lifecycle, votingOpen, votesPerUser, NotesNow, votes>>
        /\ UNCHANGED <<status, tracks, slots>>
        /\ assigned' = as \cup {x} /\ linked' = li
        /\ Publish(es) /\ n \in NotesNow
    BY <1>3 DEF AssignNote, MayAssign, settings, noteVars, waveVars, NotesNow, Exists
  <2>2. old \in SUBSET assigned /\ x.note = n
    BY DEF WaveAssignments
  <2> HIDE DEF x, old, f
  <2>3. IsFiniteSet(old) /\ IsFiniteSet(assigned')
    <3>1. as \in SUBSET assigned
      OBVIOUS
    <3>2. IsFiniteSet(as)
      BY <3>1, FS_Subset DEF Seen
    <3> QED BY <2>1, <2>2, <3>2, FS_AddElement, FS_Subset DEF Seen
  <2>4. Cardinality(old) \in Nat /\ \E E : f \in [1 .. Cardinality(old) -> E]
    <3> DEFINE q == SetToSeq(old)
               m == Cardinality(old)
               E == {[kind |-> "note_unassigned", assignment |-> y] : y \in old}
    <3>1. q \in [1 .. m -> old] /\ m \in Nat
      BY <2>3, SetInOrder
    <3>2. f = [i \in DOMAIN q |-> [kind |-> "note_unassigned", assignment |-> q[i]]]
      BY DEF f, unassignedEvents
    <3> HIDE DEF q, m
    <3>3. f \in [1 .. m -> E]
      BY <3>1, <3>2
    <3> HIDE DEF E
    <3> QED BY <3>1, <3>3 DEF m
  <2>5. ASSUME NEW t \in Tabs PROVE Current(tab[t])'
    <3>1. Current(tab[t]) /\ tab'[t] = After(tab[t], t, es)
      BY <2>1, PublishFolds DEF Seen
    <3>2. Shows(After(tab[t], t, f), lifecycle, votingOpen, votesPerUser, NotesNow, votes,
                status, tracks, slots, as, li)
      BY <2>2, <2>3, <3>1, NotesThere, AfterUnassigned DEF Current, f
    <3>3. After(tab[t], t, es) = applyEvent(After(tab[t], t, f), t, e)
      <4> HIDE DEF e
      <4> QED BY <2>4, AfterLast
    <3>4. Shows(applyEvent(After(tab[t], t, f), t, e), lifecycle, votingOpen, votesPerUser,
                NotesNow, votes, status, tracks, slots, as \cup {x}, li)
      <4>1. x.note \in NotesNow /\ (\A y \in as : y.note \in NotesNow) /\ li \subseteq as
        BY <2>1, <2>2, NotesThere
      <4> HIDE DEF as, li
      <4> QED BY <3>2, <4>1, OnAssigned
    <3> HIDE DEF e, es, as, li
    <3> QED BY <1>0, <2>1, <3>1, <3>3, <3>4
  <2> QED BY <2>1, <2>3, <2>5, PublishFolds DEF Seen
<1>4. ASSUME NEW x \in assigned, UnassignNote(a, x) PROVE Seen'
  <2> DEFINE xs == {x}
             es == unassignedEvents(xs)
  <2>1. /\ UNCHANGED <<lifecycle, votingOpen, votesPerUser, NotesNow, votes>>
        /\ UNCHANGED <<status, tracks, slots>>
        /\ assigned' = assigned \ xs /\ linked' = linked \ xs
        /\ Publish(es)
    BY <1>4 DEF UnassignNote, settings, noteVars, waveVars, NotesNow, Exists
  <2>2. xs \in SUBSET assigned
    OBVIOUS
  <2> HIDE DEF xs
  <2>3. IsFiniteSet(xs) /\ IsFiniteSet(assigned')
    <3>1. assigned' \in SUBSET assigned
      BY <2>1
    <3> QED BY <2>2, <3>1, FS_Subset DEF Seen
  <2>4. ASSUME NEW t \in Tabs PROVE Current(tab[t])'
    <3>1. Current(tab[t]) /\ tab'[t] = After(tab[t], t, es)
      BY <2>1, PublishFolds DEF Seen
    <3>2. ShowsNext(After(tab[t], t, es))
      BY <2>1, <2>2, <2>3, <3>1, NotesThere, AfterUnassigned DEF Current
    <3> QED BY <1>0, <3>1, <3>2
  <2> QED BY <2>1, <2>3, <2>4, PublishFolds DEF Seen
<1> QED BY <1>1, <1>2, <1>3, <1>4

\* The calendar, restarts and reloads.
LEMMA SeenOthers ==
  ASSUME Inv, Seen,
         \/ \E w \in WaveIds : LinksArrive(w) \/ CallFails(w)
         \/ Restart
         \/ \E t \in Tabs : Reload(t)
         \/ UNCHANGED vars
  PROVE  Seen'
<1>1. ASSUME NEW w \in WaveIds, LinksArrive(w) PROVE Seen'
  <2> DEFINE saved == booking[w] \cap assigned
             e == [kind |-> "assignment_links_set", links |-> saved]
  <2>1. /\ UNCHANGED <<lifecycle, votingOpen, votesPerUser, NotesNow, votes>>
        /\ UNCHANGED <<status, tracks, slots, assigned>>
        /\ linked' = linked \cup saved
        /\ Publish(IF saved = {} THEN <<>> ELSE <<e>>)
    BY <1>1 DEF LinksArrive, settings, noteVars, waveVars, NotesNow, Exists
  <2>2. saved \in SUBSET assigned
    OBVIOUS
  <2> HIDE DEF saved
  <2>3. tab' = [t \in Tabs |-> tab'[t]]
    BY <2>1, PublishFolds
  <2>4. ASSUME NEW t \in Tabs PROVE Current(tab[t])'
    <3>1. Current(tab[t])
      BY DEF Seen
    <3>2. CASE saved = {}
      <4>1. tab'[t] = After(tab[t], t, <<>>) /\ linked' = linked
        BY <2>1, <3>2, PublishFolds
      <4>2. tab'[t] = tab[t]
        BY <4>1, AfterNone
      <4> QED BY <2>1, <3>1, <4>1, <4>2 DEF Current
    <3>3. CASE saved # {}
      <4>1. tab'[t] = applyEvent(tab[t], t, e)
        BY <2>1, <3>3, PublishOne
      <4>2. Shows(applyEvent(tab[t], t, e), lifecycle, votingOpen, votesPerUser, NotesNow, votes,
                  status, tracks, slots, assigned, linked \cup saved)
        BY <2>2, <3>1, OnLinks DEF Current
      <4> HIDE DEF e
      <4> QED BY <2>1, <4>1, <4>2 DEF Current
    <3> QED BY <3>2, <3>3
  <2> QED BY <2>1, <2>3, <2>4 DEF Seen
<1>2. ASSUME \/ \E w \in WaveIds : CallFails(w)
             \/ Restart
             \/ UNCHANGED vars
      PROVE  Seen'
  <2>1. UNCHANGED <<settings, noteVars, waveVars, gridVars, tab>>
    BY <1>2 DEF CallFails, Restart, vars
  <2> QED BY <2>1 DEF settings, noteVars, waveVars, gridVars, Seen, Current, NotesNow, Exists
<1>3. ASSUME NEW t \in Tabs, Reload(t) PROVE Seen'
  <2>1. tab' = [tab EXCEPT ![t] = Snapshot(t)] /\ UNCHANGED <<settings, noteVars, waveVars, gridVars>>
    BY <1>3 DEF Reload
  <2>2. /\ tab' = [u \in Tabs |-> tab'[u]]
        /\ \A u \in Tabs : tab'[u] = IF u = t THEN Snapshot(t) ELSE tab[u]
    BY <2>1 DEF Seen
  <2>3. \A u \in Tabs : Current(tab'[u])
    BY <2>2, SnapshotShows DEF Seen
  <2>4. \A b : Current(b)' <=> Current(b')
    BY <2>1 DEF settings, noteVars, waveVars, gridVars, Current, NotesNow, Exists
  <2>5. \A u \in Tabs : Current(tab[u])'
    BY <2>1, <2>3 DEF settings, noteVars, waveVars, gridVars, Current, NotesNow, Exists
  <2> QED BY <2>1, <2>2, <2>5 DEF Seen, settings, noteVars, waveVars, gridVars
<1> QED BY <1>1, <1>2, <1>3

\* Boards that show the same tables differ at most in the user's own count.
LEMMA SameBoard ==
  ASSUME NEW lc, NEW vo, NEW vp, NEW ns, NEW vs, NEW st, NEW tr, NEW sl, NEW as, NEW li,
         NEW b, Shows(b, lc, vo, vp, ns, vs, st, tr, sl, as, li),
         NEW c, Shows(c, lc, vo, vp, ns, vs, st, tr, sl, as, li)
  PROVE  [b EXCEPT !.votesUsed = 0] = [c EXCEPT !.votesUsed = 0]
<1> DEFINE d == [b EXCEPT !.votesUsed = 0]
           e == [c EXCEPT !.votesUsed = 0]
<1>1. d = [k \in Fields |-> d[k]] /\ e = [k \in Fields |-> e[k]]
  BY DEF Shows, IsBoard
<1>2. \A k \in Fields : d[k] = e[k]
  BY DEF Shows, IsBoard, Fields
<1> HIDE DEF d, e
<1>3. [k \in Fields |-> d[k]] = [k \in Fields |-> e[k]]
  BY <1>2
<1> QED BY <1>1, <1>3 DEF d, e

\* Every browser starts with a snapshot.
LEMMA SeenInit == Init => Seen
<1> SUFFICES ASSUME Init PROVE Seen
  OBVIOUS
<1>1. tab = [t \in Tabs |-> Snapshot(t)] /\ assigned = {} /\ votes = {}
  BY DEF Init
<1> QED BY <1>1, SnapshotShows, FS_EmptySet DEF Seen

\* Every step keeps it.
LEMMA SeenStep == Inv /\ Seen /\ [Next]_vars => Seen'
  BY SeenNotes, SeenWaves, SeenGrid, SeenOthers DEF Next, ScheduleCommand

\* Whatever the commands, restarts and reloads, every open browser shows
\* exactly what a snapshot would, up to the user's own count of votes.
THEOREM BoardsMatch == Spec => []BoardMatches
<1>1. Seen => BoardMatches
  <2> SUFFICES ASSUME Seen, NEW t \in Tabs
               PROVE  [tab[t] EXCEPT !.votesUsed = 0] = [Snapshot(t) EXCEPT !.votesUsed = 0]
    BY DEF BoardMatches
  <2>1. Current(tab[t]) /\ Current(Snapshot(t))
    BY SnapshotShows DEF Seen
  <2> QED BY <2>1, SameBoard DEF Current
<1> QED BY <1>1, SeenInit, SeenStep, AlwaysInv, PTL DEF Spec

---------------------------------------------------------------------------
(* A user's votes, on the server and in their own browser *)

\* Notes that somebody voted for are finitely many.
LEMMA VotedFinitelyMany ==
  ASSUME NEW vs, IsFiniteSet(vs), NEW N, \A n \in N : \E u : <<n, u>> \in vs
  PROVE  IsFiniteSet(N)
<1> DEFINE on == [v \in vs |-> v[1]]
           voted == {v[1] : v \in vs}
<1>1. on \in Surjection(vs, voted)
  BY DEF Surjection
<1>2. N \in SUBSET voted
  <2>1. \A n, u : <<n, u>> \in vs => n \in voted
    OBVIOUS
  <2> HIDE DEF voted
  <2> QED BY <2>1
<1> HIDE DEF on, voted
<1>3. IsFiniteSet(voted)
  BY <1>1, FS_Surjection
<1> QED BY <1>2, <1>3, FS_Subset

\* The count of votes is a number, before and after a step.
LEMMA CountIsNat ==
  ASSUME NEW u
  PROVE  /\ IsFiniteSet(votes) =>
              IsFiniteSet(Counted(u)) /\ VotesCast(u) \in Nat /\ VotesCast(u) = Cardinality(Counted(u))
         /\ IsFiniteSet(votes') =>
              /\ IsFiniteSet(Counted(u)') /\ VotesCast(u)' \in Nat
              /\ VotesCast(u)' = Cardinality(Counted(u)')
<1>1. \A n \in Counted(u) : <<n, u>> \in votes
  BY DEF Counted
<1>2. \A n \in Counted(u)' : <<n, u>> \in votes'
  BY DEF Counted
<1>3. VotesCast(u) = Cardinality(Counted(u)) /\ VotesCast(u)' = Cardinality(Counted(u)')
  BY DEF Counted, VotesCast
<1>4. IsFiniteSet(votes) => IsFiniteSet(Counted(u))
  BY <1>1, VotedFinitelyMany
<1>5. IsFiniteSet(votes') => IsFiniteSet(Counted(u)')
  BY <1>2, VotedFinitelyMany
<1> QED BY <1>3, <1>4, <1>5, FS_CardinalityType

\* Events that do not touch the user's own count.
Quiet == {"note_created", "lifecycle_set", "voting_set", "votes_per_user_set", "wave_created",
          "wave_updated", "wave_status_set", "wave_deleted", "slot_created", "slot_deleted",
          "note_assigned", "note_unassigned", "assignment_links_set"}

\* A change to another field.
LEMMA OtherField ==
  ASSUME NEW b, IsBoard(b), NEW k \in Fields \ {"votesUsed"}, NEW v
  PROVE  IsBoard([b EXCEPT ![k] = v]) /\ [b EXCEPT ![k] = v].votesUsed = b.votesUsed
<1>1. "votesUsed" \in Fields
  BY DEF Fields
<1> QED BY <1>1 DEF IsBoard

\* Such an event leaves the count alone.
LEMMA OnQuiet ==
  ASSUME NEW b, IsBoard(b), NEW t, NEW e, e.kind \in Quiet
  PROVE  IsBoard(applyEvent(b, t, e)) /\ applyEvent(b, t, e).votesUsed = b.votesUsed
<1> DEFINE ok(c) == IsBoard(c) /\ c.votesUsed = b.votesUsed
<1>0. ok(b)
  OBVIOUS
<1>1. ASSUME NEW c, ok(c), NEW k \in Fields \ {"votesUsed"}, NEW v PROVE ok([c EXCEPT ![k] = v])
  BY <1>1, OtherField
<1> HIDE DEF ok
<1>2. ASSUME NEW c, ok(c), NEW xs, NEW N PROVE ok(withAssignments(c, xs, N))
  <2> DEFINE flags == (c.scheduled \ N) \cup {n \in N \cap c.notes : \E x \in xs : x.note = n}
             li == c.linked \cap xs
             c1 == [c EXCEPT !.assigned = xs]
             c2 == [c1 EXCEPT !.linked = li]
             c3 == [c2 EXCEPT !.scheduled = flags]
  <2>1. withAssignments(c, xs, N) = c3
    BY <1>2 DEF withAssignments, ok, IsBoard, Fields
  <2>2. ok(c1)
    BY <1>1, <1>2 DEF Fields
  <2> HIDE DEF c1
  <2>3. ok(c2)
    BY <1>1, <2>2 DEF Fields
  <2> HIDE DEF c2
  <2>4. ok(c3)
    BY <1>1, <2>3 DEF Fields
  <2> QED BY <2>1, <2>4
<1>3. ASSUME NEW c, ok(c), NEW gone PROVE ok(withoutAssignments(c, gone))
  BY <1>2, <1>3 DEF withoutAssignments
<1>4. CASE e.kind = "note_created"
  BY <1>0, <1>1, <1>4 DEF applyEvent, Fields, ok
<1>5. CASE e.kind \in {"lifecycle_set", "voting_set", "votes_per_user_set"}
  <2>1. CASE e.kind = "lifecycle_set"
    <3> DEFINE v == e.to
               c == [b EXCEPT !.lifecycle = v]
    <3>1. applyEvent(b, t, e) = c
      BY <2>1 DEF applyEvent
    <3> HIDE DEF v
    <3>2. ok(c)
      BY <1>0, <1>1 DEF Fields
    <3> QED BY <3>1, <3>2 DEF ok
  <2>2. CASE e.kind = "voting_set"
    <3> DEFINE v == e.open
               c == [b EXCEPT !.votingOpen = v]
    <3>1. applyEvent(b, t, e) = c
      BY <2>2 DEF applyEvent
    <3> HIDE DEF v
    <3>2. ok(c)
      BY <1>0, <1>1 DEF Fields
    <3> QED BY <3>1, <3>2 DEF ok
  <2>3. CASE e.kind = "votes_per_user_set"
    <3> DEFINE v == e.n
               c == [b EXCEPT !.votesPerUser = v]
    <3>1. applyEvent(b, t, e) = c
      BY <2>3 DEF applyEvent
    <3> HIDE DEF v
    <3>2. ok(c)
      BY <1>0, <1>1 DEF Fields
    <3> QED BY <3>1, <3>2 DEF ok
  <2> QED BY <1>5, <2>1, <2>2, <2>3
<1>6. CASE e.kind \in {"wave_created", "wave_updated"}
  <2> DEFINE c == [b EXCEPT !.status = [@ EXCEPT ![e.wave] = e.status]]
             v == [b.tracks EXCEPT ![e.wave] = e.tracks]
  <2>1. applyEvent(b, t, e) = [c EXCEPT !.tracks = v]
    BY <1>6 DEF applyEvent, IsBoard, Fields
  <2>2. ok(c)
    BY <1>0, <1>1 DEF Fields
  <2> HIDE DEF c, v
  <2> QED BY <1>1, <2>1, <2>2 DEF Fields, ok
<1>7. CASE e.kind = "wave_status_set"
  <2> DEFINE st == [b.status EXCEPT ![e.wave] = e.status]
             c == [b EXCEPT !.status = st]
  <2>1. applyEvent(b, t, e) = c
    BY <1>7 DEF applyEvent, IsBoard, Fields
  <2>2. ok(c)
    BY <1>0, <1>1 DEF Fields
  <2> HIDE DEF c
  <2> QED BY <2>1, <2>2 DEF ok
<1>8. CASE e.kind = "wave_deleted"
  <2> DEFINE st == [b.status EXCEPT ![e.wave] = "absent"]
             tr == [b.tracks EXCEPT ![e.wave] = 0]
             sl == {s \in b.slots : s.wave # e.wave}
             c1 == [b EXCEPT !.status = st]
             c2 == [c1 EXCEPT !.tracks = tr]
             c3 == [c2 EXCEPT !.slots = sl]
             gone == {x \in b.assigned : x.slot.wave = e.wave}
  <2>1. applyEvent(b, t, e) = withoutAssignments(c3, gone)
    <3>1. applyEvent(b, t, e) =
            withoutAssignments([b EXCEPT !.status[e.wave] = "absent", !.tracks[e.wave] = 0,
                                         !.slots = {s \in @ : s.wave # e.wave}], gone)
      BY <1>8 DEF applyEvent
    <3>2. [b EXCEPT !.status[e.wave] = "absent", !.tracks[e.wave] = 0,
                    !.slots = {s \in @ : s.wave # e.wave}] = c3
      BY DEF IsBoard, Fields
    <3> QED BY <3>1, <3>2
  <2>2. ok(c1)
    BY <1>0, <1>1 DEF Fields
  <2> HIDE DEF c1, gone
  <2>3. ok(c2)
    BY <1>1, <2>2 DEF Fields
  <2> HIDE DEF c2
  <2>4. ok(c3)
    BY <1>1, <2>3 DEF Fields
  <2> HIDE DEF c3
  <2> QED BY <1>3, <2>1, <2>4 DEF ok
<1>9. CASE e.kind = "slot_created"
  BY <1>0, <1>1, <1>9 DEF applyEvent, Fields, ok
<1>10. CASE e.kind = "slot_deleted"
  <2> DEFINE c == [b EXCEPT !.slots = @ \ {e.slot}]
  <2>1. applyEvent(b, t, e) = withoutAssignments(c, {x \in b.assigned : x.slot = e.slot})
    BY <1>10 DEF applyEvent
  <2>2. ok(c)
    BY <1>0, <1>1 DEF Fields
  <2> HIDE DEF c
  <2> QED BY <1>3, <2>1, <2>2 DEF ok
<1>11. CASE e.kind = "note_assigned"
  BY <1>0, <1>2, <1>11 DEF applyEvent, ok
<1>12. CASE e.kind = "note_unassigned"
  BY <1>0, <1>3, <1>12 DEF applyEvent, ok
<1>13. CASE e.kind = "assignment_links_set"
  BY <1>0, <1>1, <1>13 DEF applyEvent, Fields, ok
<1> QED BY <1>4, <1>5, <1>6, <1>7, <1>8, <1>9, <1>10, <1>11, <1>12, <1>13 DEF Quiet

\* Nor does a sequence of such events.
LEMMA AfterQuiet ==
  ASSUME NEW b, IsBoard(b), NEW t, NEW m \in Nat, NEW es, DOMAIN es = 1 .. m,
         \A i \in 1 .. m : es[i].kind \in Quiet
  PROVE  IsBoard(After(b, t, es)) /\ After(b, t, es).votesUsed = b.votesUsed
<1> DEFINE ok(c) == IsBoard(c) /\ c.votesUsed = b.votesUsed
<1>1. PICK g : Publishing(g, b, t, es, m)
  BY FoldOfEvents
<1> DEFINE Good == {k \in Nat : k <= m => ok(g[k])}
<1>2. 0 \in Good
  BY <1>1 DEF Publishing
<1>3. ASSUME NEW k \in Good PROVE k + 1 \in Good
  <2>1. k \in Nat /\ (k <= m => ok(g[k]))
    OBVIOUS
  <2> SUFFICES ASSUME k + 1 <= m PROVE ok(g[k + 1])
    <3> HIDE DEF ok
    <3> QED BY <2>1
  <2>2. k + 1 \in 1 .. m /\ k + 1 - 1 = k /\ k <= m
    BY <2>1
  <2>3. g[k + 1] = applyEvent(g[k], t, es[k + 1]) /\ es[k + 1].kind \in Quiet
    BY <1>1, <2>2 DEF Publishing
  <2> QED BY <2>1, <2>2, <2>3, OnQuiet
<1>4. Good = Nat
  <2>1. Good \in SUBSET Nat
    OBVIOUS
  <2> HIDE DEF Good
  <2> QED BY <1>2, <1>3, <2>1, Induct
<1>5. ok(g[m])
  <2>1. m \in Good /\ m <= m
    <3> HIDE DEF Good
    <3> QED BY <1>4
  <2> HIDE DEF ok
  <2> QED BY <2>1
<1> QED BY <1>1, <1>5 DEF Publishing

\* These m events tell users their counts, and t, if told, this count.
Counts(es, m, t, used) ==
  /\ m \in Nat /\ DOMAIN es = 1 .. m
  /\ \A i \in 1 .. m : /\ es[i].kind = "votes_used_set"
                       /\ es[i].onlyUser = t => es[i].used = used

Told(es, m, t) == \E i \in 1 .. m : es[i].onlyUser = t

\* A user who is told a count has it afterwards; another one has the old one.
LEMMA AfterTold ==
  ASSUME NEW b, IsBoard(b), NEW t, NEW m, NEW es, NEW used, Counts(es, m, t, used)
  PROVE  After(b, t, es).votesUsed = IF Told(es, m, t) THEN used ELSE b.votesUsed
<1> USE DEF Counts, Told
<1> DEFINE ok(c, k) ==
             /\ IsBoard(c)
             /\ c.votesUsed = IF \E i \in 1 .. k : es[i].onlyUser = t THEN used ELSE b.votesUsed
<1>1. PICK g : Publishing(g, b, t, es, m)
  <2>1. m \in Nat /\ DOMAIN es = 1 .. m
    OBVIOUS
  <2> QED BY <2>1, FoldOfEvents
<1> DEFINE Good == {k \in Nat : k <= m => ok(g[k], k)}
<1>2. 0 \in Good
  <2>1. \A i : i \notin 1 .. 0
    OBVIOUS
  <2> QED BY <1>1, <2>1 DEF Publishing
<1>3. ASSUME NEW k \in Good PROVE k + 1 \in Good
  <2>1. k \in Nat /\ (k <= m => ok(g[k], k))
    OBVIOUS
  <2> SUFFICES ASSUME k + 1 <= m PROVE ok(g[k + 1], k + 1)
    <3> HIDE DEF ok
    <3> QED BY <2>1
  <2>2. /\ k + 1 \in 1 .. m /\ k + 1 - 1 = k /\ k <= m
        /\ \A i : i \in 1 .. k + 1 <=> i \in 1 .. k \/ i = k + 1
    BY <2>1
  <2>3. ok(g[k], k)
    <3> HIDE DEF ok
    <3> QED BY <2>1, <2>2
  <2> DEFINE c == g[k]
             e == es[k + 1]
  <2>4. /\ g[k + 1] = applyEvent(c, t, e) /\ e.kind = "votes_used_set"
        /\ e.onlyUser = t => e.used = used
    BY <1>1, <2>2 DEF Publishing
  <2> HIDE DEF c, e
  <2>5. applyEvent(c, t, e) = IF e.onlyUser = t THEN [c EXCEPT !.votesUsed = e.used] ELSE c
    BY <2>4 DEF applyEvent
  <2>6. /\ IsBoard(c)
        /\ c.votesUsed = IF \E i \in 1 .. k : es[i].onlyUser = t THEN used ELSE b.votesUsed
    BY <2>3 DEF c
  <2>7. CASE e.onlyUser = t
    <3>1. applyEvent(c, t, e) = [c EXCEPT !.votesUsed = used]
      BY <2>4, <2>5, <2>7
    <3>2. IsBoard([c EXCEPT !.votesUsed = used]) /\ [c EXCEPT !.votesUsed = used].votesUsed = used
      BY <2>6 DEF IsBoard, Fields
    <3>3. \E i \in 1 .. k + 1 : es[i].onlyUser = t
      BY <2>2, <2>7 DEF e
    <3> QED BY <2>4, <3>1, <3>2, <3>3
  <2>8. CASE e.onlyUser # t
    <3>1. (\E i \in 1 .. k + 1 : es[i].onlyUser = t) <=> (\E i \in 1 .. k : es[i].onlyUser = t)
      BY <2>2, <2>8 DEF e
    <3> QED BY <2>4, <2>5, <2>6, <2>8, <3>1
  <2> QED BY <2>7, <2>8
<1>4. Good = Nat
  <2>1. Good \in SUBSET Nat
    OBVIOUS
  <2> HIDE DEF Good
  <2> QED BY <1>2, <1>3, <2>1, Induct
<1>5. ok(g[m], m)
  <2>1. m \in Good /\ m <= m
    <3> HIDE DEF Good
    <3> QED BY <1>4
  <2> HIDE DEF ok
  <2> QED BY <2>1
<1> QED BY <1>1, <1>5 DEF Publishing

\* Notes taken out of the schedule leave the count alone, whatever follows.
LEMMA AfterTakenOut ==
  ASSUME NEW b, IsBoard(b), NEW t, NEW xs, IsFiniteSet(xs), NEW e, e.kind \in Quiet
  PROVE  /\ After(b, t, unassignedEvents(xs)).votesUsed = b.votesUsed
         /\ After(b, t, Append(unassignedEvents(xs), e)).votesUsed = b.votesUsed
<1> DEFINE q == SetToSeq(xs)
           m == Cardinality(xs)
           f == unassignedEvents(xs)
           E == {[kind |-> "note_unassigned", assignment |-> y] : y \in xs}
<1>1. q \in [1 .. m -> xs] /\ m \in Nat
  BY SetInOrder
<1>2. f = [i \in DOMAIN q |-> [kind |-> "note_unassigned", assignment |-> q[i]]]
  BY DEF unassignedEvents
<1> HIDE DEF q, m, f
<1>3. f \in [1 .. m -> E]
  BY <1>1, <1>2
<1>4. DOMAIN f = 1 .. m /\ \A i \in 1 .. m : f[i].kind \in Quiet
  <2>1. \A y \in E : y.kind \in Quiet
    BY DEF Quiet
  <2> HIDE DEF E
  <2> QED BY <1>3, <2>1
<1> HIDE DEF E
<1>5. IsBoard(After(b, t, f)) /\ After(b, t, f).votesUsed = b.votesUsed
  BY <1>1, <1>4, AfterQuiet
<1>6. After(b, t, Append(f, e)) = applyEvent(After(b, t, f), t, e)
  BY <1>1, <1>3, AfterLast
<1>7. applyEvent(After(b, t, f), t, e).votesUsed = After(b, t, f).votesUsed
  BY <1>5, OnQuiet
<1> QED BY <1>5, <1>6, <1>7 DEF f

\* The user's own vote is counted.
LEMMA OnOwnVote ==
  ASSUME NEW b, IsBoard(b), NEW t, NEW n \in b.notes, NEW a
  PROVE  applyEvent(b, t, [kind |-> "vote_cast", note |-> n, by |-> a]).votesUsed
           = IF a = t /\ <<n, t>> \notin b.votes THEN b.votesUsed + 1 ELSE b.votesUsed
<1> DEFINE more == IF a = t /\ <<n, t>> \notin b.votes THEN b.votesUsed + 1 ELSE b.votesUsed
           with == b.votes \cup {<<n, a>>}
<1>1. applyEvent(b, t, [kind |-> "vote_cast", note |-> n, by |-> a])
        = [b EXCEPT !.votes = with, !.votesUsed = more]
  BY DEF applyEvent, voteChanged
<1>2. "votesUsed" \in Fields
  BY DEF Fields
<1> HIDE DEF more, with
<1>3. [b EXCEPT !.votes = with, !.votesUsed = more].votesUsed = more
  BY <1>2 DEF IsBoard
<1> QED BY <1>1, <1>3 DEF more

\* Taken back, it is not counted any more.
LEMMA OnOwnRetracted ==
  ASSUME NEW b, IsBoard(b), NEW t, NEW n \in b.notes, NEW a
  PROVE  applyEvent(b, t, [kind |-> "vote_retracted", note |-> n, by |-> a]).votesUsed
           = IF a = t /\ <<n, t>> \in b.votes THEN b.votesUsed - 1 ELSE b.votesUsed
<1> DEFINE less == IF a = t /\ <<n, t>> \in b.votes THEN b.votesUsed - 1 ELSE b.votesUsed
           has == <<n, t>> \in b.votes
           changed == a = t /\ FALSE # has
           without == b.votes \ {<<n, a>>}
<1>1. applyEvent(b, t, [kind |-> "vote_retracted", note |-> n, by |-> a])
        = voteChanged(b, t, n, a, FALSE)
  BY DEF applyEvent
<1>2. voteChanged(b, t, n, a, FALSE)
        = [b EXCEPT !.votes = without,
                    !.votesUsed = IF ~changed THEN b.votesUsed ELSE b.votesUsed - 1]
  BY DEF voteChanged
<1>3. less = IF ~changed THEN b.votesUsed ELSE b.votesUsed - 1
  <2>1. has \in BOOLEAN
    OBVIOUS
  <2>2. CASE has = TRUE
    BY <2>2
  <2>3. CASE has = FALSE
    BY <2>3
  <2> QED BY <2>1, <2>2, <2>3
<1>4. "votesUsed" \in Fields
  BY DEF Fields
<1> HIDE DEF less, changed, without
<1>5. [b EXCEPT !.votes = without, !.votesUsed = less].votesUsed = less
  BY <1>4 DEF IsBoard
<1>6. voteChanged(b, t, n, a, FALSE).votesUsed = less
  BY <1>2, <1>3, <1>5
<1> QED BY <1>1, <1>6 DEF less

\* Deleted with its note, it is not counted any more.
LEMMA OnOwnDeleted ==
  ASSUME NEW b, IsBoard(b), NEW t, NEW n \in b.notes
  PROVE  applyEvent(b, t, [kind |-> "note_deleted", note |-> n]).votesUsed
           = LET mine == IF <<n, t>> \in b.votes THEN 1 ELSE 0
             IN  IF b.votesUsed > mine THEN b.votesUsed - mine ELSE 0
<1> DEFINE mine == IF <<n, t>> \in b.votes THEN 1 ELSE 0
           left == IF b.votesUsed > mine THEN b.votesUsed - mine ELSE 0
<1>1. applyEvent(b, t, [kind |-> "note_deleted", note |-> n]) = noteDeleted(b, t, n)
  BY DEF applyEvent
<1>2. noteDeleted(b, t, n) =
        [b EXCEPT !.notes = @ \ {n},
                  !.votes = {v \in @ : v[1] # n},
                  !.scheduled = @ \ {n},
                  !.assigned = {x \in @ : x.note # n},
                  !.linked = {x \in @ : x.note # n},
                  !.votesUsed = left]
  BY DEF noteDeleted
<1> HIDE DEF left
<1>3. noteDeleted(b, t, n).votesUsed = left
  BY <1>2 DEF IsBoard, Fields
<1> QED BY <1>1, <1>3 DEF left

\* No browser counts more of its user's votes than the server does.  (It may
\* count less: the deletion of a note of a closed wave refunds a vote twice.)
CountsNoMore == \A t \in Tabs : tab[t].votesUsed \in Int /\ tab[t].votesUsed <= VotesCast(t)

\* The count moves with the votes that count.
LEMMA CountMoves ==
  ASSUME Seen, Seen', NEW t
  PROVE  /\ VotesCast(t) \in Nat /\ VotesCast(t)' \in Nat
         /\ Counted(t)' = Counted(t) => VotesCast(t)' = VotesCast(t)
         /\ \A n \in Counted(t) : Counted(t)' = Counted(t) \ {n} => VotesCast(t)' = VotesCast(t) - 1
         /\ \A n : n \notin Counted(t) /\ Counted(t)' = Counted(t) \cup {n}
                     => VotesCast(t)' = VotesCast(t) + 1
<1>1. /\ IsFiniteSet(Counted(t)) /\ VotesCast(t) = Cardinality(Counted(t)) /\ VotesCast(t) \in Nat
      /\ VotesCast(t)' = Cardinality(Counted(t)') /\ VotesCast(t)' \in Nat
  BY CountIsNat DEF Seen
<1> QED BY <1>1, FS_AddElement, FS_RemoveElement

\* The same, with the set of the other events left out.
LEMMA AfterFirstOf ==
  ASSUME NEW b, NEW t, NEW e, NEW m \in Nat, NEW f, f = [i \in 1 .. m |-> f[i]]
  PROVE  After(b, t, Prepended(e, f)) = After(applyEvent(b, t, e), t, f)
<1> DEFINE E == {f[i] : i \in 1 .. m}
<1>1. f \in [1 .. m -> E]
  OBVIOUS
<1> HIDE DEF E
<1> QED BY <1>1, AfterFirst

\* Of an event and the counts that follow it: everybody with a vote for a
\* session of the wave is told the count after the lock.
LEMMA LockTells ==
  ASSUME NEW b, IsBoard(b), NEW t \in Users,
         IsFiniteSet(votes), votes' = votes, assigned' = assigned,
         NEW e, e.kind \in Quiet, NEW w, NEW used, used = VotesCast(t)'
  PROVE  After(b, t, <<e>> \o budgetUpdates(w)).votesUsed
           = IF \E x \in WaveAssignments(w) : t \in Voters(x.note) THEN used ELSE b.votesUsed
<1> DEFINE told == {u \in Users : \E x \in WaveAssignments(w) : u \in Voters(x.note)}
           us == SetToSeq(told)
           m == Cardinality(told)
           f == budgetUpdates(w)
           c == applyEvent(b, t, e)
<1>1. m \in Nat /\ us \in [1 .. m -> told] /\ \A u \in told : \E i \in 1 .. m : us[i] = u
  <2>1. IsFiniteSet(told)
    BY TellsFinitelyMany
  <2> HIDE DEF told
  <2> QED BY <2>1, SetInOrder
<1>2. us' = us
  <2>1. told' = told
    BY DEF WaveAssignments, Voters
  <2> HIDE DEF told
  <2> QED BY <2>1
<1>3. f = [i \in DOMAIN us |->
             [kind |-> "votes_used_set", onlyUser |-> us[i], used |-> VotesCast(us[i])']]
  BY DEF budgetUpdates
<1>4. ASSUME NEW i, us[i] = t PROVE VotesCast(us[i])' = used
  <2>1. us'[i] = t
    BY <1>2, <1>4
  <2> HIDE DEF us
  <2> QED BY <2>1 DEF VotesCast
<1>5. c = applyEvent(b, t, e) /\ IsBoard(c) /\ c.votesUsed = b.votesUsed
  BY OnQuiet
<1> HIDE DEF us, m, f, told
<1>6. /\ DOMAIN f = 1 .. m /\ m \in Nat
      /\ \A i \in 1 .. m : f[i].onlyUser = us[i]
      /\ Counts(f, m, t, used)
  BY <1>1, <1>3, <1>4 DEF Counts
<1>7. f = [i \in 1 .. m |-> f[i]]
  BY <1>3, <1>6
<1> HIDE DEF c
<1>8. After(b, t, Prepended(e, f)) = After(c, t, f)
  <2>1. m \in Nat
    BY <1>6
  <2>2. After(b, t, Prepended(e, f)) = After(applyEvent(b, t, e), t, f)
    BY <1>7, <2>1, AfterFirstOf
  <2> QED BY <1>5, <2>2
<1>9. After(c, t, f).votesUsed = IF Told(f, m, t) THEN used ELSE c.votesUsed
  BY <1>5, <1>6, AfterTold
<1>10. Told(f, m, t) <=> t \in told
  BY <1>1, <1>6 DEF Told
<1>11. t \in told <=> \E x \in WaveAssignments(w) : t \in Voters(x.note)
  BY DEF told
<1> QED BY <1>5, <1>8, <1>9, <1>10, <1>11 DEF Prepended, f

\* A lock refunds the votes of its sessions, and tells everybody concerned.
LEMMA LockCounts ==
  ASSUME Inv, Seen, NEW t \in Tabs, NEW a \in Users, NEW w \in WaveIds,
         NEW next \in {"open", "locked", "done"}, SetWaveStatus(a, w, next)
  PROVE  \/ Counted(t)' = Counted(t) /\ tab'[t].votesUsed = tab[t].votesUsed
         \/ tab'[t].votesUsed = VotesCast(t)'
<1> DEFINE e == [kind |-> "wave_status_set", wave |-> w, status |-> next]
<1>1. \/ status[w] = "planned" /\ next = "open"
      \/ status[w] = "open" /\ next = "locked"
      \/ status[w] = "locked" /\ next = "done"
  BY WaveSteps DEF SetWaveStatus, Inv
<1>2. /\ votes' = votes /\ assigned' = assigned /\ status' = [status EXCEPT ![w] = next]
      /\ \/ next # "locked" /\ Publish(<<e>>)
         \/ next = "locked" /\ Publish(<<e>> \o budgetUpdates(w))
  BY DEF SetWaveStatus, noteVars, gridVars
<1>3. IsBoard(tab[t]) /\ e.kind \in Quiet /\ t \in Users
  BY ScheduleAssumption DEF Seen, Current, Shows, Quiet
<1>4. \A v \in WaveIds : status'[v] = IF v = w THEN next ELSE status[v]
  BY <1>2 DEF Inv, TypeOK
<1>5. \A x \in assigned : x.slot.wave \in WaveIds
  BY DEF Inv, TypeOK, Assignment, Slot
<1> HIDE DEF e
<1>6. CASE next # "locked"
  <2>1. Counted(t)' = Counted(t)
    BY <1>1, <1>2, <1>4, <1>5, <1>6 DEF Counted, ScheduledInClosedWave, Closed
  <2>2. tab'[t] = applyEvent(tab[t], t, e)
    BY <1>2, <1>6, PublishOne
  <2> QED BY <1>3, <2>1, <2>2, OnQuiet
<1>7. CASE next = "locked"
  <2> DEFINE es == <<e>> \o budgetUpdates(w)
             voter == \E x \in WaveAssignments(w) : t \in Voters(x.note)
  <2>1. tab'[t] = After(tab[t], t, es)
    <3>1. Publish(es)
      BY <1>2, <1>7
    <3> HIDE DEF es
    <3> QED BY <3>1, PublishFolds
  <2>2. \A b, used : IsBoard(b) /\ used = VotesCast(t)'
                       => After(b, t, es).votesUsed = IF voter THEN used ELSE b.votesUsed
    BY <1>2, <1>3, LockTells DEF Seen
  <2> HIDE DEF es, voter
  <2>3. tab'[t].votesUsed = IF voter THEN VotesCast(t)' ELSE tab[t].votesUsed
    BY <1>3, <2>1, <2>2
  <2>4. CASE ~voter
    <3>1. \A n \in Notes : <<n, t>> \in votes => \A x \in assigned : x.note = n => x.slot.wave # w
      BY <1>3, <2>4 DEF voter, WaveAssignments, Voters
    <3>2. Counted(t)' = Counted(t)
      BY <1>1, <1>2, <1>4, <1>5, <1>7, <3>1 DEF Counted, ScheduledInClosedWave, Closed
    <3> QED BY <2>3, <2>4, <3>2
  <2> QED BY <2>3, <2>4
<1> QED BY <1>6, <1>7

Counting(t) == tab'[t].votesUsed \in Int /\ tab'[t].votesUsed <= VotesCast(t)'

\* What a step without votes for t leaves alone.
Untouched(t) == Counted(t)' = Counted(t) /\ tab'[t].votesUsed = tab[t].votesUsed

\* Such a step keeps the browser's count below the server's.
LEMMA StillCounting ==
  ASSUME Seen, Seen', CountsNoMore, NEW t \in Tabs, Untouched(t)
  PROVE  Counting(t)
  BY CountMoves DEF Untouched, Counting, CountsNoMore

\* One event that is not about votes.
LEMMA QuietStep ==
  ASSUME Seen, NEW t \in Tabs, NEW e, e.kind \in Quiet, Publish(<<e>>), Counted(t)' = Counted(t)
  PROVE  Untouched(t)
<1>1. IsBoard(tab[t]) /\ tab'[t] = applyEvent(tab[t], t, e)
  BY PublishOne DEF Seen, Current, Shows
<1> QED BY <1>1, OnQuiet DEF Untouched

\* Only closed waves matter to the count.
LEMMA SameClosed ==
  ASSUME NEW t, votes' = votes,
         \A x \in assigned \cup assigned' :
           (x \in assigned /\ Closed(x.slot.wave)) <=> (x \in assigned' /\ Closed(x.slot.wave)')
  PROVE  Counted(t)' = Counted(t)
<1>1. \A n : ScheduledInClosedWave(n)' <=> ScheduledInClosedWave(n)
  BY DEF ScheduledInClosedWave
<1> QED BY <1>1 DEF Counted

\* Votes and deletions: the browser and the server count alike, unless the
\* vote counted only in the browser.
LEMMA VoteCounts ==
  ASSUME Inv, Seen, Seen', CountsNoMore, NEW t \in Tabs, NEW a \in Users, NEW n \in Notes,
         DeleteNote(a, n) \/ CastVote(a, n) \/ RetractVote(a, n)
  PROVE  Counting(t)
<1> DEFINE used == tab[t].votesUsed
           next == tab'[t].votesUsed
<1>1. /\ IsBoard(tab[t]) /\ tab[t].votes = votes /\ tab[t].notes = NotesNow
      /\ used \in Int /\ used <= VotesCast(t)
  BY DEF Seen, Current, Shows, CountsNoMore
<1>2. VotesCast(t) \in Nat /\ VotesCast(t)' \in Nat
  BY CountMoves
<1>3. CASE DeleteNote(a, n)
  <2>1. n \in tab[t].notes /\ tab'[t] = applyEvent(tab[t], t, [kind |-> "note_deleted", note |-> n])
    BY <1>1, <1>3, PublishOne DEF DeleteNote, NotesNow
  <2> DEFINE mine == IF <<n, t>> \in votes THEN 1 ELSE 0
  <2>2. next = IF used > mine THEN used - mine ELSE 0
    <3>1. applyEvent(tab[t], t, [kind |-> "note_deleted", note |-> n]).votesUsed
            = LET own == IF <<n, t>> \in tab[t].votes THEN 1 ELSE 0
              IN  IF tab[t].votesUsed > own THEN tab[t].votesUsed - own ELSE 0
      BY <1>1, <2>1, OnOwnDeleted
    <3> QED BY <1>1, <2>1, <3>1
  <2>3. Counted(t)' = Counted(t) \ {n}
    <3>1. /\ votes' = {v \in votes : v[1] # n} /\ assigned' = {x \in assigned : x.note # n}
          /\ status' = status
      BY <1>3 DEF DeleteNote, waveVars
    <3>2. \A m \in Notes : <<m, t>> \in votes' <=> <<m, t>> \in votes /\ m # n
      BY <3>1
    <3>3. \A m \in Notes : m # n => (ScheduledInClosedWave(m)' <=> ScheduledInClosedWave(m))
      BY <3>1 DEF ScheduledInClosedWave, Closed
    <3> QED BY <3>2, <3>3 DEF Counted
  <2>4. VotesCast(t)' \in {VotesCast(t), VotesCast(t) - mine}
    <3>1. CASE n \in Counted(t)
      <4>1. mine = 1
        BY <3>1 DEF Counted
      <4> QED BY <2>3, <3>1, <4>1, CountMoves
    <3>2. CASE n \notin Counted(t)
      BY <2>3, <3>2, CountMoves
    <3> QED BY <3>1, <3>2
  <2> HIDE DEF used, next
  <2> QED BY <1>1, <1>2, <2>2, <2>4 DEF Counting, next, used
<1>4. ASSUME CastVote(a, n) \/ RetractVote(a, n), a # t PROVE Untouched(t)
  <2>1. n \in tab[t].notes
    BY <1>1, <1>4 DEF CastVote, MayCastVote, RetractVote, MayRetractVote, AuthorizeVote, NotesNow
  <2>2. next = used
    <3>1. \/ tab'[t] = applyEvent(tab[t], t, [kind |-> "vote_cast", note |-> n, by |-> a])
          \/ tab'[t] = applyEvent(tab[t], t, [kind |-> "vote_retracted", note |-> n, by |-> a])
      BY <1>4, PublishOne DEF CastVote, RetractVote
    <3>2. /\ applyEvent(tab[t], t, [kind |-> "vote_cast", note |-> n, by |-> a]).votesUsed
               = IF a = t /\ <<n, t>> \notin tab[t].votes THEN tab[t].votesUsed + 1
                 ELSE tab[t].votesUsed
          /\ applyEvent(tab[t], t, [kind |-> "vote_retracted", note |-> n, by |-> a]).votesUsed
               = IF a = t /\ <<n, t>> \in tab[t].votes THEN tab[t].votesUsed - 1
                 ELSE tab[t].votesUsed
      BY <1>1, <2>1, OnOwnVote, OnOwnRetracted
    <3> QED BY <1>4, <3>1, <3>2
  <2>3. /\ votes' = votes \cup {<<n, a>>} \/ votes' = votes \ {<<n, a>>}
        /\ status' = status /\ assigned' = assigned
    BY <1>4 DEF CastVote, RetractVote, waveVars, gridVars
  <2>4. Counted(t)' = Counted(t)
    BY <1>4, <2>3 DEF Counted, ScheduledInClosedWave, Closed
  <2> QED BY <2>2, <2>4 DEF Untouched
<1>5. CASE CastVote(a, n) /\ a = t
  <2>1. /\ n \in tab[t].notes /\ <<n, t>> \notin votes /\ ~ScheduledInClosedWave(n)
        /\ votes' = votes \cup {<<n, t>>} /\ status' = status /\ assigned' = assigned
        /\ tab'[t] = applyEvent(tab[t], t, [kind |-> "vote_cast", note |-> n, by |-> t])
    BY <1>1, <1>5, PublishOne DEF CastVote, MayCastVote, AuthorizeVote, NotesNow, waveVars, gridVars
  <2>2. next = used + 1
    BY <1>1, <2>1, OnOwnVote
  <2>3. n \notin Counted(t) /\ Counted(t)' = Counted(t) \cup {n}
    BY <2>1 DEF Counted, ScheduledInClosedWave, Closed
  <2>4. VotesCast(t)' = VotesCast(t) + 1
    BY <2>3, CountMoves
  <2> HIDE DEF used, next
  <2> QED BY <1>1, <1>2, <2>2, <2>4 DEF Counting, next, used
<1>6. CASE RetractVote(a, n) /\ a = t
  <2>1. /\ n \in tab[t].notes /\ <<n, t>> \in votes /\ ~ScheduledInClosedWave(n)
        /\ votes' = votes \ {<<n, t>>} /\ status' = status /\ assigned' = assigned
        /\ tab'[t] = applyEvent(tab[t], t, [kind |-> "vote_retracted", note |-> n, by |-> t])
    BY <1>1, <1>6, PublishOne
    DEF RetractVote, MayRetractVote, AuthorizeVote, NotesNow, waveVars, gridVars
  <2>2. next = used - 1
    <3>1. applyEvent(tab[t], t, [kind |-> "vote_retracted", note |-> n, by |-> t]).votesUsed
            = IF t = t /\ <<n, t>> \in tab[t].votes THEN tab[t].votesUsed - 1 ELSE tab[t].votesUsed
      BY <1>1, <2>1, OnOwnRetracted
    <3> QED BY <1>1, <2>1, <3>1
  <2>3. n \in Counted(t) /\ Counted(t)' = Counted(t) \ {n}
    BY <2>1 DEF Counted, ScheduledInClosedWave, Closed
  <2>4. VotesCast(t)' = VotesCast(t) - 1
    BY <2>3, CountMoves
  <2> HIDE DEF used, next
  <2> QED BY <1>1, <1>2, <2>2, <2>4 DEF Counting, next, used
<1> QED BY <1>3, <1>4, <1>5, <1>6, StillCounting

\* Every step leaves the browser's count at most the server's.
LEMMA CountStep ==
  ASSUME Inv, Seen, Seen', CountsNoMore, [Next]_vars
  PROVE  CountsNoMore'
<1> SUFFICES ASSUME NEW t \in Tabs PROVE Counting(t)
  BY DEF CountsNoMore, Counting
<1>0. VotesCast(t) \in Nat /\ VotesCast(t)' \in Nat /\ IsBoard(tab[t])
  BY CountMoves DEF Seen, Current, Shows
<1>1. ASSUME NEW a \in Users, NEW n \in Notes, CreateNote(a, n) PROVE Counting(t)
  <2> DEFINE e == [kind |-> "note_created", note |-> n]
  <2>1. Publish(<<e>>) /\ e.kind \in Quiet
    BY <1>1 DEF CreateNote, Quiet
  <2>2. Counted(t)' = Counted(t)
    BY <1>1 DEF CreateNote, waveVars, gridVars, Counted, ScheduledInClosedWave, Closed
  <2> QED BY <2>1, <2>2, QuietStep, StillCounting
<1>2. ASSUME NEW a \in Users, NEW n \in Notes,
             DeleteNote(a, n) \/ CastVote(a, n) \/ RetractVote(a, n)
      PROVE  Counting(t)
  BY <1>2, VoteCounts
<1>3. ASSUME NEW a \in Users,
             \/ SetVoting(a)
             \/ \E n \in 1 .. MaxVotesPerUser : SetVotesPerUser(a, n)
             \/ \E next \in {"active", "done"} : SetLifecycle(a, next)
      PROVE  Counting(t)
  <2>1. PICK e : Publish(<<e>>) /\ e.kind \in Quiet
    <3>1. CASE SetVoting(a)
      <4> DEFINE e == [kind |-> "voting_set", open |-> ~votingOpen]
      <4>1. Publish(<<e>>) /\ e.kind \in Quiet
        BY <3>1 DEF SetVoting, Quiet
      <4> HIDE DEF e
      <4> QED BY <4>1
    <3>2. ASSUME NEW n, SetVotesPerUser(a, n) PROVE \E e : Publish(<<e>>) /\ e.kind \in Quiet
      <4> DEFINE e == [kind |-> "votes_per_user_set", n |-> n]
      <4>1. Publish(<<e>>) /\ e.kind \in Quiet
        BY <3>2 DEF SetVotesPerUser, Quiet
      <4> HIDE DEF e
      <4> QED BY <4>1
    <3>3. ASSUME NEW next, SetLifecycle(a, next) PROVE \E e : Publish(<<e>>) /\ e.kind \in Quiet
      <4> DEFINE e == [kind |-> "lifecycle_set", to |-> next]
      <4>1. Publish(<<e>>) /\ e.kind \in Quiet
        BY <3>3 DEF SetLifecycle, Quiet
      <4> HIDE DEF e
      <4> QED BY <4>1
    <3> QED BY <1>3, <3>1, <3>2, <3>3
  <2>2. Counted(t)' = Counted(t)
    <3>1. UNCHANGED <<noteVars, waveVars, gridVars>>
      BY <1>3 DEF SetVoting, SetVotesPerUser, SetLifecycle
    <3> QED BY <3>1 DEF noteVars, waveVars, gridVars, Counted, ScheduledInClosedWave, Closed
  <2> QED BY <2>1, <2>2, QuietStep, StillCounting
<1>4. ASSUME NEW a \in Users, NEW w \in WaveIds, NEW k, CreateWave(a, w, k) \/ UpdateWave(a, w, k)
      PROVE  Counting(t)
  <2>1. PICK kind, s :
         kind \in {"wave_created", "wave_updated"} /\ Publish(waveEvent(kind, w, s, k))
    BY <1>4 DEF CreateWave, UpdateWave
  <2> DEFINE e == [kind |-> kind, wave |-> w, status |-> s, tracks |-> k]
  <2>2. Publish(<<e>>) /\ e.kind \in Quiet
    BY <2>1 DEF waveEvent, Quiet
  <2>3. Counted(t)' = Counted(t)
    <3>1. /\ votes' = votes /\ assigned' = assigned
          /\ \/ status' = status
             \/ status[w] = "absent" /\ status' = [status EXCEPT ![w] = "planned"]
      BY <1>4 DEF CreateWave, UpdateWave, noteVars, gridVars
    <3> QED BY <3>1, SameClosed DEF Inv, TypeOK, Closed, Assignment, Slot
  <2> HIDE DEF e
  <2> QED BY <2>2, <2>3, QuietStep, StillCounting
<1>5. ASSUME NEW a \in Users, NEW w \in WaveIds, NEW next \in {"open", "locked", "done"},
             SetWaveStatus(a, w, next)
      PROVE  Counting(t)
  BY <1>0, <1>5, LockCounts, StillCounting DEF Counting, Untouched
<1>6. ASSUME NEW a \in Users, NEW w \in WaveIds, DeleteWave(a, w) PROVE Counting(t)
  <2> DEFINE e == [kind |-> "wave_deleted", wave |-> w]
  <2>1. Publish(<<e>>) /\ e.kind \in Quiet
    BY <1>6 DEF DeleteWave, Quiet
  <2>2. Counted(t)' = Counted(t)
    <3>1. /\ votes' = votes /\ assigned' = {x \in assigned : x.slot.wave # w}
          /\ status[w] = "planned" /\ status' = [status EXCEPT ![w] = "absent"]
      BY <1>6 DEF DeleteWave, noteVars, WaveAssignments, requireWaveStatus
    <3> QED BY <3>1, SameClosed DEF Inv, TypeOK, Closed, Assignment, Slot
  <2> HIDE DEF e
  <2> QED BY <2>1, <2>2, QuietStep, StillCounting
<1>7. ASSUME NEW a \in Users, NEW w \in WaveIds, NEW id \in SlotIds, NEW start \in Times,
             NEW end \in Times, CreateSlot(a, w, id, start, end)
      PROVE  Counting(t)
  <2> DEFINE slot == [id |-> id, wave |-> w, start |-> Timestamp(start), end |-> Timestamp(end)]
             e == [kind |-> "slot_created", slot |-> slot]
  <2>1. Publish(<<e>>) /\ e.kind \in Quiet
    BY <1>7 DEF CreateSlot, Quiet
  <2>2. Counted(t)' = Counted(t)
    BY <1>7 DEF CreateSlot, noteVars, waveVars, Counted, ScheduledInClosedWave, Closed
  <2> HIDE DEF e
  <2> QED BY <2>1, <2>2, QuietStep, StillCounting
<1>8. ASSUME NEW a \in Users, NEW s \in slots, DeleteSlot(a, s) PROVE Counting(t)
  <2> DEFINE e == [kind |-> "slot_deleted", slot |-> s]
  <2>1. Publish(<<e>>) /\ e.kind \in Quiet
    BY <1>8 DEF DeleteSlot, Quiet
  <2>2. Counted(t)' = Counted(t)
    BY <1>8 DEF DeleteSlot, noteVars, waveVars, Counted, ScheduledInClosedWave, Closed
  <2> HIDE DEF e
  <2> QED BY <2>1, <2>2, QuietStep, StillCounting
<1>9. ASSUME NEW w \in WaveIds, NEW xs \in SUBSET WaveAssignments(w), status[w] = "open", NEW ys,
             assigned' = (assigned \ xs) \cup ys, \A y \in ys : y.slot.wave = w,
             votes' = votes, status' = status,
             NEW e, e.kind \in Quiet,
             Publish(unassignedEvents(xs)) \/ Publish(Append(unassignedEvents(xs), e))
      PROVE  Counting(t)
  <2>1. Counted(t)' = Counted(t)
    BY <1>9, SameClosed DEF Closed, WaveAssignments
  <2>2. IsFiniteSet(xs)
    <3>1. xs \in SUBSET assigned
      BY <1>9 DEF WaveAssignments
    <3> QED BY <3>1, FS_Subset DEF Seen
  <2>3. \/ tab'[t] = After(tab[t], t, unassignedEvents(xs))
        \/ tab'[t] = After(tab[t], t, Append(unassignedEvents(xs), e))
    BY <1>9, PublishFolds
  <2>4. tab'[t].votesUsed = tab[t].votesUsed
    BY <1>0, <1>9, <2>2, <2>3, AfterTakenOut
  <2> QED BY <2>1, <2>4, StillCounting DEF Untouched
<1>10. ASSUME NEW a \in Users, NEW w \in WaveIds, ClearWave(a, w) PROVE Counting(t)
  <2> DEFINE e == [kind |-> "note_unassigned"]
             ys == {}
  <2>1. /\ status[w] = "open" /\ assigned' = (assigned \ WaveAssignments(w)) \cup ys
        /\ votes' = votes /\ status' = status /\ Publish(unassignedEvents(WaveAssignments(w)))
    BY <1>10 DEF ClearWave, noteVars, waveVars, requireWaveStatus
  <2>2. e.kind \in Quiet /\ \A y \in ys : y.slot.wave = w
    BY DEF Quiet
  <2> HIDE DEF e, ys
  <2> QED BY <1>9, <2>1, <2>2
<1>11. ASSUME NEW a \in Users, NEW s \in slots, NEW n \in Notes, NEW k \in 1 .. MaxTracks,
              AssignNote(a, n, s, k)
       PROVE  Counting(t)
  <2> DEFINE x == [note |-> n, slot |-> s, track |-> k]
             old == {y \in WaveAssignments(s.wave) : y.note = n}
             e == [kind |-> "note_assigned", assignment |-> x]
             ys == {x}
  <2>1. /\ status[s.wave] = "open" /\ assigned' = (assigned \ old) \cup ys
        /\ votes' = votes /\ status' = status /\ Publish(Append(unassignedEvents(old), e))
    BY <1>11 DEF AssignNote, MayAssign, noteVars, waveVars, requireWaveStatus
  <2>2. /\ e.kind \in Quiet /\ \A y \in ys : y.slot.wave = s.wave
        /\ s.wave \in WaveIds /\ old \in SUBSET WaveAssignments(s.wave)
    BY DEF Quiet, Inv, TypeOK, Slot
  <2> HIDE DEF x, old, e, ys
  <2> QED BY <1>9, <2>1, <2>2
<1>12. ASSUME NEW a \in Users, NEW x \in assigned, UnassignNote(a, x) PROVE Counting(t)
  <2> DEFINE e == [kind |-> "note_unassigned"]
             xs == {x}
             ys == {}
             w == x.slot.wave
  <2>1. /\ status[w] = "open" /\ assigned' = (assigned \ xs) \cup ys
        /\ votes' = votes /\ status' = status /\ Publish(unassignedEvents(xs))
    BY <1>12 DEF UnassignNote, noteVars, waveVars, requireWaveStatus
  <2>2. /\ e.kind \in Quiet /\ \A y \in ys : y.slot.wave = w
        /\ w \in WaveIds /\ xs \in SUBSET WaveAssignments(w)
    BY DEF Quiet, Inv, TypeOK, Assignment, Slot, WaveAssignments
  <2> HIDE DEF e, xs, ys, w
  <2> QED BY <1>9, <2>1, <2>2
<1>13. ASSUME NEW w \in WaveIds, LinksArrive(w) PROVE Counting(t)
  <2> DEFINE saved == booking[w] \cap assigned
             e == [kind |-> "assignment_links_set", links |-> saved]
  <2>1. /\ Publish(IF saved = {} THEN <<>> ELSE <<e>>) /\ e.kind \in Quiet
        /\ votes' = votes /\ assigned' = assigned /\ status' = status
    BY <1>13 DEF LinksArrive, noteVars, waveVars, Quiet
  <2>2. Counted(t)' = Counted(t)
    BY <2>1 DEF Counted, ScheduledInClosedWave, Closed
  <2>3. CASE saved = {}
    <3>1. tab'[t] = After(tab[t], t, <<>>)
      BY <2>1, <2>3, PublishFolds
    <3> QED BY <2>2, <3>1, AfterNone, StillCounting DEF Untouched
  <2>4. CASE saved # {}
    <3> HIDE DEF saved
    <3>1. Publish(<<e>>)
      BY <2>1, <2>4
    <3> HIDE DEF e
    <3> QED BY <2>1, <2>2, <3>1, QuietStep, StillCounting
  <2> QED BY <2>3, <2>4
<1>14. ASSUME \/ \E w \in WaveIds : CallFails(w)
              \/ Restart
              \/ UNCHANGED vars
       PROVE  Counting(t)
  <2>1. UNCHANGED <<settings, noteVars, waveVars, gridVars, tab>>
    BY <1>14 DEF CallFails, Restart, vars
  <2>2. Untouched(t)
    BY <2>1 DEF noteVars, waveVars, gridVars, Untouched, Counted, ScheduledInClosedWave, Closed
  <2> QED BY <2>2, StillCounting
<1>15. ASSUME NEW u \in Tabs, Reload(u) PROVE Counting(t)
  <2>1. /\ tab' = [tab EXCEPT ![u] = Snapshot(u)]
        /\ UNCHANGED <<settings, noteVars, waveVars, gridVars>>
    BY <1>15 DEF Reload
  <2>2. Counted(t)' = Counted(t)
    BY <2>1 DEF noteVars, waveVars, gridVars, Counted, ScheduledInClosedWave, Closed
  <2>3. VotesCast(t)' = VotesCast(t)
    BY <2>2, CountMoves
  <2>4. tab'[t] = IF t = u THEN Snapshot(t) ELSE tab[t]
    BY <2>1 DEF Seen
  <2>5. Snapshot(t).votesUsed = VotesCast(t)
    BY DEF Snapshot
  <2> QED BY <1>0, <2>3, <2>4, <2>5 DEF Counting, CountsNoMore
<1> QED BY <1>1, <1>2, <1>3, <1>4, <1>5, <1>6, <1>7, <1>8, <1>10, <1>11, <1>12, <1>13, <1>14, <1>15
        DEF Next, NoteCommand, ScheduleCommand

\* What a board that shows the tables says of a user's controls is what the
\* server says of the user's requests.
LEMMA Offers ==
  ASSUME Inv, Seen, CountsNoMore, NEW t \in Tabs, NEW n \in Notes
  PROVE  /\ MayCastVote(t, n) => offersVote(t, n)
         /\ MayRetractVote(t, n) <=> offersRetract(t, n)
         /\ \A s \in slots, k \in 1 .. MaxTracks : MayAssign(t, n, s, k) <=> offersPlace(t, n, s, k)
<1> DEFINE b == tab[t]
<1>1. /\ b.lifecycle = lifecycle /\ b.votingOpen = votingOpen /\ b.votesPerUser = votesPerUser
      /\ b.notes = NotesNow /\ b.votes = votes /\ b.status = status /\ b.tracks = tracks
      /\ b.slots = slots /\ b.assigned = assigned /\ b.scheduled = {x.note : x \in assigned}
  BY DEF Seen, Current, Shows
<1>2. /\ b.votesUsed \in Int /\ b.votesUsed <= VotesCast(t)
      /\ VotesCast(t) \in Nat /\ votesPerUser \in Nat
  BY CountIsNat DEF CountsNoMore, Seen, Inv, TypeOK
<1>3. \A x \in assigned : /\ x.note \in NotesNow /\ x.slot \in slots /\ x.slot.wave \in WaveIds
                          /\ status[x.slot.wave] \in {"open", "locked", "done"}
  BY NotesThere DEF Inv, GridSound, TypeOK, Assignment, Slot
<1> HIDE DEF b
<1>4. canInteract(t) <=> CheckInteract(t)
  BY <1>1 DEF b, canInteract, CheckInteract, isStaff, Inv, TypeOK
<1>5. \A m : inClosedWave(b, m) <=> ScheduledInClosedWave(m)
  BY <1>1, <1>3 DEF inClosedWave, ScheduledInClosedWave, Closed
<1>6. canVote(t, n) <=> AuthorizeVote(t, n) /\ ~ScheduledInClosedWave(n)
  BY <1>1, <1>4, <1>5 DEF b, canVote, AuthorizeVote, NotesNow
<1>7. MayCastVote(t, n) => offersVote(t, n)
  <2> SUFFICES ASSUME MayCastVote(t, n) PROVE offersVote(t, n)
    OBVIOUS
  <2>1. canVote(t, n) /\ <<n, t>> \notin votes /\ VotesCast(t) < votesPerUser
    BY <1>6 DEF MayCastVote
  <2>2. votesRemaining(b) > 0
    BY <1>1, <1>2, <2>1 DEF votesRemaining
  <2> QED BY <1>1, <2>1, <2>2 DEF b, offersVote
<1>8. MayRetractVote(t, n) <=> offersRetract(t, n)
  BY <1>1, <1>6 DEF b, MayRetractVote, offersRetract
<1>9. ASSUME NEW s \in slots, NEW k \in 1 .. MaxTracks
      PROVE  MayAssign(t, n, s, k) <=> offersPlace(t, n, s, k)
  <2> DEFINE w == s.wave
  <2>1. w \in WaveIds /\ tracks[w] \in Nat /\ k \in Nat /\ k >= 1
    BY ScheduleAssumption DEF Inv, TypeOK, Slot
  <2>2. editable(t, w) <=> AuthorizeSchedule(t) /\ status[w] = "open"
    BY <1>1, <1>4 DEF b, editable, AuthorizeSchedule, CheckInteract, isStaff
  <2>3. emptyCell(b, s, k) <=> k <= tracks[w] /\ \A y \in assigned : ~(y.slot = s /\ y.track = k)
    BY <1>1, <1>3, <2>1 DEF emptyCell
  \* A session scheduled elsewhere is in a closed wave: no other wave is open.
  <2>4. ASSUME status[w] = "open" PROVE n \in draggable(b, w) <=> n \in NotesNow
    <3>1. n \in draggable(b, w) => n \in NotesNow
      BY <1>1 DEF draggable, pool
    <3>2. ASSUME n \in NotesNow, n \notin inWave(b, w), n \in b.scheduled PROVE inClosedWave(b, n)
      <4>1. PICK x \in assigned : x.note = n
        BY <1>1, <3>2
      <4>2. x.slot.wave # w
        BY <1>1, <1>3, <3>2, <4>1 DEF inWave
      <4>3. status[x.slot.wave] # "open"
        BY <1>3, <2>1, <2>4, <4>2 DEF Inv, OneOpenWave
      <4> QED BY <1>3, <1>5, <4>1, <4>3 DEF ScheduledInClosedWave, Closed
    <3> QED BY <1>1, <3>1, <3>2 DEF draggable, pool
  <2>5. Exists(n) <=> n \in NotesNow
    BY DEF NotesNow
  <2> QED BY <2>2, <2>3, <2>4, <2>5 DEF b, MayAssign, offersPlace, requireWaveStatus
<1> QED BY <1>7, <1>8, <1>9

\* Whatever the commands, restarts and reloads, no browser withholds what the
\* server would accept, and it offers only retractions and cells that the
\* server accepts.
THEOREM OffersHold == Spec => []OffersWhatIsAllowed
<1>1. Init => CountsNoMore
  <2> SUFFICES ASSUME Init, NEW t \in Tabs
               PROVE  tab[t].votesUsed \in Int /\ tab[t].votesUsed <= VotesCast(t)
    BY DEF CountsNoMore
  <2>1. tab[t].votesUsed = VotesCast(t)
    BY DEF Init, Snapshot
  <2>2. IsFiniteSet(votes)
    BY FS_EmptySet DEF Init
  <2> QED BY <2>1, <2>2, CountIsNat
<1>2. Inv /\ Seen /\ CountsNoMore /\ [Next]_vars => Seen' /\ CountsNoMore'
  BY SeenStep, CountStep
<1>3. Inv /\ Seen /\ CountsNoMore => OffersWhatIsAllowed
  BY Offers DEF OffersWhatIsAllowed
<1> QED BY <1>1, <1>2, <1>3, SeenInit, AlwaysInv, PTL DEF Spec
=============================================================================

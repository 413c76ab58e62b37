------------------------------ MODULE Controls ------------------------------
(***************************************************************************)
(* What the browser offers its user: the vote button of a note             *)
(* (web/src/board/VoteControl.tsx) and the cells a scheduler may fill      *)
(* (web/src/schedule: SchedulePage.tsx, WaveGrid.tsx, logic.ts), derived   *)
(* from the tab's own board, against what the server would accept.         *)
(***************************************************************************)
EXTENDS Schedule

isStaff(t) == t \in Mods                                  \* role !== 'participant'

canInteract(t) == tab[t].lifecycle = "active" \/ (tab[t].lifecycle = "setup" /\ isStaff(t))

---------------------------------------------------------------------------
(* Votes *)

votesRemaining(b) == IF b.votesPerUser > b.votesUsed THEN b.votesPerUser - b.votesUsed ELSE 0

inAnyWave(b, n) == \E x \in b.assigned : x.note = n         \* mutant: drafts included

\* The note is scheduled in a slot of a locked or done wave.
inClosedWave(b, n) ==
  \E x \in b.assigned, s \in b.slots :
    x.note = n /\ x.slot = s /\ b.status[s.wave] \in {"locked", "done"}

\* The count is a button.
canVote(t, n) ==
  n \in tab[t].notes /\ tab[t].votingOpen /\ canInteract(t) /\ ~inClosedWave(tab[t], n)

offersVote(t, n)    == canVote(t, n) /\ <<n, t>> \notin tab[t].votes /\ votesRemaining(tab[t]) > 0
offersRetract(t, n) == canVote(t, n) /\ <<n, t>> \in tab[t].votes

---------------------------------------------------------------------------
(* The schedule *)

inWave(b, w) == {x.note : x \in {y \in b.assigned : y.slot.wave = w /\ y.slot \in b.slots}}

\* What a scheduler can drag into wave w, the notes below the threshold and
\* the possible repeats included.
pool(b, w) ==
  {n \in b.notes \ inWave(b, w) : inClosedWave(b, n) \/ n \notin b.scheduled}

\* A session can be dragged from the pool, or from another cell of the wave.
draggable(b, w) == pool(b, w) \cup (inWave(b, w) \cap b.notes)

editable(t, w) == isStaff(t) /\ canInteract(t) /\ tab[t].status[w] = "open"

emptyCell(b, s, k) ==
  /\ s \in b.slots /\ k \in 1 .. b.tracks[s.wave]
  /\ ~\E x \in b.assigned : x.slot = s /\ x.track = k /\ x.note \in b.notes

offersPlace(t, n, s, k) ==
  editable(t, s.wave) /\ n \in draggable(tab[t], s.wave) /\ emptyCell(tab[t], s, k)

---------------------------------------------------------------------------
(* Properties *)

\* The browser never keeps from its user what the server would accept: a
\* vote within the budget, taking one back, or a session put into a free
\* cell of the open wave; and it offers no cell or retraction that would be
\* refused (VoteControl, pool; castVote, retractVote, assignNote).
OffersWhatIsAllowed ==
  \A t \in Tabs, n \in Notes :
    /\ MayCastVote(t, n) => offersVote(t, n)
    /\ MayRetractVote(t, n) <=> offersRetract(t, n)
    /\ \A s \in slots, k \in 1 .. MaxTracks :
         MayAssign(t, n, s, k) <=> offersPlace(t, n, s, k)
=============================================================================

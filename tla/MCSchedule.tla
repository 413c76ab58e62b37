------------------------------- MODULE MCSchedule -------------------------------
(* Instances of Schedule for TLC. *)
EXTENDS Controls, TLC

Interchangeable == Permutations(Notes) \cup Permutations(WaveIds) \cup Permutations(SlotIds)
MCTimes    == {0, 2, 3, 4}
MCTwoTimes == 0 .. 1

\* Bounds of the run: every grid of three slots and three tracks while the
\* event is being set up and nobody votes; with votes, or in another phase,
\* waves of one track and two slots of a millisecond.
SettingUp   == /\ lifecycle = "setup" /\ ~votingOpen /\ votes = {} /\ votesPerUser = 1
               /\ \A v, w \in WaveIds : v # w => tracks[v] + tracks[w] <= 3
SimpleWaves == /\ Cardinality(slots) <= 2
               /\ \A s \in slots : s.start = 0 /\ s.end = Millisecond
               /\ \A w \in WaveIds : tracks[w] <= 1
InFocus     == SettingUp \/ SimpleWaves
=============================================================================

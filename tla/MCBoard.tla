-------------------------------- MODULE MCBoard --------------------------------
(* An instance of Board for TLC. *)
EXTENDS Board, TLC

at(x, y) == [x |-> x, y |-> y]

\* One on top of the other and off by less than a step.
MCSpots == {at(0, 0), at(1, 0)}

\* Regions that share the first spots, one on top of the others.
region(x, w, z) == [x |-> x, y |-> 0, w |-> w, h |-> 4, z |-> z]
MCShapes == {region(0, 4, 0), region(2, 8, 0), region(0, 8, 1)}

Interchangeable == Permutations(Notes) \cup Permutations(Regions)

---------------------------------------------------------------------------
(* The examples of internal/domain/board_test.go, in units of 10 board units *)

Real == INSTANCE Geometry WITH NoteW <- 18, NoteH <- 12, SpiralStep <- 2, MaxRings <- 2000

\* The room that keeps notes apart: here, and with the code's constants.
ASSUME RoomHere == RoomFor(Cardinality(Notes))
ASSUME RoomThere == Real!RoomFor(74259)
ASSUME FreeSpotIsKept == Real!ResolvePosition(at(100, -3), {at(0, 0)}) = at(100, -3)
ASSUME OnTopGoesBelow == Real!ResolvePosition(at(0, 0), {at(0, 0)}) = at(0, 12)
ASSUME RingSizes == \A k \in 1 .. 5 : Cardinality(Real!ring(k)) = 8 * k
ASSUME EastFirst ==
  LET east == [dx |-> 1, dy |-> 0]
  IN  \A o \in Real!ring(1) \ {east} : Real!scannedBefore(east, o)
ASSUME ScanIsTotal ==
  \A k \in 1 .. 4 : \A o, p \in Real!ring(k) :
    o # p => Real!scannedBefore(o, p) # Real!scannedBefore(p, o)
=============================================================================

-------------------------------- MODULE Geometry --------------------------------
(***************************************************************************)
(* Where notes go and which region they belong to                          *)
(* (internal/domain/geometry.go and region.go, SPEC 9).  Coordinates are   *)
(* integers, in any unit that divides the steps of the spiral; y grows     *)
(* downward.  A position is the top left corner of a note.                 *)
(***************************************************************************)
EXTENDS Integers

CONSTANTS NoteW, NoteH,     \* the size of every note
          SpiralStep,       \* between two candidate positions
          MaxRings          \* maxSpiralRings

ASSUME GeometryAssumption ==
  /\ NoteW \in Nat \ {0} /\ NoteH \in Nat \ {0} /\ SpiralStep \in Nat \ {0}
  /\ MaxRings \in Nat

Position == [x : Int, y : Int]

\* The interiors of notes at p and q overlap; a common edge does not count.
Intersects(p, q) ==
  /\ p.x < q.x + NoteW /\ q.x < p.x + NoteW
  /\ p.y < q.y + NoteH /\ q.y < p.y + NoteH

---------------------------------------------------------------------------
(* Non-overlap *)

\* The offsets, in steps, at Chebyshev distance k.
ring(k) == {o \in [dx : -k .. k, dy : -k .. k] : o.dx \in {-k, k} \/ o.dy \in {-k, k}}

dist(o) == o.dx * o.dx + o.dy * o.dy

\* angle(o) < angle(p), clockwise on the screen from the east in [0, 2 pi), for
\* offsets in different directions: the lower half first, then by the turn.
lower(o) == o.dy > 0 \/ (o.dy = 0 /\ o.dx >= 0)
angleBelow(o, p) ==
  \/ lower(o) /\ ~lower(p)
  \/ lower(o) = lower(p) /\ o.dx * p.dy - o.dy * p.dx > 0

\* The order within a ring.
scannedBefore(o, p) == dist(o) < dist(p) \/ (dist(o) = dist(p) /\ angleBelow(o, p))

shifted(at, o) == [x |-> at.x + o.dx * SpiralStep, y |-> at.y + o.dy * SpiralStep]
free(at, others) == \A p \in others : ~Intersects(at, p)

freeIn(k, at, others) == {o \in ring(k) : free(shifted(at, o), others)}

\* The first free candidate in the order of the scan, or the requested position
\* when there is none.
ResolvePosition(at, others) ==
  LET nearest == CHOOSE k \in 0 .. MaxRings + 1 :
                   /\ k > MaxRings \/ freeIn(k, at, others) # {}
                   /\ \A j \in 0 .. k - 1 : freeIn(j, at, others) = {}
      candidates == freeIn(nearest, at, others)
  IN  IF nearest > MaxRings THEN at
      ELSE shifted(at, CHOOSE o \in candidates :
                         \A p \in candidates \ {o} : scannedBefore(o, p))

\* Within the rings that are searched lies a grid of candidates, a and b steps
\* apart: so wide that no note can be in the way of two of them, and so large
\* that it has count of them.  (geometry.go calls a search without a free
\* candidate unreachable with a finite, modest number of notes.)
RoomFor(count) ==
  \E a \in 1 .. 2 * NoteW, b \in 1 .. 2 * NoteH :
    /\ a * SpiralStep >= 2 * NoteW /\ b * SpiralStep >= 2 * NoteH
    /\ \E i, j \in 0 .. MaxRings :
         a * i <= MaxRings /\ b * j <= MaxRings /\ count <= (2 * i + 1) * (2 * j + 1)

---------------------------------------------------------------------------
(* Regions *)

\* r contains the center of a note at the position, edges inclusive.
ContainsCenter(r, at) ==
  /\ 2 * at.x + NoteW >= 2 * r.x /\ 2 * at.x + NoteW <= 2 * (r.x + r.w)
  /\ 2 * at.y + NoteH >= 2 * r.y /\ 2 * at.y + NoteH <= 2 * (r.y + r.h)

AboveOlder(r, s) == r.z > s.z \/ (r.z = s.z /\ r.order < s.order)       \* mutant: the oldest wins
\* The highest z wins, then the newest region.
Above(r, s) == r.z > s.z \/ (r.z = s.z /\ r.order > s.order)

\* The region a note at the position is tagged with: of regions, a function from
\* ids to regions or none, the topmost that contains its center, else none.
RegionFor(at, regions, none) ==
  LET around == {r \in DOMAIN regions : regions[r] # none /\ ContainsCenter(regions[r], at)}
  IN  IF around = {} THEN none
      ELSE CHOOSE r \in around : \A s \in around \ {r} : Above(regions[r], regions[s])
=============================================================================

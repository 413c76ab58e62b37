--------------------------------- MODULE Board ---------------------------------
(***************************************************************************)
(* Notes, regions, stars and the lifecycle: the commands of                *)
(* internal/server/commands.go, the tables they write, the caches the hub  *)
(* decides from (geo, regions and lifecycle in hub.go), and the board each *)
(* browser folds from the events (web/src/store/reducer.ts).               *)
(*                                                                         *)
(* A command is one transaction on the hub's goroutine.  It reads the      *)
(* caches and the tables, and when it commits, its `after' updates the     *)
(* caches and its events reach every browser (module Hub).  A command that *)
(* is refused changes nothing.  Requested coordinates are valid ones.      *)
(***************************************************************************)
EXTENDS Geometry, SequencesExt

CONSTANTS Users, Mods, Organizers,     \* everybody, moderators and up, organizers
          Notes, Regions,              \* ids, free again once unused
          Spots,                       \* positions that are asked for
          Shapes,                      \* positions, sizes and z of regions
          Contents,                    \* title, body, color and links of a note
          None,                        \* no such row, no region
          MaxOrder                     \* bound: rowids of regions

Shape == [x : Int, y : Int, w : Nat, h : Nat, z : Int]

ASSUME BoardAssumption ==
  /\ Organizers \subseteq Mods /\ Mods \subseteq Users
  /\ Spots \subseteq Position /\ Shapes \subseteq Shape
  /\ None \notin Regions /\ MaxOrder \in Nat
  /\ IsFiniteSet(Notes) /\ IsFiniteSet(Regions)

\* Rows of the tables, a noteGeo, and a note as a browser has it.
NoteRow == [author : Users, content : Contents, at : Position, region : Regions \cup {None}]
RegionRow == [x : Int, y : Int, w : Nat, h : Nat, z : Int, order : 1 .. MaxOrder]
NoteGeo == [at : Position, region : Regions \cup {None}]
NoteJSON == [author : Users, content : Contents, at : Position, region : Regions \cup {None},
             starred : BOOLEAN]

ASSUME NoneIsNoRow ==
  None \notin NoteRow /\ None \notin RegionRow /\ None \notin NoteGeo /\ None \notin NoteJSON

VARIABLES
  db,      \* the tables: notes, regions, stars and events.lifecycle
  cache,   \* Hub.geo, Hub.regions and Hub.lifecycle
  tab      \* each user's BoardState
vars == <<db, cache, tab>>

Lifecycles == <<"setup", "active", "done">>

Geo(row) == [at |-> row.at, region |-> row.region]
\* What newHub loads.
Loaded(d) ==
  [geo |-> [n \in Notes |-> IF d.notes[n] = None THEN None ELSE Geo(d.notes[n])],
   regions |-> d.regions, lifecycle |-> d.lifecycle]

Exists(n) == db.notes[n] # None

---------------------------------------------------------------------------
(* Browsers *)

NoteFor(row, starred) ==
  [author |-> row.author, content |-> row.content, at |-> row.at, region |-> row.region,
   starred |-> starred]
RegionSeen(r, row) == [id |-> r, x |-> row.x, y |-> row.y, w |-> row.w, h |-> row.h, z |-> row.z]

\* The ids in use, in the order of their rowids.
present(rows) == {r \in Regions : rows[r] # None}
byOrder(rows) ==
  CHOOSE q \in [1 .. Cardinality(present(rows)) -> present(rows)] :
    \A i, j \in DOMAIN q : i < j => rows[q[i]].order < rows[q[j]].order

Listed(rows, ids) == [i \in DOMAIN ids |-> RegionSeen(ids[i], rows[ids[i]])]

\* buildSnapshot.
Snapshot(d, u) ==
  [notes |-> [n \in Notes |-> IF d.notes[n] = None THEN None
                              ELSE NoteFor(d.notes[n], <<u, n>> \in d.stars)],
   regions |-> Listed(d.regions, byOrder(d.regions)),
   lifecycle |-> d.lifecycle]

\* patchNote: a note the browser does not have is left alone.
patched(b, n, note) == IF b.notes[n] = None THEN b ELSE [b EXCEPT !.notes[n] = note]
withoutRegion(rs, r) ==
  FoldLeft(LAMBDA kept, s : IF s.id = r THEN kept ELSE Append(kept, s), <<>>, rs)

replaceLast(rs, new) == Append(withoutRegion(rs, new.id), new)           \* mutant: to the end
replace(rs, new) == [i \in DOMAIN rs |-> IF rs[i].id = new.id THEN new ELSE rs[i]]

applyEvent(b, u, e) ==
  CASE e.kind = "note_created"   -> [b EXCEPT !.notes[e.note] = e.row]
    [] e.kind = "note_updated"   -> patched(b, e.note, [b.notes[e.note] EXCEPT !.content = e.content])
    [] e.kind = "note_moved"     -> patched(b, e.note, [b.notes[e.note] EXCEPT !.at = e.at])
    [] e.kind = "note_retagged"  -> patched(b, e.note, [b.notes[e.note] EXCEPT !.region = e.region])
    [] e.kind = "note_deleted"   -> [b EXCEPT !.notes[e.note] = None]
    [] e.kind = "note_starred"   ->
         IF u = e.onlyUser THEN patched(b, e.note, [b.notes[e.note] EXCEPT !.starred = e.on]) ELSE b
    [] e.kind = "region_created" -> [b EXCEPT !.regions = Append(withoutRegion(@, e.region.id), e.region)]
    [] e.kind = "region_updated" -> [b EXCEPT !.regions = replace(@, e.region)]
    [] e.kind = "region_deleted" -> [b EXCEPT !.regions = withoutRegion(@, e.id)]
    [] e.kind = "lifecycle_set"  -> [b EXCEPT !.lifecycle = e.lifecycle]

---------------------------------------------------------------------------
(* Transactions *)

\* foreign_keys(1): the region of a note exists.
ForeignKeys(d) ==
  \A n \in Notes : d.notes[n] # None /\ d.notes[n].region # None =>
                    d.regions[d.notes[n].region] # None

publish(events) ==
  tab' = [u \in Users |-> FoldLeft(LAMBDA b, e : applyEvent(b, u, e), tab[u], events)]

commitAfterFailure(d, after, events) ==                   \* mutant: after runs in any case
  \/ db' = d /\ cache' = after /\ publish(events)
  \/ cache' = after /\ UNCHANGED <<db, tab>>
\* The tables become d and the caches after, and the events are published; or
\* the transaction fails.
commit(d, after, events) ==
  \/ ForeignKeys(d) /\ db' = d /\ cache' = after /\ publish(events)
  \/ UNCHANGED vars

Init ==
  /\ db = [notes |-> [n \in Notes |-> None], regions |-> [r \in Regions |-> None],
           stars |-> {}, lifecycle |-> "setup"]
  /\ cache = Loaded(db)
  /\ tab = [u \in Users |-> Snapshot(db, u)]

---------------------------------------------------------------------------
(* Notes *)

CheckInteract(u) == cache.lifecycle # "done" /\ (cache.lifecycle = "setup" => u \in Mods)
MayEdit(u, n) == Exists(n) /\ CheckInteract(u) /\ (db.notes[n].author = u \/ u \in Mods)

obstaclesInverted(n) == {cache.geo[m].at : m \in {m \in {n} : cache.geo[m] # None}}   \* mutant
\* Of the notes other than n.
obstacles(n) == {cache.geo[m].at : m \in {m \in Notes \ {n} : cache.geo[m] # None}}

CreateNote(u, n, spot, content) ==
  /\ CheckInteract(u) /\ ~Exists(n)
  /\ \E at \in {ResolvePosition(spot, obstacles(n))} :
     LET row == [author |-> u, content |-> content, at |-> at,
                 region |-> RegionFor(at, cache.regions, None)]
     IN  commit([db EXCEPT !.notes[n] = row], [cache EXCEPT !.geo[n] = Geo(row)],
                <<[kind |-> "note_created", note |-> n, row |-> NoteFor(row, FALSE)]>>)

\* update_note and set_links replace some of a note's content.
UpdateNote(u, n, content) ==
  /\ MayEdit(u, n)
  /\ commit([db EXCEPT !.notes[n].content = content], cache,
            <<[kind |-> "note_updated", note |-> n, content |-> content]>>)

retagged(n, region) == [kind |-> "note_retagged", note |-> n, region |-> region]

MoveNote(u, n, spot) ==
  /\ Exists(n) /\ CheckInteract(u)
  /\ \E at \in {ResolvePosition(spot, obstacles(n))} :
     LET region == RegionFor(at, cache.regions, None)
     IN  commit([db EXCEPT !.notes[n].at = at, !.notes[n].region = region],
                [cache EXCEPT !.geo[n] = [at |-> at, region |-> region]],
                <<[kind |-> "note_moved", note |-> n, at |-> at]>>
                  \o IF region = db.notes[n].region THEN <<>> ELSE <<retagged(n, region)>>)

starsWithout(n) == {s \in db.stars : s[2] # n}

\* An author's note without votes and sessions (module Schedule has those).
DeleteNote(u, n) ==
  /\ MayEdit(u, n)
  /\ commit([db EXCEPT !.notes[n] = None, !.stars = starsWithout(n)],
            [cache EXCEPT !.geo[n] = None],
            <<[kind |-> "note_deleted", note |-> n]>>)

\* Stars are for their user only, and need no lifecycle but a board to see.
SetStar(u, n, on) ==
  /\ Exists(n) /\ (cache.lifecycle = "setup" => u \in Mods)
  /\ (<<u, n>> \in db.stars) # on
  /\ commit([db EXCEPT !.stars = IF on THEN @ \cup {<<u, n>>} ELSE @ \ {<<u, n>>}], cache,
            <<[kind |-> "note_starred", note |-> n, on |-> on, onlyUser |-> u]>>)

---------------------------------------------------------------------------
(* Regions and the lifecycle *)

\* retagAll and the command around it: region r becomes row (None: deleted) and
\* every note whose tag changes by it follows.
editRegion(r, row, event) ==
  LET regions == [cache.regions EXCEPT ![r] = row]
      tag(n)  == RegionFor(cache.geo[n].at, regions, None)
      changed == {n \in Notes : cache.geo[n] # None /\ cache.geo[n].region # tag(n)}
      follow(rows) == [n \in Notes |-> IF n \in changed THEN [rows[n] EXCEPT !.region = tag(n)]
                                       ELSE rows[n]]
  IN  commit([db EXCEPT !.regions[r] = row, !.notes = follow(@)],
             [cache EXCEPT !.regions = regions, !.geo = follow(@)],
             <<event>> \o [i \in 1 .. Cardinality(changed) |->
                             LET n == SetToSeq(changed)[i] IN retagged(n, tag(n))])

MayEditRegions(u) == u \in Mods /\ CheckInteract(u)

\* SQLite's next rowid: one more than the largest in use.
nextOrder ==
  LET used == {db.regions[r].order : r \in present(db.regions)}
  IN  IF used = {} THEN 1 ELSE 1 + CHOOSE k \in used : \A j \in used : j <= k

regionRow(s, order) ==
  [x |-> s.x, y |-> s.y, w |-> s.w, h |-> s.h, z |-> s.z, order |-> order]

CreateRegion(u, r, s) ==
  /\ MayEditRegions(u) /\ db.regions[r] = None /\ nextOrder <= MaxOrder
  /\ editRegion(r, regionRow(s, nextOrder), [kind |-> "region_created", region |-> RegionSeen(r, s)])

UpdateRegion(u, r, s) ==
  /\ MayEditRegions(u) /\ db.regions[r] # None
  /\ editRegion(r, regionRow(s, db.regions[r].order),
                [kind |-> "region_updated", region |-> RegionSeen(r, s)])

DeleteRegion(u, r) ==
  /\ MayEditRegions(u) /\ db.regions[r] # None
  /\ editRegion(r, None, [kind |-> "region_deleted", id |-> r])

rank(l) == CHOOSE i \in DOMAIN Lifecycles : Lifecycles[i] = l

SetLifecycle(u, l) ==
  /\ u \in Organizers /\ rank(l) > rank(cache.lifecycle)
  /\ commit([db EXCEPT !.lifecycle = l], [cache EXCEPT !.lifecycle = l],
            <<[kind |-> "lifecycle_set", lifecycle |-> l]>>)

\* The process dies, between the transaction and the rest of commit or at any
\* other time, and a new hub and new snapshots take over.
Restart ==
  /\ cache' = Loaded(db) /\ tab' = [u \in Users |-> Snapshot(db, u)]
  /\ UNCHANGED db

Next ==
  \/ \E u \in Users, n \in Notes :
       \/ \E spot \in Spots : MoveNote(u, n, spot)
       \/ \E spot \in Spots, content \in Contents : CreateNote(u, n, spot, content)
       \/ \E content \in Contents : UpdateNote(u, n, content)
       \/ DeleteNote(u, n)
       \/ \E on \in BOOLEAN : SetStar(u, n, on)
  \/ \E u \in Users, r \in Regions :
       \/ \E s \in Shapes : CreateRegion(u, r, s) \/ UpdateRegion(u, r, s)
       \/ DeleteRegion(u, r)
  \/ \E u \in Users, l \in {"active", "done"} : SetLifecycle(u, l)
  \/ Restart

Spec == Init /\ [][Next]_vars

---------------------------------------------------------------------------
(* Properties *)

TypeOK ==
  /\ db \in [notes : [Notes -> NoteRow \cup {None}], regions : [Regions -> RegionRow \cup {None}],
             stars : SUBSET (Users \X Notes), lifecycle : {"setup", "active", "done"}]
  /\ DOMAIN tab = Users
  /\ ForeignKeys(db) /\ \A s \in db.stars : Exists(s[2])

\* The caches hold what a restart would load, whatever failed in between
\* (hub.go, commit: "On error nothing is published and no cache changes").
CachesMatch == cache = Loaded(db)

\* Notes never overlap (SPEC 9: "Sticky notes never overlap").
NoOverlap ==
  \A m, n \in Notes : m # n /\ Exists(m) /\ Exists(n) =>
    LET dx == db.notes[m].at.x - db.notes[n].at.x
        dy == db.notes[m].at.y - db.notes[n].at.y
    IN  dx >= NoteW \/ -dx >= NoteW \/ dy >= NoteH \/ -dy >= NoteH

\* The events of every command bring each browser to what a snapshot would
\* show it: SPEC 8.1's snapshot and replay are interchangeable.
BoardMatches == \A u \in Users : tab[u] = Snapshot(db, u)

\* In every browser a note is tagged with the region it sees drawn on top under
\* the note's center: Board.tsx draws regions by z, then in the order it has
\* them, which folded events must keep equal to the server's creation order.
DrawnAbove(rs, i, j) == rs[i].z > rs[j].z \/ (rs[i].z = rs[j].z /\ i > j)
TagsShowTopmost ==
  \A u \in Users, n \in Notes : tab[u].notes[n] # None =>
    LET rs   == tab[u].regions
        note == tab[u].notes[n]
        under == {i \in DOMAIN rs : ContainsCenter(rs[i], note.at)}
    IN  IF note.region = None THEN under = {}
        ELSE \E i \in under : rs[i].id = note.region /\ \A j \in under \ {i} : DrawnAbove(rs, i, j)
=============================================================================

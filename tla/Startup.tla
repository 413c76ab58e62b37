-------------------------------- MODULE Startup --------------------------------
(***************************************************************************)
(* How processes start on one database (cmd/unconf/main.go): the schema    *)
(* fragments are verified and applied (internal/store/schema), then the    *)
(* default event and the session secret are found or made (MetaOrInit).    *)
(* Several processes, of different builds, may start at once, and each may *)
(* die at any step.                                                        *)
(*                                                                         *)
(* A build is the set of the files it embeds.  A file is what its number,  *)
(* name and body are; number 0 stands for a name that is not a fragment's. *)
(* A hash tells bodies apart, so it is the body.  A statement outside a    *)
(* transaction is one step; a transaction is a step per statement, holding *)
(* the database's write lock from its start (_txlock=immediate).           *)
(***************************************************************************)
EXTENDS Integers, Sequences, FiniteSets

CONSTANTS Processes,
          Builds,            \* sets of files
          Broken,            \* bodies that are not valid SQL
          Ids,               \* event ids and secrets
          None,
          MaxVersion,        \* the highest number of any file
          MaxStarts          \* bound: processes started

Versions == 1 .. MaxVersion
File(f) == f.number \in 0 .. MaxVersion

ASSUME StartupAssumption ==
  /\ MaxVersion \in Nat /\ MaxStarts \in Nat /\ None \notin Ids \cup Processes
  /\ \A b \in Builds : IsFiniteSet(b) /\ None \notin b /\ \A f \in b : File(f)

VARIABLES
  rows,       \* schema_version: the file recorded for each number, or None
  executed,   \* the bodies whose statements have taken effect, in order
  meta,       \* default_event_id and session_secret, or None
  events,     \* the ids in the events table
  lock,       \* the process with a write transaction, or None
  work,       \* what that transaction would commit
  pc, build,  \* of each process
  at,         \* the fragment it applies next
  found,      \* the ids it has read from meta
  starts
database == <<rows, executed, meta, events>>
vars == <<database, lock, work, pc, build, at, found, starts>>

Keys == {"default_event_id", "session_secret"}
NoIds == [k \in Keys |-> None]

---------------------------------------------------------------------------
(* Fragments *)

\* 001, 002, ... without gaps or duplicates.
Numbered(files) == {f.number : f \in files} = 1 .. Cardinality(files)
Load(files) == [i \in 1 .. Cardinality(files) |-> CHOOSE f \in files : f.number = i]
frags(p) == Load(build[p])

\* The rows are fragments 1 .. k of the build.
verifyShort(fs, k) ==                                     \* mutant: k must be below Len(fs)
  k < Len(fs) /\ \A v \in Versions : rows[v] = IF v <= k THEN fs[v] ELSE None
verify(fs, k) == \A v \in Versions : rows[v] = IF v <= k THEN fs[v] ELSE None

---------------------------------------------------------------------------
(* Steps of a process *)

Become(p, next) == pc' = [pc EXCEPT ![p] = next]
\* The process exits with an error, and a transaction of its own is rolled back.
Refuse(p) == Become(p, "refused") /\ lock' = (IF lock = p THEN None ELSE lock)

Init ==
  /\ rows = [v \in Versions |-> None] /\ executed = <<>>
  /\ meta = NoIds /\ events = {}
  /\ lock = None /\ work = None
  /\ pc = [p \in Processes |-> "down"]
  /\ build = [p \in Processes |-> {}]
  /\ at = [p \in Processes |-> 1]
  /\ found = [p \in Processes |-> NoIds]
  /\ starts = 0

\* main, store.Open and Load.
Start(p, files) ==
  /\ pc[p] \in {"down", "refused"} /\ starts < MaxStarts
  /\ starts' = starts + 1
  /\ build' = [build EXCEPT ![p] = files]
  /\ found' = [found EXCEPT ![p] = NoIds]
  /\ Become(p, IF Numbered(files) THEN "look" ELSE "refused")
  /\ UNCHANGED <<database, lock, work, at>>

\* Apply creates schema_version if it is absent, reads and verifies it.
Look(p) ==
  /\ pc[p] = "look"
  /\ \/ \E k \in 0 .. Len(frags(p)) :
          /\ verify(frags(p), k)
          /\ at' = [at EXCEPT ![p] = k + 1] /\ Become(p, "apply") /\ UNCHANGED lock
     \/ /\ \A k \in 0 .. Len(frags(p)) : ~verify(frags(p), k)
        /\ Refuse(p) /\ UNCHANGED at
  /\ UNCHANGED <<database, work, build, found, starts>>

\* applyOne's BeginTx waits for the write lock.
Begin(p) ==
  /\ pc[p] = "apply" /\ at[p] <= Len(frags(p)) /\ lock = None
  /\ lock' = p /\ work' = [rows |-> rows, executed |-> executed]
  /\ Become(p, "check")
  /\ UNCHANGED <<database, build, at, found, starts>>

CheckAny(p) ==                                  \* mutant: whatever the row's hash is
  /\ pc[p] = "check"
  /\ IF work.rows[at[p]] # None
       THEN at' = [at EXCEPT ![p] = @ + 1] /\ lock' = None /\ Become(p, "apply")
       ELSE Become(p, "execute") /\ UNCHANGED <<at, lock>>
  /\ UNCHANGED <<database, work, build, found, starts>>

CheckKeepsLock(p) ==                            \* mutant: no Rollback
  /\ pc[p] = "check"
  /\ LET row == work.rows[at[p]]
     IN  \/ row = None /\ Become(p, "execute") /\ UNCHANGED <<at, lock>>
         \/ /\ row # None /\ row.body = frags(p)[at[p]].body
            /\ at' = [at EXCEPT ![p] = @ + 1] /\ UNCHANGED lock /\ Become(p, "apply")
         \/ row # None /\ row.body # frags(p)[at[p]].body /\ Refuse(p) /\ UNCHANGED at
  /\ UNCHANGED <<database, work, build, found, starts>>

\* Another process may have applied the fragment in the meantime.
Check(p) ==
  /\ pc[p] = "check"
  /\ LET row == work.rows[at[p]]
     IN  \/ row = None /\ Become(p, "execute") /\ UNCHANGED <<at, lock>>
         \/ /\ row # None /\ row.body = frags(p)[at[p]].body
            /\ at' = [at EXCEPT ![p] = @ + 1] /\ lock' = None /\ Become(p, "apply")
         \/ row # None /\ row.body # frags(p)[at[p]].body /\ Refuse(p) /\ UNCHANGED at
  /\ UNCHANGED <<database, work, build, found, starts>>

ExecuteOutside(p) ==                            \* mutant: on the database, not on tx
  /\ pc[p] = "execute"
  /\ LET body == frags(p)[at[p]].body
     IN  IF body \in Broken THEN Refuse(p) /\ UNCHANGED <<executed, work>>
         ELSE /\ executed' = Append(executed, body)
              /\ work' = [work EXCEPT !.executed = Append(@, body)]
              /\ Become(p, "record") /\ UNCHANGED lock
  /\ UNCHANGED <<rows, meta, events, build, at, found, starts>>

Execute(p) ==
  /\ pc[p] = "execute"
  /\ LET body == frags(p)[at[p]].body
     IN  IF body \in Broken THEN Refuse(p) /\ UNCHANGED work
         ELSE /\ work' = [work EXCEPT !.executed = Append(@, body)]
              /\ Become(p, "record") /\ UNCHANGED lock
  /\ UNCHANGED <<database, build, at, found, starts>>

Record(p) ==
  /\ pc[p] = "record"
  /\ work' = [work EXCEPT !.rows[at[p]] = frags(p)[at[p]]]
  /\ Become(p, "commit")
  /\ UNCHANGED <<database, lock, build, at, found, starts>>

Commit(p) ==
  /\ pc[p] = "commit"
  /\ rows' = work.rows /\ executed' = work.executed /\ lock' = None
  /\ at' = [at EXCEPT ![p] = @ + 1] /\ Become(p, "apply")
  /\ UNCHANGED <<meta, events, work, build, found, starts>>

Opened(p) ==
  /\ pc[p] = "apply" /\ at[p] > Len(frags(p))
  /\ Become(p, "init_event")
  /\ UNCHANGED <<database, lock, work, build, at, found, starts>>

---------------------------------------------------------------------------
(* The default event and the session secret *)

storedLast(key, id) == id                                   \* mutant: replaces the value
\* INSERT ... ON CONFLICT (key) DO NOTHING.
stored(key, id) == IF meta[key] = None THEN id ELSE meta[key]

\* MetaOrInit: insert, then read, each a statement of its own.
InitMeta(p, from, key, next) ==
  /\ pc[p] = from /\ lock = None
  /\ \E id \in Ids : meta' = [meta EXCEPT ![key] = stored(key, id)]
  /\ Become(p, next)
  /\ UNCHANGED <<rows, executed, events, lock, work, build, at, found, starts>>
ReadMeta(p, from, key, next) ==
  /\ pc[p] = from
  /\ found' = [found EXCEPT ![p][key] = meta[key]]
  /\ Become(p, next)
  /\ UNCHANGED <<database, lock, work, build, at, starts>>

\* EnsureDefaultEvent's INSERT ... ON CONFLICT (id) DO NOTHING; it reads the
\* event back.
InsertEvent(p) ==
  /\ pc[p] = "insert_event" /\ lock = None
  /\ events' = events \cup {found[p]["default_event_id"]}
  /\ Become(p, "init_secret")
  /\ UNCHANGED <<rows, executed, meta, lock, work, build, at, found, starts>>

\* log.Fatal, a signal or a crash: the transaction it had is rolled back.
Stop(p) ==
  /\ pc[p] \notin {"down", "refused"}
  /\ Become(p, "down") /\ lock' = (IF lock = p THEN None ELSE lock)
  /\ UNCHANGED <<database, work, build, at, found, starts>>

Step(p) ==
  \/ Look(p) \/ Begin(p) \/ Check(p) \/ Execute(p) \/ Record(p) \/ Commit(p) \/ Opened(p)
  \/ InitMeta(p, "init_event", "default_event_id", "read_event")
  \/ ReadMeta(p, "read_event", "default_event_id", "insert_event")
  \/ InsertEvent(p)
  \/ InitMeta(p, "init_secret", "session_secret", "read_secret")
  \/ ReadMeta(p, "read_secret", "session_secret", "serving")

Next == \E p \in Processes : Step(p) \/ Stop(p) \/ \E files \in Builds : Start(p, files)

Spec == Init /\ [][Next]_vars
\* A process that runs goes on; nothing makes one start or stop.
FairSpec == Spec /\ \A p \in Processes : WF_vars(Step(p))

---------------------------------------------------------------------------
(* Properties *)

Files  == UNION Builds
Bodies == {f.body : f \in Files}
Opening == {"look", "apply", "check", "execute", "record", "commit"}
Open    == {"init_event", "read_event", "insert_event", "init_secret", "read_secret", "serving"}

TypeOK ==
  /\ rows \in [Versions -> Files \cup {None}] /\ executed \in Seq(Bodies)
  /\ meta \in [Keys -> Ids \cup {None}] /\ events \subseteq Ids
  /\ lock \in Processes \cup {None}
  /\ work = None \/ work \in [rows : [Versions -> Files \cup {None}], executed : Seq(Bodies)]
  /\ pc \in [Processes -> {"down", "refused"} \cup Opening \cup Open]
  /\ build \in [Processes -> Builds \cup {{}}]
  /\ found \in [Processes -> [Keys -> Ids \cup {None}]]
  /\ at \in [Processes -> 1 .. MaxVersion + 1] /\ starts \in 0 .. MaxStarts

\* What has taken effect on the database is exactly what it records, once each
\* and in the order of the numbers, whatever crashes and races ("each in its own
\* transaction together with a schema_version row").
HistorySound ==
  \A v \in Versions :
    IF v <= Len(executed) THEN rows[v] # None /\ rows[v].number = v /\ rows[v].body = executed[v]
    ELSE rows[v] = None

\* A process that got through store.Open works on tables its own fragments
\* made: they are the first ones of the database, in their order.
OpensItsOwnSchema ==
  \A p \in Processes : pc[p] \in Open =>
    /\ Len(frags(p)) <= Len(executed)
    /\ \A i \in 1 .. Len(frags(p)) : executed[i] = frags(p)[i].body

\* A process refuses to start only if its files are not in order, one of them
\* does not run, or the database holds a fragment that is not the process's:
\* never because somebody else was applying the same fragments.
HasReason(p) ==
  \/ ~Numbered(build'[p])
  \/ \E f \in build'[p] : f.body \in Broken
  \/ \E v \in Versions : rows[v] # None /\ rows[v] \notin build'[p]
NoSpuriousRefusal ==
  [][\A p \in Processes : pc'[p] = "refused" /\ pc[p] # "refused" => HasReason(p)]_vars

\* All processes that serve serve the same event, which exists, and accept each
\* other's cookies; no other event is ever made.
OneEvent ==
  /\ Cardinality(events) <= 1
  /\ \A p \in Processes : pc[p] = "serving" =>
       /\ found[p] = meta /\ found[p]["default_event_id"] \in events
       /\ None \notin {found[p][k] : k \in Keys}

\* Whoever starts gets to serve, or is refused or stopped: no lock outlives the
\* transaction that took it.
StartsUp ==
  \A p \in Processes :
    pc[p] \notin {"down", "refused", "serving"} ~> pc[p] \in {"down", "refused", "serving"}
=============================================================================

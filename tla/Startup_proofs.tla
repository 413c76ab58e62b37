---------------------------- MODULE Startup_proofs ----------------------------
(***************************************************************************)
(* For any builds, number of processes and order of their steps: the       *)
(* database records exactly the fragments that have taken effect, whoever  *)
(* opens it finds its own fragments applied, nobody is refused without a   *)
(* reason, and all who serve share one event and one secret.               *)
(***************************************************************************)
EXTENDS Startup, FiniteSetTheorems, TLAPS

Working == {"check", "execute", "record", "commit"}
Ran     == {"apply"} \cup Working \cup Open       \* past Look

\* A transaction holds the lock, and only a transaction does.
LockInv == \A p \in Processes : lock = p <=> pc[p] \in Working

\* Whoever runs has its fragments in order.
Ordered(p) == pc[p] \in Opening \cup Open => build[p] \in Builds /\ Numbered(build[p])

\* The fragments before the next one are the first of the database.
Applied(p) == pc[p] \in Ran =>
  /\ at[p] - 1 <= Len(frags(p)) /\ at[p] - 1 <= Len(executed)
  /\ \A i \in 1 .. at[p] - 1 : executed[i] = frags(p)[i].body
  /\ pc[p] \in Working => at[p] <= Len(frags(p))
  /\ pc[p] \in Open => at[p] = Len(frags(p)) + 1

\* A transaction works on what the database holds, and from its look at
\* schema_version on it knows that its fragment is the next one.
Works(p) ==
  /\ pc[p] = "check" => work = [rows |-> rows, executed |-> executed]
  /\ pc[p] = "execute" => work = [rows |-> rows, executed |-> executed]
  /\ pc[p] = "record" =>
       work = [rows |-> rows, executed |-> Append(executed, frags(p)[at[p]].body)]
  /\ pc[p] = "commit" =>
       work = [rows |-> [rows EXCEPT ![at[p]] = frags(p)[at[p]]],
               executed |-> Append(executed, frags(p)[at[p]].body)]
  /\ pc[p] \in Working \ {"check"} => rows[at[p]] = None

Own(p) == Ordered(p) /\ Applied(p) /\ Works(p)
SchemaInv == LockInv /\ HistorySound /\ \A p \in Processes : Own(p)

\* Who has read a value has the one that is stored, and it stays.
Read(p, key) == found[p][key] = meta[key] /\ meta[key] # None
Knows(p) ==
  /\ pc[p] = "read_event" => meta["default_event_id"] # None
  /\ pc[p] \in Open \ {"init_event", "read_event"} => Read(p, "default_event_id")
  /\ pc[p] \in {"init_secret", "read_secret", "serving"} => meta["default_event_id"] \in events
  /\ pc[p] = "read_secret" => meta["session_secret"] # None
  /\ pc[p] = "serving" => Read(p, "session_secret")
OnlyEvent == events \subseteq {meta["default_event_id"]} /\ None \notin events
IdInv == OnlyEvent /\ \A p \in Processes : Knows(p)


---------------------------------------------------------------------------
(* Fragments *)

\* Of files numbered without gaps or duplicates Load makes the sequence in which
\* file number i is the i-th.
LEMMA Loaded ==
  ASSUME NEW b \in Builds, Numbered(b)
  PROVE  /\ Load(b) \in Seq(b) /\ Len(Load(b)) \in 0 .. MaxVersion
         /\ \A i \in 1 .. Len(Load(b)) : Load(b)[i] \in b /\ Load(b)[i].number = i
         /\ \A f \in b : f.number \in 1 .. Len(Load(b)) /\ Load(b)[f.number] = f
<1> DEFINE n == Cardinality(b)
           number == [f \in b |-> f.number]
<1>1. IsFiniteSet(b) /\ \A f \in b : f.number \in 0 .. MaxVersion
  BY StartupAssumption DEF StartupAssumption, File
<1>2. n \in Nat
  BY <1>1, FS_CardinalityType
<1>3. \A i \in 1 .. n : \E f \in b : f.number = i
  BY DEF Numbered
<1>4. \A f \in b : f.number \in 1 .. n
  BY DEF Numbered
<1>5. \A f, g \in b : f.number = g.number => f = g
  <2>1. number \in Surjection(b, 1 .. n)
    BY <1>3, <1>4 DEF Surjection
  <2>2. Cardinality(1 .. n) = n
    BY <1>2, FS_Interval
  <2> HIDE DEF number
  <2>3. number \in Injection(b, 1 .. n)
    BY <1>1, <2>1, <2>2, FS_Surjection
  <2> USE DEF number
  <2> QED BY <2>3 DEF Injection, IsInjective
<1>6. n <= MaxVersion
  <2>1. CASE n = 0
    BY <2>1, StartupAssumption DEF StartupAssumption
  <2>2. CASE n # 0
    <3>1. PICK f \in b : f.number = n
      BY <1>2, <1>3, <2>2
    <3> QED BY <1>1, <1>2, <3>1, StartupAssumption DEF StartupAssumption
  <2> QED BY <2>1, <2>2
<1> HIDE DEF n
<1>7. Load(b) = [i \in 1 .. n |-> CHOOSE f \in b : f.number = i]
  BY DEF Load, n
<1>8. \A i \in 1 .. n : Load(b)[i] \in b /\ Load(b)[i].number = i
  BY <1>3, <1>7
<1>9. Load(b) \in [1 .. n -> b]
  BY <1>7, <1>8
<1>10. Load(b) \in Seq(b) /\ Len(Load(b)) = n
  BY <1>2, <1>9
<1>11. \A f \in b : Load(b)[f.number] = f
  BY <1>4, <1>5, <1>8
<1> QED BY <1>2, <1>4, <1>6, <1>8, <1>10, <1>11, StartupAssumption DEF StartupAssumption

\* The same, of what a process runs.
LEMMA OwnFragments ==
  ASSUME NEW p \in Processes, Ordered(p), pc[p] \in Opening \cup Open
  PROVE  /\ build[p] \in Builds /\ Len(frags(p)) \in 0 .. MaxVersion
         /\ \A i \in 1 .. Len(frags(p)) : /\ frags(p)[i] \in build[p] /\ frags(p)[i] \in Files
                                          /\ frags(p)[i].number = i /\ frags(p)[i] # None
                                          /\ frags(p)[i].body \in Bodies
         /\ \A f \in build[p] : f.number \in 1 .. Len(frags(p)) /\ frags(p)[f.number] = f
<1>1. build[p] \in Builds /\ Numbered(build[p])
  BY DEF Ordered
<1>2. None \notin build[p]
  BY <1>1, StartupAssumption DEF StartupAssumption
<1> QED BY <1>1, <1>2, Loaded DEF frags, Files, Bodies

---------------------------------------------------------------------------
(* Types *)

States == {"down", "refused"} \cup Opening \cup Open

LEMMA Moved ==
  ASSUME pc \in [Processes -> States], NEW p \in Processes, NEW s \in States, Become(p, s)
  PROVE  /\ pc' \in [Processes -> States] /\ pc'[p] = s
         /\ \A q \in Processes : q # p => pc'[q] = pc[q]
BY DEF Become

DatabaseType ==
  /\ rows \in [Versions -> Files \cup {None}] /\ executed \in Seq(Bodies)
  /\ meta \in [Keys -> Ids \cup {None}] /\ events \subseteq Ids
Work == [rows : [Versions -> Files \cup {None}], executed : Seq(Bodies)]
ProcessType ==
  /\ lock \in Processes \cup {None}
  /\ work = None \/ work \in Work
  /\ pc \in [Processes -> States]
  /\ build \in [Processes -> Builds \cup {{}}]
  /\ found \in [Processes -> [Keys -> Ids \cup {None}]]
  /\ at \in [Processes -> 1 .. MaxVersion + 1] /\ starts \in 0 .. MaxStarts

LEMMA TypeParts == TypeOK <=> DatabaseType /\ ProcessType
BY DEF TypeOK, DatabaseType, ProcessType, Work, Files, States

Inv == TypeOK /\ SchemaInv /\ IdInv

---------------------------------------------------------------------------
(* Steps that leave the schema alone *)

\* What a process knows stays true as long as nobody commits and, while it has a
\* transaction, nobody else touches it.
LEMMA OwnKept ==
  ASSUME NEW q \in Processes, Own(q), UNCHANGED <<rows, executed>>,
         pc'[q] = pc[q], build'[q] = build[q], at'[q] = at[q],
         work' = work \/ pc[q] \notin Working
  PROVE  Own(q)'
<1>1. frags(q)' = frags(q)
  BY DEF frags
<1>2. Ordered(q)'
  BY DEF Own, Ordered
<1>3. Applied(q)'
  BY <1>1 DEF Own, Applied
<1>4. Works(q)'
  BY <1>1 DEF Own, Works, Working
<1> QED BY <1>2, <1>3, <1>4 DEF Own

\* A process moves between states without a transaction.
LEMMA Outside ==
  ASSUME TypeOK, SchemaInv, UNCHANGED <<rows, executed, lock, work>>, NEW p \in Processes,
         NEW s \in States \ Working, Become(p, s), pc[p] \notin Working,
         \A q \in Processes : q # p => build'[q] = build[q] /\ at'[q] = at[q],
         Ordered(p)', Applied(p)'
  PROVE  SchemaInv'
<1>1. pc'[p] = s /\ \A q \in Processes : q # p => pc'[q] = pc[q]
  BY Moved DEF TypeOK, States
<1>2. LockInv'
  BY <1>1 DEF SchemaInv, LockInv
<1>3. HistorySound'
  BY DEF SchemaInv, HistorySound
<1>4. Works(p)'
  BY <1>1 DEF Works, Working
<1>5. \A q \in Processes : q # p => Own(q)'
  BY <1>1, OwnKept DEF SchemaInv
<1> QED BY <1>2, <1>3, <1>4, <1>5 DEF SchemaInv, Own

\* The process that has the lock lets it go.
LEMMA Releases ==
  ASSUME TypeOK, SchemaInv, UNCHANGED <<rows, executed, work>>, NEW p \in Processes,
         NEW s \in States \ Working, Become(p, s),
         lock' = (IF lock = p THEN None ELSE lock),
         \A q \in Processes : q # p => build'[q] = build[q] /\ at'[q] = at[q],
         Ordered(p)', Applied(p)'
  PROVE  SchemaInv'
<1>1. pc'[p] = s /\ \A q \in Processes : q # p => pc'[q] = pc[q]
  BY Moved DEF TypeOK, States
<1>2. LockInv'
  <2>1. ASSUME NEW q \in Processes
        PROVE  lock' = q <=> pc'[q] \in Working
    <3>1. lock = q <=> pc[q] \in Working
      BY DEF SchemaInv, LockInv
    <3>2. None # q /\ None # p
      BY StartupAssumption DEF StartupAssumption
    <3> QED BY <1>1, <3>1, <3>2
  <2> QED BY <2>1 DEF LockInv
<1>3. HistorySound'
  BY DEF SchemaInv, HistorySound
<1>4. Works(p)'
  BY <1>1 DEF Works, Working
<1>5. \A q \in Processes : q # p => Own(q)'
  BY <1>1, OwnKept DEF SchemaInv
<1> QED BY <1>2, <1>3, <1>4, <1>5 DEF SchemaInv, Own

LEMMA StatesOf ==
  /\ Working \subseteq States /\ Open \subseteq States \ Working /\ Opening \subseteq States
  /\ Ran \subseteq Opening \cup Open /\ {"down", "refused", "apply", "look"} \subseteq States \ Working
  /\ {"down", "refused", "look"} \cap Ran = {} /\ Open \subseteq Ran /\ Working \subseteq Ran
  /\ {"down", "refused"} \cap (Opening \cup Open) = {} /\ Open \cap Working = {}
BY DEF States, Working, Open, Opening, Ran

LEMMA StartSchema ==
  ASSUME TypeOK, SchemaInv, NEW p \in Processes, NEW b \in Builds, Start(p, b)
  PROVE  SchemaInv'
<1>1. PICK s \in {"look", "refused"} : Become(p, s) /\ (s = "look" => Numbered(b))
  BY DEF Start
<1>2. /\ UNCHANGED <<rows, executed, lock, work, at>> /\ build'[p] = b
      /\ pc[p] \notin Working /\ pc'[p] = s /\ s \in States \ Working
      /\ \A q \in Processes : q # p => build'[q] = build[q]
  BY <1>1, Moved, StatesOf DEF Start, database, TypeOK, States, Working
<1>3. Ordered(p)'
  BY <1>1, <1>2, StatesOf DEF Ordered
<1>4. Applied(p)'
  BY <1>2, StatesOf DEF Applied
<1> QED BY <1>1, <1>2, <1>3, <1>4, Outside

\* Whoever verified the rows of schema_version has found its own fragments.
LEMMA LookSchema ==
  ASSUME TypeOK, SchemaInv, NEW p \in Processes, Look(p)
  PROVE  SchemaInv'
<1>1. /\ UNCHANGED <<rows, executed, meta, events, work, build>> /\ pc[p] = "look"
      /\ Own(p) /\ HistorySound
  BY DEF Look, database, SchemaInv
<1>2. pc[p] \notin Working /\ lock # p /\ pc[p] \in Opening
  BY <1>1 DEF SchemaInv, LockInv, Working, Opening
<1>3. CASE \A k \in 0 .. Len(frags(p)) : ~verify(frags(p), k)
  <2>1. Refuse(p) /\ UNCHANGED at
    BY <1>3 DEF Look
  <2>2. pc'[p] = "refused" /\ "refused" \in States \ Working
    BY <2>1, Moved, StatesOf DEF Refuse, TypeOK, States
  <2>3. Ordered(p)' /\ Applied(p)'
    BY <2>2, StatesOf DEF Ordered, Applied
  <2> QED BY <1>1, <2>1, <2>2, <2>3, Releases DEF Refuse
<1>4. CASE \E k \in 0 .. Len(frags(p)) : verify(frags(p), k)
  <2>1. PICK k \in 0 .. Len(frags(p)) :
          /\ verify(frags(p), k)
          /\ at' = [at EXCEPT ![p] = k + 1] /\ Become(p, "apply") /\ UNCHANGED lock
    BY <1>4 DEF Look
  <2>2. pc'[p] = "apply" /\ "apply" \in States \ Working
    BY <2>1, Moved, StatesOf DEF TypeOK, States
  <2>3. at'[p] = k + 1 /\ \A q \in Processes : q # p => at'[q] = at[q]
    BY <2>1 DEF TypeOK
  <2>4. /\ Len(frags(p)) \in 0 .. MaxVersion /\ MaxVersion \in Nat
        /\ \A i \in 1 .. Len(frags(p)) : frags(p)[i] # None
    BY <1>1, <1>2, OwnFragments, StartupAssumption DEF Own, StartupAssumption
  <2>5. \A i \in 1 .. k : i \in Versions /\ rows[i] = frags(p)[i] /\ rows[i] # None
    BY <2>1, <2>4 DEF verify, Versions
  <2>6. \A i \in 1 .. k : i <= Len(executed) /\ executed[i] = frags(p)[i].body
    BY <1>1, <2>5 DEF HistorySound
  <2>7. Len(executed) \in Nat
    BY DEF TypeOK
  <2>8. Applied(p)'
    <3>1. frags(p)' = frags(p)
      BY <1>1 DEF frags
    <3>2. k <= Len(executed)
      BY <2>4, <2>6, <2>7
    <3>3. at'[p] - 1 = k
      BY <2>3
    <3> QED BY <1>1, <2>2, <2>6, <3>1, <3>2, <3>3 DEF Applied, Working, Open
  <2>9. Ordered(p)'
    BY <1>1, <1>2 DEF Own, Ordered
  <2> QED BY <1>1, <1>2, <2>1, <2>2, <2>3, <2>8, <2>9, Outside
<1> QED BY <1>3, <1>4

\* The steps after store.Open: the event and the secret.
LEMMA OpenSchema ==
  ASSUME TypeOK, SchemaInv, UNCHANGED <<rows, executed, lock, work, build, at>>,
         NEW p \in Processes, NEW s \in Open, Become(p, s),
         pc[p] \in Open \/ (pc[p] = "apply" /\ at[p] > Len(frags(p)))
  PROVE  SchemaInv'
<1>1. pc'[p] = s /\ s \in States \ Working /\ s \in Ran /\ s \in Opening \cup Open
  BY Moved, StatesOf DEF TypeOK, States
<1>2. pc[p] \in Ran /\ pc[p] \in Opening \cup Open /\ pc[p] \notin Working /\ Own(p)
  BY DEF Ran, Opening, Open, Working, SchemaInv
<1>3. frags(p)' = frags(p) /\ Len(frags(p)) \in Nat /\ at[p] \in Nat
  BY <1>2, OwnFragments, StartupAssumption DEF frags, Own, TypeOK, StartupAssumption
<1>4. Applied(p)'
  BY <1>1, <1>2, <1>3 DEF Own, Applied, Ran, Open, Working
<1>5. Ordered(p)'
  BY <1>1, <1>2 DEF Own, Ordered
<1> QED BY <1>1, <1>2, <1>4, <1>5, Outside

LEMMA StopSchema ==
  ASSUME TypeOK, SchemaInv, NEW p \in Processes, Stop(p)
  PROVE  SchemaInv'
<1>1. pc'[p] = "down" /\ "down" \in States \ Working
  BY Moved, StatesOf DEF Stop, TypeOK, States
<1>2. Ordered(p)' /\ Applied(p)'
  BY <1>1, StatesOf DEF Ordered, Applied
<1> QED BY <1>1, <1>2, Releases DEF Stop, database

---------------------------------------------------------------------------
(* The transaction that applies a fragment *)

\* A step within the transaction of p, or its beginning.
LEMMA Within ==
  ASSUME TypeOK, SchemaInv, UNCHANGED <<rows, executed, build, at>>,
         NEW p \in Processes, NEW s \in Working, Become(p, s), lock' = p, lock \in {None, p},
         pc[p] = "apply" \/ pc[p] \in Working, at[p] <= Len(frags(p)), Works(p)'
  PROVE  SchemaInv'
<1>1. pc'[p] = s /\ \A q \in Processes : q # p => pc'[q] = pc[q]
  BY Moved, StatesOf DEF TypeOK, States
<1>2. Own(p) /\ pc[p] \in Ran /\ pc[p] \in Opening \cup Open /\ s \in Ran /\ s \in Opening \cup Open
  BY DEF SchemaInv, Ran, Working, Opening, Open
<1>3. \A q \in Processes : q # p => pc[q] \notin Working
  BY StartupAssumption DEF StartupAssumption, SchemaInv, LockInv
<1>4. LockInv'
  BY <1>1, <1>3 DEF LockInv
<1>5. HistorySound'
  BY DEF SchemaInv, HistorySound
<1>6. frags(p)' = frags(p)
  BY DEF frags
<1>7. Applied(p)'
  BY <1>1, <1>2, <1>6, StatesOf DEF Own, Applied
<1>8. Ordered(p)'
  BY <1>1, <1>2 DEF Own, Ordered
<1>9. \A q \in Processes : q # p => Own(q)'
  BY <1>1, <1>3, OwnKept DEF SchemaInv
<1> QED BY <1>4, <1>5, <1>7, <1>8, <1>9 DEF SchemaInv, Own

\* What is known in a transaction of p about its next fragment.
LEMMA InTransaction ==
  ASSUME TypeOK, SchemaInv, NEW p \in Processes, pc[p] \in Working
  PROVE  /\ lock = p /\ Own(p) /\ at[p] \in Versions /\ at[p] <= Len(frags(p))
         /\ at[p] <= Len(executed) + 1 /\ Len(executed) \in Nat
         /\ frags(p)[at[p]] \in build[p] /\ frags(p)[at[p]] \in Files
         /\ frags(p)[at[p]].number = at[p] /\ frags(p)[at[p]] # None
         /\ frags(p)[at[p]].body \in Bodies /\ Len(frags(p)) <= MaxVersion
         /\ rows[at[p]] # None => rows[at[p]].number = at[p] /\ at[p] <= Len(executed)
                                  /\ rows[at[p]].body = executed[at[p]]
         /\ rows[at[p]] = None => at[p] = Len(executed) + 1
<1>1. lock = p /\ Own(p) /\ pc[p] \in Ran /\ pc[p] \in Opening \cup Open /\ HistorySound
  BY DEF SchemaInv, LockInv, Ran, Working, Opening
<1>2. at[p] \in Nat \ {0} /\ Len(executed) \in Nat /\ MaxVersion \in Nat
  BY StartupAssumption DEF StartupAssumption, TypeOK
<1>3. at[p] <= Len(frags(p)) /\ at[p] - 1 <= Len(executed)
  BY <1>1 DEF Own, Applied
<1>4. Len(frags(p)) \in 0 .. MaxVersion
  BY <1>1, OwnFragments DEF Own
<1>5. at[p] \in Versions /\ at[p] \in 1 .. Len(frags(p))
  BY <1>2, <1>3, <1>4 DEF Versions
<1>6. /\ frags(p)[at[p]] \in build[p] /\ frags(p)[at[p]] \in Files
      /\ frags(p)[at[p]].number = at[p] /\ frags(p)[at[p]] # None
      /\ frags(p)[at[p]].body \in Bodies
  BY <1>1, <1>5, OwnFragments DEF Own
<1>7. IF at[p] <= Len(executed)
        THEN rows[at[p]] # None /\ rows[at[p]].number = at[p] /\ rows[at[p]].body = executed[at[p]]
        ELSE rows[at[p]] = None
  BY <1>1, <1>5 DEF HistorySound
<1> QED BY <1>1, <1>2, <1>3, <1>4, <1>5, <1>6, <1>7

LEMMA BeginSchema ==
  ASSUME TypeOK, SchemaInv, NEW p \in Processes, Begin(p)
  PROVE  SchemaInv'
<1>1. pc'[p] = "check" /\ "check" \in Working
  BY Moved, StatesOf DEF Begin, TypeOK, States, Working
<1>2. Works(p)'
  BY <1>1 DEF Begin, database, Works
<1> QED BY <1>1, <1>2, Within DEF Begin, database

LEMMA CheckSchema ==
  ASSUME TypeOK, SchemaInv, NEW p \in Processes, Check(p)
  PROVE  SchemaInv'
<1>1. /\ pc[p] = "check" /\ pc[p] \in Working /\ work = [rows |-> rows, executed |-> executed]
      /\ UNCHANGED <<rows, executed, work, build>>
  BY DEF Check, database, Working, SchemaInv, Own, Works
<1>2. CASE rows[at[p]] = None /\ Become(p, "execute") /\ UNCHANGED <<at, lock>>
  <2>1. pc'[p] = "execute" /\ "execute" \in Working
    BY <1>2, Moved, StatesOf DEF TypeOK, States, Working
  <2>2. Works(p)'
    BY <1>1, <1>2, <2>1 DEF Works
  <2> QED BY <1>1, <1>2, <2>1, <2>2, InTransaction, Within
<1>3. CASE /\ rows[at[p]] # None /\ rows[at[p]].body = frags(p)[at[p]].body
           /\ at' = [at EXCEPT ![p] = @ + 1] /\ lock' = None /\ Become(p, "apply")
  <2>1. pc'[p] = "apply" /\ "apply" \in States \ Working
    BY <1>3, Moved, StatesOf DEF TypeOK, States
  <2>2. at'[p] = at[p] + 1 /\ at[p] \in Nat /\ \A q \in Processes : q # p => at'[q] = at[q]
    BY <1>3, StartupAssumption DEF TypeOK, StartupAssumption
  <2>3. /\ lock = p /\ Own(p) /\ at[p] <= Len(frags(p)) /\ at[p] <= Len(executed)
        /\ executed[at[p]] = frags(p)[at[p]].body
    BY <1>1, <1>3, InTransaction
  <2>4. Applied(p)'
    <3>1. frags(p)' = frags(p)
      BY <1>1 DEF frags
    <3>2. \A i \in 1 .. at[p] - 1 : executed[i] = frags(p)[i].body
      BY <1>1, <2>3, StatesOf DEF Own, Applied
    <3>3. \A i \in 1 .. at[p] : executed[i] = frags(p)[i].body
      <4>1. \A i \in 1 .. at[p] : i = at[p] \/ i \in 1 .. at[p] - 1
        BY <2>2
      <4> QED BY <2>3, <3>2, <4>1
    <3>4. at'[p] - 1 = at[p]
      BY <2>2
    <3> QED BY <1>1, <2>1, <2>3, <3>1, <3>3, <3>4 DEF Applied, Working, Open
  <2>5. Ordered(p)'
    BY <1>1, <2>3, StatesOf DEF Own, Ordered, Working, Opening
  <2> QED BY <1>1, <1>3, <2>1, <2>2, <2>3, <2>4, <2>5, Releases
<1>4. CASE Refuse(p) /\ UNCHANGED at
  <2>1. pc'[p] = "refused" /\ "refused" \in States \ Working
    BY <1>4, Moved, StatesOf DEF Refuse, TypeOK, States
  <2>2. Ordered(p)' /\ Applied(p)'
    BY <2>1, StatesOf DEF Ordered, Applied
  <2> QED BY <1>1, <1>4, <2>1, <2>2, Releases DEF Refuse
<1> QED BY <1>1, <1>2, <1>3, <1>4 DEF Check

LEMMA ExecuteSchema ==
  ASSUME TypeOK, SchemaInv, NEW p \in Processes, Execute(p)
  PROVE  SchemaInv'
<1>1. /\ pc[p] = "execute" /\ pc[p] \in Working /\ work = [rows |-> rows, executed |-> executed]
      /\ rows[at[p]] = None /\ UNCHANGED <<rows, executed, build, at>>
  BY DEF Execute, database, Working, SchemaInv, Own, Works
<1>2. CASE Refuse(p) /\ UNCHANGED work
  <2>1. pc'[p] = "refused" /\ "refused" \in States \ Working
    BY <1>2, Moved, StatesOf DEF Refuse, TypeOK, States
  <2>2. Ordered(p)' /\ Applied(p)'
    BY <2>1, StatesOf DEF Ordered, Applied
  <2> QED BY <1>1, <1>2, <2>1, <2>2, Releases DEF Refuse
<1>3. CASE /\ work' = [work EXCEPT !.executed = Append(@, frags(p)[at[p]].body)]
           /\ Become(p, "record") /\ UNCHANGED lock
  <2>1. pc'[p] = "record" /\ "record" \in Working
    BY <1>3, Moved, StatesOf DEF TypeOK, States, Working
  <2>2. frags(p)' = frags(p)
    BY <1>1 DEF frags
  <2>3. work' = [rows |-> rows, executed |-> Append(executed, frags(p)[at[p]].body)]
    BY <1>1, <1>3
  <2>4. Works(p)'
    BY <1>1, <2>1, <2>2, <2>3 DEF Works, Working
  <2> QED BY <1>1, <1>3, <2>1, <2>4, InTransaction, Within
<1> QED BY <1>2, <1>3 DEF Execute

LEMMA RecordSchema ==
  ASSUME TypeOK, SchemaInv, NEW p \in Processes, Record(p)
  PROVE  SchemaInv'
<1>1. /\ pc[p] = "record" /\ pc[p] \in Working /\ rows[at[p]] = None
      /\ work = [rows |-> rows, executed |-> Append(executed, frags(p)[at[p]].body)]
      /\ work' = [work EXCEPT !.rows[at[p]] = frags(p)[at[p]]]
      /\ Become(p, "commit") /\ UNCHANGED <<rows, executed, lock, build, at>>
  BY DEF Record, database, Working, SchemaInv, Own, Works
<1>2. pc'[p] = "commit" /\ "commit" \in Working
  BY <1>1, Moved, StatesOf DEF TypeOK, States, Working
<1>3. frags(p)' = frags(p)
  BY <1>1 DEF frags
<1>4. work' = [rows |-> [rows EXCEPT ![at[p]] = frags(p)[at[p]]],
               executed |-> Append(executed, frags(p)[at[p]].body)]
  BY <1>1
<1>5. Works(p)'
  BY <1>1, <1>2, <1>3, <1>4 DEF Works, Working
<1> QED BY <1>1, <1>2, <1>5, InTransaction, Within

\* The fragment that takes effect is the one that was missing.
LEMMA CommitSchema ==
  ASSUME TypeOK, SchemaInv, NEW p \in Processes, Commit(p)
  PROVE  SchemaInv'
<1> DEFINE new == frags(p)[at[p]]
           n   == Len(executed)
<1>1. /\ pc[p] = "commit" /\ pc[p] \in Working /\ rows[at[p]] = None
      /\ rows' = [rows EXCEPT ![at[p]] = new] /\ executed' = Append(executed, new.body)
      /\ lock' = None /\ at' = [at EXCEPT ![p] = @ + 1] /\ Become(p, "apply")
      /\ UNCHANGED <<work, build>>
  BY DEF Commit, Working, SchemaInv, Own, Works
<1>2. /\ lock = p /\ Own(p) /\ at[p] \in Versions /\ at[p] = n + 1 /\ n \in Nat
      /\ new.number = at[p] /\ new # None /\ new.body \in Bodies /\ at[p] <= Len(frags(p))
  BY <1>1, InTransaction
<1>3. pc'[p] = "apply" /\ \A q \in Processes : q # p => pc'[q] = pc[q] /\ at'[q] = at[q]
  BY <1>1, Moved, StatesOf DEF TypeOK, States
<1>4. at'[p] = at[p] + 1
  BY <1>1 DEF TypeOK
<1> HIDE DEF new
<1>5. /\ Len(executed') = n + 1 /\ executed'[n + 1] = new.body
      /\ \A i \in 1 .. n : executed'[i] = executed[i]
  BY <1>1, <1>2 DEF TypeOK
<1>6. \A v \in Versions : rows'[v] = IF v = n + 1 THEN new ELSE rows[v]
  BY <1>1, <1>2 DEF TypeOK
<1> HIDE DEF n
<1>7. HistorySound'
  <2>1. SUFFICES ASSUME NEW v \in Versions
                 PROVE  IF v <= Len(executed')
                          THEN rows'[v] # None /\ rows'[v].number = v /\ rows'[v].body = executed'[v]
                          ELSE rows'[v] = None
    BY DEF HistorySound, Versions
  <2>2. IF v <= n THEN rows[v] # None /\ rows[v].number = v /\ rows[v].body = executed[v]
        ELSE rows[v] = None
    BY DEF SchemaInv, HistorySound, n
  <2>3. CASE v = n + 1
    BY <1>2, <1>5, <1>6, <2>3
  <2>4. CASE v # n + 1
    <3>1. v \in Nat /\ 1 <= v /\ rows'[v] = rows[v]
      BY <1>6, <2>4 DEF Versions
    <3>2. CASE v <= n
      BY <1>2, <1>5, <2>2, <3>1, <3>2
    <3>3. CASE ~(v <= n)
      BY <1>2, <1>5, <2>2, <2>4, <3>1, <3>3
    <3> QED BY <3>2, <3>3
  <2> QED BY <2>3, <2>4
<1>8. LockInv'
  <2>1. ASSUME NEW q \in Processes
        PROVE  lock' = q <=> pc'[q] \in Working
    <3>1. lock = q <=> pc[q] \in Working
      BY DEF SchemaInv, LockInv
    <3>2. None # q
      BY StartupAssumption DEF StartupAssumption
    <3> QED BY <1>1, <1>2, <1>3, <3>1, <3>2 DEF Working
  <2> QED BY <2>1 DEF LockInv
<1>9. ASSUME NEW q \in Processes
      PROVE  Own(q)'
  <2>1. Own(q) /\ frags(q)' = frags(q)
    BY <1>1 DEF SchemaInv, frags
  <2>2. pc'[q] \notin Working
    <3>1. q # p => pc[q] \notin Working
      BY <1>2 DEF SchemaInv, LockInv
    <3> QED BY <1>3, <3>1 DEF Working
  <2>3. Works(q)'
    BY <2>2 DEF Works, Working
  <2>4. Ordered(q)'
    BY <1>1, <1>3, <2>1 DEF Own, Ordered, Working, Opening
  <2>5. CASE q # p
    <3>1. \A i \in 1 .. at[q] - 1 : i <= n => executed'[i] = executed[i]
      BY <1>5
    <3>2. at[q] \in Int
      BY StartupAssumption DEF TypeOK, StartupAssumption
    <3>3. pc[q] \in Ran => at[q] - 1 <= n /\ \A i \in 1 .. at[q] - 1 : executed[i] = frags(q)[i].body
      BY <2>1 DEF Own, Applied, n
    <3>4. pc[q] \in Ran => /\ at[q] - 1 <= Len(executed')
                           /\ \A i \in 1 .. at[q] - 1 : executed'[i] = frags(q)[i].body
      BY <1>2, <1>5, <3>1, <3>2, <3>3
    <3>5. Applied(q)'
      BY <1>3, <2>1, <2>5, <3>4 DEF Own, Applied
    <3> QED BY <2>3, <2>4, <3>5 DEF Own
  <2>6. CASE q = p
    <3>1. \A i \in 1 .. n : executed[i] = frags(p)[i].body
      BY <1>1, <1>2, StatesOf DEF Own, Applied
    <3>2. \A i \in 1 .. n + 1 : executed'[i] = frags(p)[i].body
      BY <1>2, <1>5, <3>1 DEF new
    <3>3. at'[p] - 1 = n + 1
      BY <1>2, <1>4
    <3>4. Applied(p)'
      BY <1>2, <1>3, <1>5, <2>1, <2>6, <3>2, <3>3 DEF Applied, Working, Open
    <3> QED BY <2>3, <2>4, <2>6, <3>4 DEF Own
  <2> QED BY <2>5, <2>6
<1> QED BY <1>7, <1>8, <1>9 DEF SchemaInv

\* The events and secrets are no part of it.
LEMMA OpenSteps ==
  ASSUME TypeOK, SchemaInv, NEW p \in Processes,
         \/ Opened(p)
         \/ InitMeta(p, "init_event", "default_event_id", "read_event")
         \/ ReadMeta(p, "read_event", "default_event_id", "insert_event")
         \/ InsertEvent(p)
         \/ InitMeta(p, "init_secret", "session_secret", "read_secret")
         \/ ReadMeta(p, "read_secret", "session_secret", "serving")
  PROVE  SchemaInv'
<1>1. PICK s \in Open : Become(p, s)
  BY DEF Opened, InitMeta, ReadMeta, InsertEvent, Open
<1>2. /\ UNCHANGED <<rows, executed, lock, work, build, at>>
      /\ pc[p] \in Open \/ (pc[p] = "apply" /\ at[p] > Len(frags(p)))
  BY DEF Opened, InitMeta, ReadMeta, InsertEvent, Open, database
<1> QED BY <1>1, <1>2, OpenSchema

LEMMA StepSchema ==
  ASSUME TypeOK, SchemaInv, [Next]_vars
  PROVE  SchemaInv'
<1>1. CASE UNCHANGED vars
  <2>1. \A q \in Processes : Own(q)'
    BY <1>1, OwnKept DEF vars, database, SchemaInv
  <2> QED BY <1>1, <2>1 DEF vars, database, SchemaInv, LockInv, HistorySound
<1>2. ASSUME NEW p \in Processes, Step(p)
      PROVE  SchemaInv'
  BY <1>2, LookSchema, BeginSchema, CheckSchema, ExecuteSchema, RecordSchema, CommitSchema, OpenSteps
     DEF Step
<1> QED BY <1>1, <1>2, StopSchema, StartSchema DEF Next

---------------------------------------------------------------------------
(* The event and the secret *)

\* A value that is stored stays.
LEMMA Kept ==
  ASSUME TypeOK, [Next]_vars, NEW key \in Keys, meta[key] # None
  PROVE  meta'[key] = meta[key]
<1>1. CASE UNCHANGED meta
  BY <1>1
<1>2. ASSUME NEW p \in Processes, NEW k \in Keys, NEW from, NEW next, InitMeta(p, from, k, next)
      PROVE  meta'[key] = meta[key]
  BY <1>2 DEF InitMeta, stored, TypeOK
<1>3. UNCHANGED meta \/ \E p \in Processes, k \in Keys, from, next \in States : InitMeta(p, from, k, next)
  <2>1. ASSUME NEW p \in Processes, Step(p)
        PROVE  UNCHANGED meta \/ InitMeta(p, "init_event", "default_event_id", "read_event")
                              \/ InitMeta(p, "init_secret", "session_secret", "read_secret")
    BY <2>1 DEF Step, Look, Begin, Check, Execute, Record, Commit, Opened, ReadMeta, InsertEvent, database
  <2>2. ASSUME NEW p \in Processes, Stop(p) \/ \E files \in Builds : Start(p, files)
        PROVE  UNCHANGED meta
    BY <2>2 DEF Stop, Start, database
  <2>3. CASE UNCHANGED vars
    BY <2>3 DEF vars, database
  <2> QED BY <2>1, <2>2, <2>3 DEF Next, Keys, States, Open
<1> QED BY <1>1, <1>2, <1>3

LEMMA KnowsKept ==
  ASSUME NEW q \in Processes, Knows(q), OnlyEvent, events \subseteq events',
         \A key \in Keys : meta[key] # None => meta'[key] = meta[key],
         pc'[q] = pc[q], found'[q] = found[q]
  PROVE  Knows(q)'
BY DEF Knows, Read, OnlyEvent, Keys

\* One process moves; it knows something new only in the steps after store.Open.
LEMMA IdStep ==
  ASSUME TypeOK, IdInv, [Next]_vars, NEW p \in Processes,
         \A q \in Processes : q # p => pc'[q] = pc[q] /\ found'[q] = found[q],
         Knows(p)', events' = events \/ events' = events \cup {meta["default_event_id"]},
         events' # {} => meta["default_event_id"] # None
  PROVE  IdInv'
<1>1. \A key \in Keys : meta[key] # None => meta'[key] = meta[key]
  BY Kept
<1>2. events \subseteq events' /\ OnlyEvent
  BY DEF IdInv
<1>3. \A q \in Processes : q # p => Knows(q)'
  BY <1>1, <1>2, KnowsKept DEF IdInv
<1>4. OnlyEvent'
  <2>1. CASE events' = {}
    BY <2>1 DEF OnlyEvent
  <2>2. CASE events' # {}
    <3>1. meta'["default_event_id"] = meta["default_event_id"] /\ meta["default_event_id"] # None
      BY <1>1, <2>2 DEF Keys
    <3> QED BY <1>2, <3>1 DEF OnlyEvent
  <2> QED BY <2>1, <2>2
<1> QED BY <1>3, <1>4 DEF IdInv

\* What a process becomes that is not past store.Open knows nothing.
LEMMA Ignorant ==
  ASSUME TypeOK, NEW p \in Processes,
         NEW s \in ({"down", "refused", "init_event"} \cup Opening), Become(p, s)
  PROVE  Knows(p)' /\ \A q \in Processes : q # p => pc'[q] = pc[q]
<1>1. s \in States
  BY DEF States, Open
<1>2. pc'[p] = s /\ \A q \in Processes : q # p => pc'[q] = pc[q]
  BY <1>1, Moved DEF TypeOK, States
<1> QED BY <1>2 DEF Knows, Opening, Open

LEMMA StepId ==
  ASSUME TypeOK, IdInv, [Next]_vars
  PROVE  IdInv'
<1>0. OnlyEvent /\ (events # {} => meta["default_event_id"] # None)
  BY DEF IdInv, OnlyEvent
<1>1. CASE UNCHANGED vars
  <2>1. \A q \in Processes : Knows(q)'
    BY <1>1, KnowsKept DEF vars, database, IdInv
  <2> QED BY <1>1, <2>1 DEF vars, database, IdInv, OnlyEvent
<1>2. ASSUME NEW p \in Processes,
             \/ Look(p) \/ Begin(p) \/ Check(p) \/ Execute(p) \/ Record(p) \/ Commit(p)
             \/ Opened(p) \/ Stop(p) \/ \E files \in Builds : Start(p, files)
      PROVE  IdInv'
  <2>1. /\ events' = events
        /\ \A q \in Processes : q # p => found'[q] = found[q]
    BY <1>2 DEF Look, Begin, Check, Execute, Record, Commit, Opened, Stop, Start, database, TypeOK
  <2>2. PICK s \in {"down", "refused", "init_event"} \cup Opening : Become(p, s)
    BY <1>2 DEF Look, Begin, Check, Execute, Record, Commit, Opened, Stop, Start, Refuse, Opening
  <2> QED BY <1>0, <2>1, <2>2, Ignorant, IdStep
<1>3. ASSUME NEW p \in Processes, NEW key \in Keys, NEW from, NEW next \in Open,
             InitMeta(p, from, key, next)
      PROVE  /\ pc'[p] = next /\ found' = found /\ events' = events
             /\ \A q \in Processes : q # p => pc'[q] = pc[q] /\ found'[q] = found[q]
             /\ meta'[key] # None
  <2>1. pc'[p] = next /\ \A q \in Processes : q # p => pc'[q] = pc[q]
    BY <1>3, Moved, StatesOf DEF InitMeta, TypeOK, States
  <2>2. meta'[key] # None
    BY <1>3, StartupAssumption DEF InitMeta, stored, StartupAssumption, TypeOK
  <2> QED BY <1>3, <2>1, <2>2 DEF InitMeta
<1>4. ASSUME NEW p \in Processes, NEW key \in Keys, NEW from, NEW next \in Open,
             ReadMeta(p, from, key, next)
      PROVE  /\ pc'[p] = next /\ UNCHANGED <<meta, events>>
             /\ \A q \in Processes : q # p => pc'[q] = pc[q] /\ found'[q] = found[q]
             /\ found'[p][key] = meta[key]
             /\ \A k \in Keys : k # key => found'[p][k] = found[p][k]
  <2>1. pc'[p] = next /\ \A q \in Processes : q # p => pc'[q] = pc[q]
    BY <1>4, Moved, StatesOf DEF ReadMeta, TypeOK, States
  <2>2. found \in [Processes -> [Keys -> Ids \cup {None}]] /\ found' = [found EXCEPT ![p][key] = meta[key]]
    BY <1>4 DEF ReadMeta, TypeOK
  <2>3. found'[p] = [found[p] EXCEPT ![key] = meta[key]] /\ found[p] \in [Keys -> Ids \cup {None}]
    BY <2>2
  <2>4. \A q \in Processes : q # p => found'[q] = found[q]
    BY <2>2
  <2>5. UNCHANGED <<meta, events>>
    BY <1>4 DEF ReadMeta, database
  <2> QED BY <2>1, <2>3, <2>4, <2>5
<1>5. \A key \in Keys : meta[key] # None => meta'[key] = meta[key]
  BY Kept
<1>6. ASSUME NEW p \in Processes, InitMeta(p, "init_event", "default_event_id", "read_event")
      PROVE  IdInv'
  <2>1. /\ pc'[p] = "read_event" /\ events' = events /\ meta'["default_event_id"] # None
        /\ \A q \in Processes : q # p => pc'[q] = pc[q] /\ found'[q] = found[q]
    BY <1>3, <1>6 DEF Keys, Open
  <2>2. Knows(p)'
    BY <2>1 DEF Knows
  <2> QED BY <1>0, <2>1, <2>2, IdStep
<1>7. ASSUME NEW p \in Processes, ReadMeta(p, "read_event", "default_event_id", "insert_event")
      PROVE  IdInv'
  <2>1. /\ pc'[p] = "insert_event" /\ UNCHANGED <<meta, events>>
        /\ found'[p]["default_event_id"] = meta["default_event_id"]
        /\ \A q \in Processes : q # p => pc'[q] = pc[q] /\ found'[q] = found[q]
    BY <1>4, <1>7 DEF Keys, Open
  <2>2. meta["default_event_id"] # None
    BY <1>7 DEF ReadMeta, IdInv, Knows
  <2>3. Knows(p)'
    BY <2>1, <2>2 DEF Knows, Read
  <2> QED BY <1>0, <2>1, <2>3, IdStep
<1>8. ASSUME NEW p \in Processes, InsertEvent(p)
      PROVE  IdInv'
  <2>1. Read(p, "default_event_id") /\ UNCHANGED <<meta, found>>
        /\ events' = events \cup {meta["default_event_id"]}
    BY <1>8 DEF InsertEvent, IdInv, Knows, Read, Open
  <2>2. pc'[p] = "init_secret" /\ \A q \in Processes : q # p => pc'[q] = pc[q]
    BY <1>8, Moved DEF InsertEvent, TypeOK, States, Open
  <2>3. Knows(p)'
    BY <2>1, <2>2 DEF Knows, Read
  <2> QED BY <2>1, <2>2, <2>3, IdStep DEF Read
<1>9. ASSUME NEW p \in Processes, InitMeta(p, "init_secret", "session_secret", "read_secret")
      PROVE  IdInv'
  <2>1. /\ pc'[p] = "read_secret" /\ UNCHANGED <<events, found>> /\ meta'["session_secret"] # None
        /\ \A q \in Processes : q # p => pc'[q] = pc[q] /\ found'[q] = found[q]
    BY <1>3, <1>9 DEF Keys, Open
  <2>2. Read(p, "default_event_id") /\ meta["default_event_id"] \in events
    BY <1>9 DEF InitMeta, IdInv, Knows, Open
  <2>3. meta'["default_event_id"] = meta["default_event_id"]
    BY <1>5, <2>2 DEF Read, Keys
  <2>4. Knows(p)'
    BY <2>1, <2>2, <2>3 DEF Knows, Read
  <2> QED BY <1>0, <2>1, <2>4, IdStep
<1>10. ASSUME NEW p \in Processes, ReadMeta(p, "read_secret", "session_secret", "serving")
       PROVE  IdInv'
  <2>1. /\ pc'[p] = "serving" /\ UNCHANGED <<meta, events>>
        /\ found'[p]["session_secret"] = meta["session_secret"]
        /\ found'[p]["default_event_id"] = found[p]["default_event_id"]
        /\ \A q \in Processes : q # p => pc'[q] = pc[q] /\ found'[q] = found[q]
    BY <1>4, <1>10 DEF Keys, Open
  <2>2. /\ Read(p, "default_event_id") /\ meta["default_event_id"] \in events
        /\ meta["session_secret"] # None
    BY <1>10 DEF ReadMeta, IdInv, Knows, Open
  <2>3. Knows(p)'
    BY <2>1, <2>2 DEF Knows, Read
  <2> QED BY <1>0, <2>1, <2>3, IdStep
<1> QED BY <1>1, <1>2, <1>6, <1>7, <1>8, <1>9, <1>10 DEF Next, Step

---------------------------------------------------------------------------
(* Types, and the theorems *)

\* Steps that change neither the database nor the transaction.
LEMMA AsideType ==
  ASSUME TypeOK, UNCHANGED <<database, work>>, NEW p \in Processes, NEW s \in States, Become(p, s),
         lock' \in Processes \cup {None}, build' \in [Processes -> Builds \cup {{}}],
         found' \in [Processes -> [Keys -> Ids \cup {None}]],
         at' \in [Processes -> 1 .. MaxVersion + 1], starts' \in 0 .. MaxStarts
  PROVE  TypeOK'
<1>1. pc' \in [Processes -> States]
  BY Moved DEF TypeOK, States
<1> QED BY <1>1, TypeParts DEF TypeOK, DatabaseType, ProcessType, database, Work, States

LEMMA NextFragment ==
  ASSUME TypeOK, SchemaInv, NEW p \in Processes, pc[p] \in Working
  PROVE  [at EXCEPT ![p] = @ + 1] \in [Processes -> 1 .. MaxVersion + 1]
<1>1. at[p] + 1 \in 1 .. MaxVersion + 1
  BY InTransaction, StartupAssumption DEF StartupAssumption, Versions
<1> QED BY <1>1 DEF TypeOK

LEMMA StepType ==
  ASSUME Inv, [Next]_vars, IdInv'
  PROVE  TypeOK'
<1>0. DatabaseType /\ ProcessType /\ TypeOK /\ SchemaInv /\ IdInv
  BY TypeParts DEF Inv
<1>1. CASE UNCHANGED vars
  <2>1. DatabaseType' /\ ProcessType'
    BY <1>0, <1>1 DEF vars, database, DatabaseType, ProcessType
  <2> QED BY <2>1 DEF TypeOK, DatabaseType, ProcessType, Work, States
<1>2. ASSUME NEW p \in Processes, NEW b \in Builds, Start(p, b)
      PROVE  TypeOK'
  <2>1. PICK s \in {"look", "refused"} : Become(p, s)
    BY <1>2 DEF Start
  <2>2. s \in States
    BY DEF States, Opening
  <2>3. build' \in [Processes -> Builds \cup {{}}] /\ starts' \in 0 .. MaxStarts
    BY <1>0, <1>2, StartupAssumption DEF Start, ProcessType, StartupAssumption
  <2>4. NoIds \in [Keys -> Ids \cup {None}]
    BY DEF NoIds
  <2>5. found' \in [Processes -> [Keys -> Ids \cup {None}]]
    BY <1>0, <1>2, <2>4 DEF Start, ProcessType
  <2> QED BY <1>0, <1>2, <2>1, <2>2, <2>3, <2>5, AsideType DEF Start, ProcessType, database
<1>3. ASSUME NEW p \in Processes, Look(p)
      PROVE  TypeOK'
  <2>1. PICK s \in {"apply", "refused"} : Become(p, s)
    BY <1>3 DEF Look, Refuse
  <2>2. s \in States
    BY DEF States, Opening
  <2>3. Len(frags(p)) \in 0 .. MaxVersion
    BY <1>0, <1>3, OwnFragments DEF Look, SchemaInv, Own, Opening
  <2>4. at' \in [Processes -> 1 .. MaxVersion + 1]
    <3>1. at' = at \/ \E k \in 0 .. Len(frags(p)) : at' = [at EXCEPT ![p] = k + 1]
      BY <1>3 DEF Look
    <3>2. \A k \in 0 .. Len(frags(p)) : k + 1 \in 1 .. MaxVersion + 1
      BY <2>3, StartupAssumption DEF StartupAssumption
    <3> QED BY <1>0, <3>1, <3>2 DEF ProcessType
  <2>5. lock' \in Processes \cup {None}
    BY <1>0, <1>3 DEF Look, Refuse, ProcessType
  <2> QED BY <1>0, <1>3, <2>1, <2>2, <2>4, <2>5, AsideType DEF Look, ProcessType
<1>4. ASSUME NEW p \in Processes, Opened(p) \/ Stop(p)
      PROVE  TypeOK'
  <2>1. PICK s \in {"init_event", "down"} : Become(p, s)
    BY <1>4 DEF Opened, Stop
  <2>2. s \in States
    BY DEF States, Open
  <2>3. lock' \in Processes \cup {None}
    BY <1>0, <1>4 DEF Opened, Stop, ProcessType
  <2> QED BY <1>0, <1>4, <2>1, <2>2, <2>3, AsideType DEF Opened, Stop, ProcessType
<1>5. ASSUME NEW p \in Processes, Check(p)
      PROVE  TypeOK'
  <2>1. PICK s \in {"execute", "apply", "refused"} : Become(p, s)
    BY <1>5 DEF Check, Refuse
  <2>2. s \in States
    BY DEF States, Opening
  <2>3. pc[p] \in Working
    BY <1>5 DEF Check, Working
  <2>4. at' = at \/ at' = [at EXCEPT ![p] = @ + 1]
    BY <1>5 DEF Check
  <2>5. at' \in [Processes -> 1 .. MaxVersion + 1]
    BY <1>0, <2>3, <2>4, NextFragment DEF ProcessType
  <2>6. lock' \in Processes \cup {None}
    BY <1>0, <1>5 DEF Check, Refuse, ProcessType
  <2> QED BY <1>0, <1>5, <2>1, <2>2, <2>5, <2>6, AsideType DEF Check, ProcessType
<1>6. ASSUME NEW p \in Processes, Begin(p) \/ Execute(p) \/ Record(p)
      PROVE  TypeOK'
  <2>1. PICK s \in {"check", "refused", "record", "commit"} : Become(p, s)
    BY <1>6 DEF Begin, Execute, Record, Refuse
  <2>2. pc' \in [Processes -> States]
    <3>1. s \in States
      BY DEF States, Opening
    <3> QED BY <1>0, <2>1, <3>1, Moved DEF ProcessType
  <2>3. UNCHANGED <<database, build, at, found, starts>>
    BY <1>6 DEF Begin, Execute, Record
  <2>4. lock' \in Processes \cup {None}
    BY <1>0, <1>6 DEF Begin, Execute, Record, Refuse, ProcessType
  <2>5. work' = None \/ work' \in Work
    <3>1. CASE Begin(p)
      BY <1>0, <3>1 DEF Begin, DatabaseType, Work
    <3>2. CASE Execute(p)
      <4>1. pc[p] \in Working /\ work = [rows |-> rows, executed |-> executed]
        BY <1>0, <3>2 DEF Execute, Working, SchemaInv, Own, Works
      <4>2. work' = work \/ work' = [work EXCEPT !.executed = Append(@, frags(p)[at[p]].body)]
        BY <3>2 DEF Execute
      <4>3. frags(p)[at[p]].body \in Bodies
        BY <1>0, <4>1, InTransaction
      <4>4. Append(executed, frags(p)[at[p]].body) \in Seq(Bodies)
        BY <1>0, <4>3 DEF DatabaseType
      <4>5. \/ work' = work
            \/ work' = [rows |-> rows, executed |-> Append(executed, frags(p)[at[p]].body)]
        BY <4>1, <4>2
      <4>6. [rows |-> rows, executed |-> Append(executed, frags(p)[at[p]].body)] \in Work
        BY <1>0, <4>4 DEF DatabaseType, Work
      <4> QED BY <1>0, <4>5, <4>6 DEF ProcessType
    <3>3. CASE Record(p)
      <4>1. /\ pc[p] \in Working
            /\ work = [rows |-> rows, executed |-> Append(executed, frags(p)[at[p]].body)]
        BY <1>0, <3>3 DEF Record, Working, SchemaInv, Own, Works
      <4>2. /\ frags(p)[at[p]].body \in Bodies /\ frags(p)[at[p]] \in Files
        BY <1>0, <4>1, InTransaction
      <4>3. Append(executed, frags(p)[at[p]].body) \in Seq(Bodies)
        BY <1>0, <4>2 DEF DatabaseType
      <4>4. work' = [rows |-> [rows EXCEPT ![at[p]] = frags(p)[at[p]]],
                     executed |-> Append(executed, frags(p)[at[p]].body)]
        BY <3>3, <4>1 DEF Record
      <4>5. [rows EXCEPT ![at[p]] = frags(p)[at[p]]] \in [Versions -> Files \cup {None}]
        BY <1>0, <4>2 DEF DatabaseType
      <4> QED BY <4>3, <4>4, <4>5 DEF Work
    <3> QED BY <1>6, <3>1, <3>2, <3>3
  <2>6. DatabaseType' /\ ProcessType'
    BY <1>0, <2>2, <2>3, <2>4, <2>5 DEF database, DatabaseType, ProcessType
  <2> QED BY <2>6 DEF TypeOK, DatabaseType, ProcessType, Work, States
<1>7. ASSUME NEW p \in Processes, Commit(p)
      PROVE  TypeOK'
  <2>1. /\ pc[p] \in Working
        /\ work = [rows |-> [rows EXCEPT ![at[p]] = frags(p)[at[p]]],
                    executed |-> Append(executed, frags(p)[at[p]].body)]
    BY <1>0, <1>7 DEF Commit, Working, SchemaInv, Own, Works
  <2>2. /\ frags(p)[at[p]].body \in Bodies /\ frags(p)[at[p]] \in Files
    BY <1>0, <2>1, InTransaction
  <2>3. executed' \in Seq(Bodies)
    BY <1>0, <1>7, <2>1, <2>2 DEF Commit, DatabaseType
  <2>4. rows' \in [Versions -> Files \cup {None}]
    BY <1>0, <1>7, <2>1, <2>2 DEF Commit, DatabaseType
  <2>5. pc' \in [Processes -> States]
    <3>1. "apply" \in States
      BY DEF States, Opening
    <3> QED BY <1>0, <1>7, <3>1, Moved DEF Commit, ProcessType
  <2>6. at' \in [Processes -> 1 .. MaxVersion + 1]
    BY <1>0, <1>7, <2>1, NextFragment DEF Commit
  <2>7. DatabaseType' /\ ProcessType'
    BY <1>0, <1>7, <2>3, <2>4, <2>5, <2>6 DEF Commit, DatabaseType, ProcessType
  <2> QED BY <2>7 DEF TypeOK, DatabaseType, ProcessType, Work, States
<1>8. ASSUME NEW p \in Processes, NEW key \in Keys, NEW from, NEW next \in Open,
             InitMeta(p, from, key, next)
      PROVE  TypeOK'
  <2>1. meta' \in [Keys -> Ids \cup {None}]
    BY <1>0, <1>8 DEF InitMeta, stored, DatabaseType
  <2>2. pc' \in [Processes -> States]
    BY <1>0, <1>8, Moved, StatesOf DEF InitMeta, ProcessType
  <2>3. DatabaseType' /\ ProcessType'
    BY <1>0, <1>8, <2>1, <2>2 DEF InitMeta, DatabaseType, ProcessType
  <2> QED BY <2>3 DEF TypeOK, DatabaseType, ProcessType, Work, States
<1>9. ASSUME NEW p \in Processes, NEW key \in Keys, NEW from, NEW next \in Open,
             ReadMeta(p, from, key, next)
      PROVE  TypeOK'
  <2>1. found' \in [Processes -> [Keys -> Ids \cup {None}]]
    <3>1. found' = [found EXCEPT ![p] = [found[p] EXCEPT ![key] = meta[key]]]
      BY <1>9 DEF ReadMeta
    <3>2. [found[p] EXCEPT ![key] = meta[key]] \in [Keys -> Ids \cup {None}]
      BY <1>0 DEF DatabaseType, ProcessType
    <3> QED BY <1>0, <3>1, <3>2 DEF ProcessType
  <2> QED BY <1>0, <1>9, <2>1, StatesOf, AsideType DEF ReadMeta, ProcessType
<1>10. ASSUME NEW p \in Processes, InsertEvent(p)
       PROVE  TypeOK'
  <2>1. pc' \in [Processes -> States]
    BY <1>0, <1>10, Moved, StatesOf DEF InsertEvent, ProcessType, Open
  <2>2. events' \subseteq Ids
    <3>1. events' \subseteq {meta'["default_event_id"]} /\ None \notin events' /\ meta' = meta
      BY <1>10 DEF InsertEvent, IdInv, OnlyEvent
    <3>2. meta["default_event_id"] \in Ids \cup {None}
      BY <1>0 DEF DatabaseType, Keys
    <3> QED BY <3>1, <3>2
  <2>3. DatabaseType' /\ ProcessType'
    BY <1>0, <1>10, <2>1, <2>2 DEF InsertEvent, DatabaseType, ProcessType
  <2> QED BY <2>3 DEF TypeOK, DatabaseType, ProcessType, Work, States
<1>11. {"default_event_id", "session_secret"} \subseteq Keys
       /\ {"read_event", "insert_event", "read_secret", "serving"} \subseteq Open
  BY DEF Keys, Open
<1> QED BY <1>1, <1>2, <1>3, <1>4, <1>5, <1>6, <1>7, <1>8, <1>9, <1>10, <1>11 DEF Next, Step

\* The inductive invariant of starting: who has the write lock, what each
\* transaction would commit, what each process has found, and that the database
\* records what has taken effect.
THEOREM AlwaysInv == Spec => []Inv
<1>1. Init => Inv
  <2>1. ASSUME Init PROVE TypeOK
    <3>1. NoIds \in [Keys -> Ids \cup {None}]
      BY DEF NoIds
    <3>2. DatabaseType
      BY <2>1, <3>1 DEF Init, DatabaseType
    <3>3. /\ lock = None /\ work = None /\ pc = [p \in Processes |-> "down"]
          /\ build = [p \in Processes |-> {}] /\ at = [p \in Processes |-> 1]
          /\ found = [p \in Processes |-> NoIds] /\ starts = 0
      BY <2>1 DEF Init
    <3>4. 1 \in 1 .. MaxVersion + 1 /\ 0 \in 0 .. MaxStarts
      BY StartupAssumption DEF StartupAssumption
    <3>5. "down" \in States
      BY DEF States
    <3>6. ProcessType
      BY <3>1, <3>3, <3>4, <3>5 DEF ProcessType
    <3> QED BY <3>2, <3>6, TypeParts
  <2>2. ASSUME Init PROVE SchemaInv
    <3>1. \A p \in Processes : pc[p] = "down" /\ lock # p
      BY <2>2, StartupAssumption DEF Init, StartupAssumption
    <3>2. LockInv
      BY <3>1 DEF LockInv, Working
    <3>3. Len(executed) = 0 /\ \A v \in Versions : rows[v] = None
      BY <2>2 DEF Init
    <3>4. HistorySound
      BY <3>3 DEF HistorySound, Versions
    <3>5. \A p \in Processes : Own(p)
      BY <3>1 DEF Own, Ordered, Applied, Works, Ran, Working, Opening, Open
    <3> QED BY <3>2, <3>4, <3>5 DEF SchemaInv
  <2>3. ASSUME Init PROVE IdInv
    BY <2>3 DEF Init, IdInv, OnlyEvent, Knows, Open
  <2> QED BY <2>1, <2>2, <2>3 DEF Inv
<1>2. Inv /\ [Next]_vars => Inv'
  BY StepType, StepSchema, StepId DEF Inv
<1> QED BY <1>1, <1>2, PTL DEF Spec

\* The variables are what TypeOK says.
THEOREM TypeCorrect == Spec => []TypeOK
BY AlwaysInv, PTL DEF Inv

\* What has taken effect on the database is what it records, once and in order.
THEOREM RecordsWhatRan == Spec => []HistorySound
BY AlwaysInv, PTL DEF Inv, SchemaInv

\* A process that got through store.Open finds its own fragments applied first.
THEOREM OpensOwnSchema == Spec => []OpensItsOwnSchema
<1>1. Inv => OpensItsOwnSchema
  <2>1. ASSUME Inv, NEW p \in Processes, pc[p] \in Open
        PROVE  /\ Len(frags(p)) <= Len(executed)
               /\ \A i \in 1 .. Len(frags(p)) : executed[i] = frags(p)[i].body
    <3>1. Own(p) /\ pc[p] \in Ran /\ pc[p] \in Opening \cup Open
      BY <2>1 DEF Inv, SchemaInv, Ran
    <3>2. Len(frags(p)) \in 0 .. MaxVersion
      BY <3>1, OwnFragments DEF Own
    <3>3. at[p] = Len(frags(p)) + 1
      BY <2>1, <3>1 DEF Own, Applied
    <3>4. at[p] - 1 = Len(frags(p))
      BY <3>2, <3>3
    <3> QED BY <3>1, <3>4 DEF Own, Applied
  <2> QED BY <2>1 DEF OpensItsOwnSchema
<1> QED BY <1>1, AlwaysInv, PTL

\* There is one event, it exists, and all who serve have found it and one secret.
THEOREM OneEventServed == Spec => []OneEvent
<1>1. Inv => OneEvent
  <2>1. ASSUME Inv PROVE Cardinality(events) <= 1
    <3>1. events \subseteq {meta["default_event_id"]}
      BY <2>1 DEF Inv, IdInv, OnlyEvent
    <3>2. events = {} \/ events = {meta["default_event_id"]}
      BY <3>1
    <3>3. Cardinality({}) = 0 /\ Cardinality({meta["default_event_id"]}) = 1
      BY FS_EmptySet, FS_Singleton
    <3> QED BY <3>2, <3>3
  <2>2. ASSUME Inv, NEW p \in Processes, pc[p] = "serving"
        PROVE  /\ found[p] = meta /\ found[p]["default_event_id"] \in events
               /\ None \notin {found[p][k] : k \in Keys}
    <3>1. /\ Read(p, "default_event_id") /\ Read(p, "session_secret")
          /\ meta["default_event_id"] \in events
      BY <2>2 DEF Inv, IdInv, Knows, Open
    <3>2. found[p] \in [Keys -> Ids \cup {None}] /\ meta \in [Keys -> Ids \cup {None}]
      BY <2>2 DEF Inv, TypeOK
    <3>3. \A k \in Keys : found[p][k] = meta[k] /\ meta[k] # None
      BY <3>1 DEF Read, Keys
    <3>4. found[p] = meta
      BY <3>2, <3>3
    <3> QED BY <3>1, <3>3, <3>4 DEF Read
  <2> QED BY <2>1, <2>2 DEF OneEvent
<1> QED BY <1>1, AlwaysInv, PTL

\* A process is refused only for its files or for a fragment that is not its own.
LEMMA Refusals ==
  ASSUME Inv, [Next]_vars, NEW p \in Processes, pc'[p] = "refused", pc[p] # "refused"
  PROVE  HasReason(p)
<1>0. TypeOK /\ SchemaInv
  BY DEF Inv
<1>1. ASSUME NEW b \in Builds, Start(p, b)
      PROVE  HasReason(p)
  BY <1>0, <1>1 DEF Start, Become, HasReason, TypeOK
<1>2. ASSUME NEW v \in Versions, rows[v] # None, rows[v] \notin build[p], build'[p] = build[p]
      PROVE  HasReason(p)
  BY <1>2 DEF HasReason
<1>3. CASE Look(p)
  <2>1. \A k \in 0 .. Len(frags(p)) : ~verify(frags(p), k)
    BY <1>0, <1>3 DEF Look, Become, TypeOK
  <2>2. /\ Own(p) /\ pc[p] \in Opening \cup Open /\ build' = build
    BY <1>0, <1>3 DEF Look, SchemaInv, Opening
  <2>3. /\ Len(frags(p)) \in 0 .. MaxVersion /\ MaxVersion \in Nat
        /\ \A f \in build[p] : f.number \in 1 .. Len(frags(p)) /\ frags(p)[f.number] = f
    BY <2>2, OwnFragments, StartupAssumption DEF Own, StartupAssumption
  <2>4. SUFFICES ASSUME \A v \in Versions : rows[v] # None => rows[v] \in build[p]
                 PROVE  FALSE
    BY <1>2, <2>2
  <2>5. \A v \in Versions : rows[v] # None =>
          rows[v].number = v /\ v \in 1 .. Len(frags(p)) /\ rows[v] = frags(p)[v]
    BY <1>0, <2>3, <2>4 DEF SchemaInv, HistorySound
  <2>6. Len(executed) \in Nat
    BY <1>0 DEF TypeOK
  <2>7. PICK k \in 0 .. Len(frags(p)) :
          \A v \in Versions : v <= Len(executed) <=> v <= k
    <3>1. CASE Len(executed) <= Len(frags(p))
      BY <2>6, <3>1
    <3>2. CASE ~(Len(executed) <= Len(frags(p)))
      <4>1. \A v \in Versions : v <= Len(executed) => v <= Len(frags(p))
        BY <1>0, <2>5 DEF SchemaInv, HistorySound
      <4> QED BY <2>3, <2>6, <3>2, <4>1 DEF Versions
    <3> QED BY <3>1, <3>2
  <2>8. \A v \in Versions : rows[v] # None <=> v <= Len(executed)
    BY <1>0 DEF SchemaInv, HistorySound
  <2>9. verify(frags(p), k)
    BY <2>5, <2>7, <2>8 DEF verify
  <2> QED BY <2>1, <2>9
<1>4. CASE Check(p)
  <2>1. pc[p] = "check" /\ pc[p] \in Working /\ Own(p) /\ build' = build
    BY <1>0, <1>4 DEF Check, Working, SchemaInv
  <2>2. work.rows[at[p]] # None /\ work.rows[at[p]].body # frags(p)[at[p]].body /\ work.rows = rows
    BY <1>0, <1>4, <2>1 DEF Check, Become, TypeOK, Own, Works
  <2>3. at[p] \in Versions /\ rows[at[p]].number = at[p]
    BY <1>0, <2>1, <2>2, InTransaction
  <2>4. \A f \in build[p] : frags(p)[f.number] = f
    BY <2>1, OwnFragments DEF Own, Opening
  <2>5. rows[at[p]] \notin build[p]
    BY <2>2, <2>3, <2>4
  <2> QED BY <1>2, <2>1, <2>2, <2>3, <2>5
<1>5. CASE Execute(p)
  <2>1. pc[p] \in Working /\ build' = build /\ frags(p)[at[p]].body \in Broken
    BY <1>0, <1>5 DEF Execute, Working, Become, TypeOK
  <2>2. frags(p)[at[p]] \in build[p]
    BY <1>0, <2>1, InTransaction
  <2> QED BY <2>1, <2>2 DEF HasReason
<1>6. ASSUME NEW q \in Processes, q # p, Step(q) \/ Stop(q) \/ \E b \in Builds : Start(q, b)
      PROVE  FALSE
  <2>1. \E s : Become(q, s)
    BY <1>6 DEF Step, Stop, Start, Look, Begin, Check, Execute, Record, Commit, Opened, InitMeta,
                ReadMeta, InsertEvent, Refuse
  <2> QED BY <1>0, <1>6, <2>1 DEF Become, TypeOK
<1>7. ASSUME Step(p), ~Look(p), ~Check(p), ~Execute(p)
      PROVE  FALSE
  BY <1>0, <1>7 DEF Step, Begin, Record, Commit, Opened, InitMeta, ReadMeta, InsertEvent, Become, TypeOK
<1>8. ASSUME Stop(p) \/ UNCHANGED vars
      PROVE  FALSE
  BY <1>0, <1>8 DEF Stop, vars, Become, TypeOK
<1> QED BY <1>1, <1>3, <1>4, <1>5, <1>6, <1>7, <1>8 DEF Next

\* Nobody is refused because somebody else was applying the same fragments.
THEOREM RefusedForAReason == Spec => NoSpuriousRefusal
<1>1. Inv /\ [Next]_vars =>
        [\A p \in Processes : pc'[p] = "refused" /\ pc[p] # "refused" => HasReason(p)]_vars
  BY Refusals
<1> QED BY <1>1, AlwaysInv, PTL DEF Spec, NoSpuriousRefusal
=============================================================================

--------------------------------- MODULE Ring ---------------------------------
(***************************************************************************)
(* The ring buffer of recent events in internal/server/hub.go: a fixed     *)
(* slice, the index of the oldest entry and a count.  The module shows     *)
(* that it implements EventWindow, and that the loop in `after' returns    *)
(* exactly the events a reconnecting client missed.                        *)
(***************************************************************************)
EXTENDS Integers, Sequences, SequencesExt

CONSTANTS Payload, Capacity, MaxSeq, MaxBatch,
          NoPayload           \* the payload of a slot never written

ASSUME RingAssumption == /\ Capacity \in Nat \ {0}
                         /\ MaxSeq \in Nat
                         /\ MaxBatch \in Nat
                         /\ NoPayload \notin Payload

VARIABLES buf, start, n,      \* type ring
          seq,                \* Hub.seq
          history             \* history variable: every event committed

ringVars == <<buf, start, n, seq, history>>

Slots == 0 .. Capacity - 1
Slot(s, i) == (s + i) % Capacity    \* i places on from slot s
OutEvent == [seq : 1 .. MaxSeq, ev : Payload]
Zero == [seq |-> 0, ev |-> NoPayload]

newRing == [i \in Slots |-> Zero]

Init == buf = newRing /\ start = 0 /\ n = 0 /\ seq = 0 /\ history = <<>>

push(e) ==
  IF n < Capacity
    THEN /\ buf' = [buf EXCEPT ![Slot(start, n)] = e]
         /\ n' = n + 1
         /\ UNCHANGED start
    ELSE /\ buf' = [buf EXCEPT ![start] = e]
         /\ start' = Slot(start, 1)
         /\ UNCHANGED n

\* publish: the next seq, recorded in the ring.
Publish(e) ==
  /\ seq < MaxSeq
  /\ seq' = seq + 1
  /\ history' = Append(history, e)
  /\ push([seq |-> seq + 1, ev |-> e])

Batch == UNION {[1 .. k -> Payload] : k \in 0 .. MaxBatch}

\* mutant: n survives
newHubKeeps(lost) ==
  /\ seq + Len(lost) <= MaxSeq
  /\ seq' = seq + Len(lost)
  /\ history' = history \o lost
  /\ UNCHANGED <<buf, start, n>>

\* newHub in a new process: an empty ring, and the seq the database holds.
\* The old process may have committed a batch it never published.
newHub(lost) ==
  /\ seq + Len(lost) <= MaxSeq
  /\ seq' = seq + Len(lost)
  /\ history' = history \o lost
  /\ buf' = newRing
  /\ start' = 0
  /\ n' = 0

Next == \/ \E e \in Payload : Publish(e)
        \/ \E lost \in Batch : newHub(lost)

Spec == Init /\ [][Next]_ringVars

---------------------------------------------------------------------------
(* ring.after(since, current), with current = Hub.seq as Register calls it *)

At(i) == buf[Slot(start, i)]
Contents == [k \in 1 .. n |-> At(k - 1)]

\* mutant: off by one at the oldest event
afterOKOldest(since) ==
  since = seq \/ (n # 0 /\ since <= seq /\ buf[start].seq <= since)

afterOK(since) ==
  \/ since = seq
  \/ n # 0 /\ since <= seq /\ buf[start].seq <= since + 1

\* mutant: the event the client already has is sent again
afterFrom(since) ==
  IF since = seq THEN <<>>
  ELSE FoldLeft(LAMBDA out, e : IF e.seq >= since THEN Append(out, e) ELSE out, <<>>, Contents)

after(since) ==
  IF since = seq THEN <<>>
  ELSE FoldLeft(LAMBDA out, e : IF e.seq > since THEN Append(out, e) ELSE out, <<>>, Contents)

---------------------------------------------------------------------------

TypeOK == /\ buf \in [Slots -> OutEvent \cup {Zero}]
          /\ start \in Slots
          /\ n \in 0 .. Capacity
          /\ seq \in 0 .. MaxSeq
          /\ history \in Seq(Payload)

\* The ring holds the last n events of the history, oldest first: nothing
\* is skipped or overwritten too early when the indices wrap around.
HoldsTheLastN ==
  /\ Len(history) = seq
  /\ n <= seq
  /\ \A i \in 0 .. n - 1 : At(i) = [seq |-> seq - n + 1 + i, ev |-> history[seq - n + 1 + i]]

Window == INSTANCE EventWindow WITH kept <- n

\* `after' says ok exactly when nothing a client at since missed has been
\* evicted or lost in a restart (hub.go: "ok=false if some of them have
\* already been evicted").
AnswersWhenComplete ==
  \A since \in 0 .. MaxSeq + 1 : afterOK(since) <=> Window!Available(since)

\* When it says ok, the loop returns all the client missed, in order, once.
ReturnsWhatWasMissed ==
  \A since \in {s \in 0 .. MaxSeq + 1 : afterOK(s)} :
    /\ [k \in DOMAIN after(since) |-> after(since)[k].ev] = Window!Missed(since)
    /\ \A k \in DOMAIN after(since) : after(since)[k].seq = since + k

\* The fixed buffer with wrapping indices implements the sliding window.
ImplementsWindow == Window!Spec
=============================================================================

------------------------------- MODULE Hub_proofs -------------------------------
(***************************************************************************)
(* Proofs about the realtime core, for any users, tabs, ring size, replay  *)
(* limit and buffer size: no tab ever misses an event its audience may see *)
(* or receives one it may not, and acks follow their events.               *)
(*                                                                         *)
(* The argument is IndInv of module Hub: every queued frame is preceded by *)
(* what it presupposes.  One lemma says what each way of changing a queue  *)
(* does to it (nothing, an appended frame, a delivered frame); then one    *)
(* step per action.                                                        *)
(***************************************************************************)
EXTENDS Hub, SequenceTheorems, TLAPS

---------------------------------------------------------------------------
(* Audiences and the log *)

\* What a reader sees depends only on the class of the role.
LEMMA StaffDecides ==
  ASSUME NEW e, NEW u, NEW r1, NEW r2, Staff(r1) <=> Staff(r2)
  PROVE  Reaches(e, u, r1) <=> Reaches(e, u, r2)
  BY DEF Reaches

\* The log only grows.
LogGrows == /\ Len(log) <= Len(log')
            /\ \A i \in 1 .. Len(log) : log'[i] = log[i]

LEMMA LogType ==
  /\ TypeOK => log \in Seq(Event) /\ Len(log) \in Nat /\ seq \in Nat
  /\ TypeOK' => log' \in Seq(Event) /\ Len(log') \in Nat /\ seq' \in Nat
<1>1. TypeOK => log \in Seq(Event) /\ seq \in Nat
  BY DEF TypeOK
<1>2. TypeOK' => log' \in Seq(Event) /\ seq' \in Nat
  BY DEF TypeOK
<1> QED BY <1>1, <1>2

LEMMA VisibleStable ==
  ASSUME TypeOK, TypeOK', LogGrows, NEW u, NEW r, NEW n \in Nat, n <= Len(log)
  PROVE  Visible(u, r, n)' = Visible(u, r, n)
<1>1. Len(log) \in Nat /\ Len(log') \in Nat
  BY LogType
<1>2. \A i \in 1 .. n : i <= Len(log) /\ i <= Len(log') /\ log'[i] = log[i]
  BY <1>1 DEF LogGrows
<1>3. \A i : i \in Visible(u, r, n)' <=> i \in Visible(u, r, n)
  BY <1>2 DEF Visible, Reaches
<1> QED BY <1>3

LEMMA CommitGrows ==
  ASSUME TypeOK, NEW es \in Seq(Event), log' = log \o es
  PROVE  LogGrows /\ Len(log') = Len(log) + Len(es) /\ log' \in Seq(Event)
  BY DEF TypeOK, LogGrows

---------------------------------------------------------------------------
(* Queues *)

\* What enqueue does to each connection.
LEMMA EnqueueEffect ==
  ASSUME TypeOK, NEW S \in SUBSET Tabs, NEW frame, \A t \in S : frame[t] \in Frame,
         enqueue(S, frame)
  PROVE  /\ send' \in [Tabs -> Seq(Frame)] /\ up' \in [Tabs -> BOOLEAN]
         /\ \A t \in Tabs \ S : send'[t] = send[t] /\ up'[t] = up[t]
         /\ \A t \in S : \/ /\ Fits(t)
                            /\ send'[t] = Append(send[t], frame[t]) /\ up'[t] = up[t]
                         \/ send'[t] = <<>> /\ up'[t] = FALSE
<1>1. \A t \in Tabs : send[t] \in Seq(Frame) /\ up[t] \in BOOLEAN
  BY DEF TypeOK
<1>2. \A t \in S : Append(send[t], frame[t]) \in Seq(Frame)
  BY <1>1
<1>3. <<>> \in Seq(Frame)
  OBVIOUS
<1>4. send' \in [Tabs -> Seq(Frame)]
  BY <1>1, <1>2, <1>3 DEF enqueue
<1>5. up' \in [Tabs -> BOOLEAN]
  BY DEF enqueue
<1> QED BY <1>1, <1>4, <1>5 DEF enqueue

\* A queue that is left alone stays sound while the log and seq grow.
LEMMA QuietQueue ==
  ASSUME TypeOK, TypeOK', NEW t \in Tabs, LogGrows, seq <= seq', SeqCountsEvents,
         QueueSound(t), send'[t] = send[t], pos'[t] = pos[t], enc'[t] = enc[t]
  PROVE  QueueSound(t)'
<1> SUFFICES ASSUME NEW k \in 1 .. Len(send[t])
             PROVE  (FrameSound(t, k) /\ FrameOrdered(t, k) /\ FrameKeepsRole(t, k))'
  BY DEF QueueSound
<1>1. FrameSound(t, k) /\ FrameOrdered(t, k) /\ FrameKeepsRole(t, k)
  BY DEF QueueSound
<1>2. send[t] \in Seq(Frame) /\ send[t][k] \in Frame
  BY DEF TypeOK
<1>3. send[t][k].seq \in Nat /\ seq \in Nat /\ seq' \in Nat /\ Len(log) \in Nat /\ Len(log') \in Nat
  BY <1>2, LogType DEF Frame
<1>4. \A i : Covered(t, k, i)' <=> Covered(t, k, i)
  BY DEF Covered
<1>5. \A i \in 1 .. seq : log'[i] = log[i]
  BY <1>3 DEF LogGrows, SeqCountsEvents
<1>6. ASSUME NEW r, NEW n \in Nat, n <= seq, CoveredUpTo(t, k, r, n)
      PROVE  CoveredUpTo(t, k, r, n)'
  BY <1>3, <1>4, <1>5, <1>6 DEF CoveredUpTo, Reaches
<1>7. FrameSound(t, k)'
  <2>1. send[t][k].seq <= seq' /\ send[t][k].seq <= seq
    BY <1>1, <1>3 DEF FrameSound
  <2>2. send[t][k].type = "event" =>
          /\ send[t][k].seq >= 1
          /\ Reaches(log'[send[t][k].seq], UserOf[t], send[t][k].role)
          /\ CoveredUpTo(t, k, send[t][k].role, send[t][k].seq - 1)'
    BY <1>1, <1>3, <1>5, <1>6, <2>1 DEF FrameSound
  <2>3. send[t][k].type = "ack" => CoveredUpTo(t, k, send[t][k].role, send[t][k].seq)'
    BY <1>1, <1>3, <1>6, <2>1 DEF FrameSound
  <2>4. send[t][k].type = "snapshot" =>
          send[t][k].seq <= send[t][k].upto /\ send[t][k].upto <= Len(log')
    BY <1>1, <1>2, <1>3 DEF FrameSound, LogGrows, Frame
  <2> QED BY <2>1, <2>2, <2>3, <2>4 DEF FrameSound, Reaches
<1>8. FrameOrdered(t, k)' /\ FrameKeepsRole(t, k)'
  BY <1>1 DEF FrameOrdered, FrameKeepsRole, RoleBefore
<1> QED BY <1>7, <1>8

\* The frames the hub may append to t's queue next.
Appendable(t, f) ==
  \/ /\ f.type = "event" /\ f.seq = ServedUpTo(t) + 1 /\ f.role = crole[t]
     /\ Reaches(log'[f.seq], UserOf[t], f.role)
  \/ f.type = "ack" /\ f.seq = ServedUpTo(t) /\ f.role = crole[t]
  \/ f.type = "snapshot" /\ f.seq = ServedUpTo(t) /\ f.seq <= f.upto /\ f.upto <= Len(log')

\* Appending one keeps the queue sound and serves the tab up to its seq.
LEMMA AppendedQueue ==
  ASSUME TypeOK, TypeOK', NEW t \in Tabs, LogGrows, seq <= seq', SeqCountsEvents, ReplaySound,
         QueueSound(t), TailSound(t), up[t],
         NEW f \in Frame, f.seq <= seq', Appendable(t, f),
         send'[t] = Append(send[t], f), pos'[t] = pos[t], enc'[t] = enc[t],
         crole'[t] = f.role, ServedUpTo(t)' = f.seq
  PROVE  QueueSound(t)' /\ TailSound(t)'
<1>0. PICK n \in Nat : n = Len(send[t])
  BY DEF TypeOK
<1>1. /\ send[t] \in Seq(Frame)
      /\ \A k \in 1 .. n : send[t][k] \in Frame
  BY <1>0 DEF TypeOK
<1>2. /\ Len(send'[t]) = n + 1 /\ send'[t][n + 1] = f
      /\ \A k \in 1 .. n : send'[t][k] = send[t][k]
  BY <1>0, <1>1
<1>3. ServedUpTo(t) \in Nat /\ ServedUpTo(t) <= seq
  BY LogType DEF ServedUpTo, ReplaySound, TypeOK
<1>4. f.seq \in Nat /\ pos[t] \in Nat /\ \A k \in 1 .. n : send[t][k].seq \in Nat
  BY <1>1 DEF TypeOK, Frame
<1>5. \A i \in 1 .. seq : log'[i] = log[i]
  BY LogType DEF LogGrows, SeqCountsEvents
<1>6. ASSUME NEW k \in 1 .. n + 1, NEW i, Covered(t, k, i)
      PROVE  Covered(t, k, i)'
  BY <1>1, <1>2, <1>6 DEF Covered
<1>7. ASSUME NEW k \in 1 .. n + 1, NEW r, NEW m \in Nat, m <= seq, CoveredUpTo(t, k, r, m)
      PROVE  CoveredUpTo(t, k, r, m)'
  <2> SUFFICES ASSUME NEW i \in 1 .. m, Reaches(log'[i], UserOf[t], r)
               PROVE  Covered(t, k, i)'
    BY DEF CoveredUpTo, Reaches
  <2>1. i \in 1 .. seq
    BY <1>7, LogType
  <2>2. Reaches(log[i], UserOf[t], r)
    BY <1>5, <2>1 DEF Reaches
  <2> QED BY <1>6, <1>7, <2>2 DEF CoveredUpTo
<1>8. ASSUME NEW k \in 1 .. n
      PROVE  (FrameSound(t, k) /\ FrameOrdered(t, k) /\ FrameKeepsRole(t, k))'
  <2>1. FrameSound(t, k) /\ FrameOrdered(t, k) /\ FrameKeepsRole(t, k)
    BY <1>0 DEF QueueSound
  <2>2. send'[t][k] = send[t][k] /\ send[t][k] \in Frame /\ send[t][k].seq \in Nat
    BY <1>1, <1>2, <1>4
  <2>3. send[t][k].seq <= seq /\ send[t][k].seq <= seq'
    BY <2>1, <2>2, LogType DEF FrameSound
  <2>4. FrameSound(t, k)'
    <3>1. send[t][k].type = "event" =>
            /\ send[t][k].seq >= 1
            /\ Reaches(log'[send[t][k].seq], UserOf[t], send[t][k].role)
            /\ CoveredUpTo(t, k, send[t][k].role, send[t][k].seq - 1)'
      BY <1>5, <1>7, <2>1, <2>2, <2>3, LogType DEF FrameSound
    <3>2. send[t][k].type = "ack" => CoveredUpTo(t, k, send[t][k].role, send[t][k].seq)'
      BY <1>7, <2>1, <2>2, <2>3 DEF FrameSound
    <3>3. send[t][k].type = "snapshot" =>
            send[t][k].seq <= send[t][k].upto /\ send[t][k].upto <= Len(log')
      BY <2>1, <2>2, LogType DEF FrameSound, LogGrows, Frame
    <3> QED BY <2>2, <2>3, <3>1, <3>2, <3>3 DEF FrameSound, Reaches
  <2>5. FrameOrdered(t, k)'
    BY <1>2, <2>1, <2>2 DEF FrameOrdered
  <2>6. FrameKeepsRole(t, k)'
    BY <1>2, <2>1, <2>2 DEF FrameKeepsRole, RoleBefore
  <2> QED BY <2>4, <2>5, <2>6
<1>9. f.type = "event" \/ f.type = "ack" \/ f.type = "snapshot"
  BY DEF Appendable
<1>10. f.type = "event" => CoveredUpTo(t, n + 1, f.role, f.seq - 1)'
  <2> SUFFICES ASSUME f.type = "event" PROVE CoveredUpTo(t, n + 1, f.role, f.seq - 1)'
    OBVIOUS
  <2>1. f.seq - 1 = ServedUpTo(t) /\ f.role = crole[t]
    BY <1>3, <1>4 DEF Appendable
  <2>2. CoveredUpTo(t, n + 1, f.role, f.seq - 1)
    BY <1>0, <2>1 DEF TailSound
  <2>3. f.seq - 1 \in Nat /\ f.seq - 1 <= seq /\ n + 1 \in 1 .. n + 1
    BY <1>3, <2>1
  <2> QED BY <1>7, <2>2, <2>3
<1>11. f.type = "ack" => CoveredUpTo(t, n + 1, f.role, f.seq)'
  <2> SUFFICES ASSUME f.type = "ack" PROVE CoveredUpTo(t, n + 1, f.role, f.seq)'
    OBVIOUS
  <2>1. f.seq = ServedUpTo(t) /\ f.role = crole[t]
    BY DEF Appendable
  <2>2. CoveredUpTo(t, n + 1, f.role, f.seq)
    BY <1>0, <2>1 DEF TailSound
  <2>3. f.seq \in Nat /\ f.seq <= seq /\ n + 1 \in 1 .. n + 1
    BY <1>3, <2>1
  <2> QED BY <1>7, <2>2, <2>3
<1>12. ServedUpTo(t) <= f.seq /\ pos[t] <= f.seq
  BY <1>3, <1>4 DEF Appendable, TailSound
<1>13. \A k \in 1 .. n : send[t][k].type \in {"event", "snapshot"} => send[t][k].seq <= f.seq
  BY <1>0, <1>3, <1>4, <1>12 DEF TailSound
<1>14. (FrameSound(t, n + 1) /\ FrameOrdered(t, n + 1) /\ FrameKeepsRole(t, n + 1))'
  <2>1. FrameSound(t, n + 1)'
    BY <1>2, <1>3, <1>4, <1>9, <1>10, <1>11 DEF Appendable, FrameSound, Reaches
  <2>2. FrameOrdered(t, n + 1)'
    BY <1>2, <1>12, <1>13 DEF FrameOrdered
  <2>3. FrameKeepsRole(t, n + 1)'
    <3>1. f.type \in {"event", "ack"} => f.role = RoleBefore(t, n + 1)
      BY <1>0 DEF Appendable, TailSound
    <3>2. RoleBefore(t, n + 1)' = RoleBefore(t, n + 1)
      BY <1>2 DEF RoleBefore
    <3> QED BY <1>2, <3>1, <3>2 DEF FrameKeepsRole
  <2> QED BY <2>1, <2>2, <2>3
<1>15. QueueSound(t)'
  BY <1>0, <1>2, <1>8, <1>14 DEF QueueSound
<1>16. CoveredUpTo(t, n + 2, f.role, f.seq)'
  <2> SUFFICES ASSUME NEW i \in 1 .. f.seq, Reaches(log'[i], UserOf[t], f.role)
               PROVE  Covered(t, n + 2, i)'
    BY DEF CoveredUpTo, Reaches
  <2>1. ASSUME Covered(t, n + 1, i)' PROVE Covered(t, n + 2, i)'
    <3>1. \A j \in 1 .. (n + 1) - 1 : j \in 1 .. (n + 2) - 1
      OBVIOUS
    <3> QED BY <2>1, <3>1 DEF Covered
  <2>2. ASSUME (f.type = "event" /\ i = f.seq) \/ f.type = "snapshot" PROVE Covered(t, n + 2, i)'
    <3>1. n + 1 \in 1 .. (n + 2) - 1 /\ f.seq >= i
      BY <1>4
    <3> QED BY <1>2, <2>2, <3>1 DEF Covered
  <2>3. CASE f.type = "event" /\ i # f.seq
    <3>1. i \in 1 .. f.seq - 1
      BY <1>4, <2>3
    <3> QED BY <1>10, <2>1, <2>3, <3>1 DEF CoveredUpTo, Reaches
  <2>4. CASE f.type = "ack"
    BY <1>11, <2>1, <2>4 DEF CoveredUpTo, Reaches
  <2> QED BY <1>9, <2>2, <2>3, <2>4
<1>17. TailSound(t)'
  <2>1. RoleBefore(t, n + 2)' = f.role
    BY <1>2 DEF RoleBefore
  <2>2. \A k \in 1 .. n + 1 :
          send'[t][k].type \in {"event", "snapshot"} => send'[t][k].seq <= f.seq
    BY <1>2, <1>4, <1>13
  <2> QED BY <1>2, <1>12, <1>16, <2>1, <2>2 DEF TailSound
<1> QED BY <1>15, <1>17

\* Delivering the first frame: what it presupposed the tab now has.
LEMMA DeliveredQueue ==
  ASSUME TypeOK, TypeOK', NEW t \in Tabs, UNCHANGED <<log, seq, up, crole, hubState>>,
         QueueSound(t), TailSound(t), pos[t] <= seq, send[t] # <<>>,
         send'[t] = Tail(send[t]),
         Head(send[t]).type \in {"hello", "snapshot"} => enc'[t] = Head(send[t]).role,
         Head(send[t]).type \in {"event", "ack"} => enc'[t] = enc[t],
         Head(send[t]).type \in {"event", "snapshot"} => pos'[t] = Head(send[t]).seq,
         Head(send[t]).type \in {"hello", "ack"} => pos'[t] = pos[t]
  PROVE  QueueSound(t)' /\ TailSound(t)' /\ pos[t] <= pos'[t] /\ pos'[t] <= seq
<1>0. PICK n \in Nat : n + 1 = Len(send[t])
  <2>1. send[t] \in Seq(Frame) /\ send[t] # <<>>
    BY DEF TypeOK
  <2>2. Len(send[t]) \in Nat /\ Len(send[t]) # 0
    BY <2>1
  <2> WITNESS Len(send[t]) - 1 \in Nat
  <2> QED BY <2>2
<1>1. /\ send[t] \in Seq(Frame) /\ send[t][1] = Head(send[t])
      /\ \A k \in 1 .. n + 1 : send[t][k] \in Frame
  BY <1>0 DEF TypeOK
<1>2. Len(send'[t]) = n /\ \A k \in 1 .. n : send'[t][k] = send[t][k + 1]
  BY <1>0, <1>1
<1>3. pos[t] \in Nat /\ pos'[t] \in Nat /\ seq \in Nat /\ \A k \in 1 .. n + 1 : send[t][k].seq \in Nat
  BY <1>1 DEF TypeOK, Frame
<1>4. \A k \in 1 .. n + 1 : FrameSound(t, k) /\ FrameOrdered(t, k) /\ FrameKeepsRole(t, k)
  BY <1>0 DEF QueueSound
<1>5. send[t][1].type \in {"hello", "snapshot", "event", "ack"}
  BY <1>1 DEF Frame
<1>6. pos[t] <= pos'[t] /\ pos'[t] <= seq
  <2>1. FrameOrdered(t, 1) /\ FrameSound(t, 1)
    BY <1>4
  <2> QED BY <1>1, <1>3, <1>5, <2>1 DEF FrameOrdered, FrameSound
<1>7. ASSUME NEW k \in 1 .. n + 1, NEW i \in Nat, Covered(t, k + 1, i)
      PROVE  Covered(t, k, i)'
  <2>1. CASE i <= pos[t]
    BY <1>3, <1>6, <2>1 DEF Covered
  <2>2. ASSUME NEW j \in 1 .. (k + 1) - 1,
               \/ send[t][j].type = "event" /\ send[t][j].seq = i
               \/ send[t][j].type = "snapshot" /\ send[t][j].seq >= i
        PROVE  Covered(t, k, i)'
    <3>1. CASE j = 1
      <4>1. i <= pos'[t]
        BY <1>1, <1>3, <2>2, <3>1
      <4> QED BY <4>1 DEF Covered
    <3>2. CASE j # 1
      <4>1. j - 1 \in 1 .. k - 1 /\ j - 1 \in 1 .. n /\ (j - 1) + 1 = j
        BY <3>2
      <4>2. send'[t][j - 1] = send[t][j]
        BY <1>2, <4>1
      <4> QED BY <2>2, <4>1, <4>2 DEF Covered
    <3> QED BY <3>1, <3>2
  <2> QED BY <1>7, <2>1, <2>2 DEF Covered
<1>8. ASSUME NEW k \in 1 .. n + 1, NEW r, NEW m \in Nat, CoveredUpTo(t, k + 1, r, m)
      PROVE  CoveredUpTo(t, k, r, m)'
  BY <1>7, <1>8 DEF CoveredUpTo, Reaches
<1>9. ASSUME NEW k \in 1 .. n + 1
      PROVE  RoleBefore(t, k)' = RoleBefore(t, k + 1)
  <2>1. CASE k = 1
    <3>1. send[t][1].type \in {"event", "ack"} => send[t][1].role = enc[t]
      BY <1>4 DEF FrameKeepsRole, RoleBefore
    <3>2. enc'[t] = send[t][1].role
      BY <1>1, <1>5, <3>1
    <3> QED BY <2>1, <3>2 DEF RoleBefore
  <2>2. CASE k # 1
    <3>1. k - 1 \in 1 .. n /\ (k - 1) + 1 = k /\ (k + 1) - 1 = k /\ k + 1 # 1
      BY <2>2
    <3> QED BY <1>2, <2>2, <3>1 DEF RoleBefore
  <2> QED BY <2>1, <2>2
<1>10. ASSUME NEW k \in 1 .. n
       PROVE  (FrameSound(t, k) /\ FrameOrdered(t, k) /\ FrameKeepsRole(t, k))'
  <2>1. FrameSound(t, k + 1) /\ FrameOrdered(t, k + 1) /\ FrameKeepsRole(t, k + 1)
    BY <1>4
  <2>2. send'[t][k] = send[t][k + 1] /\ send[t][k + 1] \in Frame /\ send[t][k + 1].seq \in Nat
    BY <1>1, <1>2, <1>3
  <2>3. FrameSound(t, k)'
    <3>1. PICK f \in Frame : f = send[t][k + 1]
      BY <2>2
    <3>2. /\ f.seq <= seq /\ f.seq \in Nat
          /\ f.type = "event" => /\ f.seq >= 1 /\ Reaches(log[f.seq], UserOf[t], f.role)
                                 /\ CoveredUpTo(t, k + 1, f.role, f.seq - 1)
          /\ f.type = "ack" => CoveredUpTo(t, k + 1, f.role, f.seq)
          /\ f.type = "snapshot" => f.seq <= f.upto /\ f.upto <= Len(log)
      BY <2>1, <2>2, <3>1 DEF FrameSound
    <3>3. f.type = "event" => CoveredUpTo(t, k, f.role, f.seq - 1)'
      <4>1. f.type = "event" => f.seq - 1 \in Nat
        BY <3>2
      <4> QED BY <1>8, <3>2, <4>1
    <3>4. f.type = "ack" => CoveredUpTo(t, k, f.role, f.seq)'
      BY <1>8, <3>2
    <3>5. send'[t][k] = f
      BY <2>2, <3>1
    <3> QED BY <3>2, <3>3, <3>4, <3>5 DEF FrameSound, Reaches
  <2>4. FrameOrdered(t, k)'
    <3> SUFFICES ASSUME send[t][k + 1].type \in {"event", "snapshot"}
                 PROVE  /\ pos'[t] <= send[t][k + 1].seq
                        /\ \A j \in 1 .. k - 1 :
                             send'[t][j].type \in {"event", "snapshot"} =>
                               send'[t][j].seq <= send[t][k + 1].seq
      BY <2>2 DEF FrameOrdered
    <3>1. \A j \in 1 .. k : send[t][j].type \in {"event", "snapshot"} =>
            send[t][j].seq <= send[t][k + 1].seq
      BY <2>1 DEF FrameOrdered
    <3>2. pos'[t] <= send[t][k + 1].seq
      BY <1>1, <1>5, <2>1, <3>1 DEF FrameOrdered
    <3>3. \A j \in 1 .. k - 1 : j + 1 \in 1 .. k /\ send'[t][j] = send[t][j + 1]
      BY <1>2
    <3> QED BY <3>1, <3>2, <3>3
  <2>5. FrameKeepsRole(t, k)'
    <3>1. RoleBefore(t, k)' = RoleBefore(t, k + 1)
      BY <1>9
    <3> QED BY <2>1, <2>2, <3>1 DEF FrameKeepsRole
  <2> QED BY <2>3, <2>4, <2>5
<1>11. QueueSound(t)'
  BY <1>2, <1>10 DEF QueueSound
<1>12. TailSound(t)'
  <2> SUFFICES ASSUME up[t] PROVE TailSound(t)'
    BY DEF TailSound
  <2>1. ServedUpTo(t)' = ServedUpTo(t) /\ ServedUpTo(t) \in Int
    BY DEF ServedUpTo, hubState, TypeOK
  <2>2. PICK m \in Int : m = ServedUpTo(t)
    BY <2>1
  <2>3. crole[t] = RoleBefore(t, (n + 1) + 1)
    BY <1>0 DEF TailSound
  <2>4. PICK r : r = crole[t]
    OBVIOUS
  <2>5. CoveredUpTo(t, (n + 1) + 1, r, m)
    BY <1>0, <2>2, <2>4 DEF TailSound
  <2>6. CoveredUpTo(t, n + 1, r, m)'
    BY <1>7, <2>5 DEF CoveredUpTo, Reaches
  <2>7. pos'[t] <= m /\ \A k \in 1 .. n :
          send'[t][k].type \in {"event", "snapshot"} => send'[t][k].seq <= m
    <3>1. \A k \in 1 .. n + 1 :
            send[t][k].type \in {"event", "snapshot"} => send[t][k].seq <= m
      BY <1>0, <2>2 DEF TailSound
    <3>2. pos[t] <= m
      BY <2>2 DEF TailSound
    <3> QED BY <1>1, <1>2, <1>5, <3>1, <3>2
  <2>8. crole'[t] = RoleBefore(t, n + 1)'
    BY <1>9, <2>3
  <2> QED BY <1>2, <2>1, <2>2, <2>4, <2>6, <2>7, <2>8 DEF TailSound
<1> QED BY <1>6, <1>11, <1>12

---------------------------------------------------------------------------
(* Types *)

LEMMA FrameTypes ==
  ASSUME TypeOK, NEW r \in Roles, NEW n \in Nat
  PROVE  /\ Hello(r) \in Frame /\ Ack(r) \in Frame
         /\ AnEvent(n, r) \in Frame /\ Snapshot(r, n) \in Frame
  BY DEF TypeOK, Frame, Hello, Ack, AnEvent, Snapshot

LEMMA RoleSetType ==
  ASSUME NEW u \in Users, NEW r \in Roles
  PROVE  RoleSet(u, r) \in Event /\ <<RoleSet(u, r)>> \in Seq(Event)
  BY DEF RoleSet, Event

LEMMA BatchType == ASSUME NEW es \in Batches PROVE es \in Seq(Event)
  BY HubAssumption

\* refreshRole in terms of single connections.
LEMMA RefreshEffect ==
  ASSUME TypeOK, NEW u \in Users, NEW r \in Roles, NEW n \in Nat, refreshRole(u, r, n)
  PROVE  /\ send' \in [Tabs -> Seq(Frame)] /\ up' \in [Tabs -> BOOLEAN]
         /\ crole' \in [Tabs -> Roles]
         /\ \A t \in Tabs : up[t] /\ UserOf[t] = u =>
              /\ crole'[t] = r
              /\ \/ send'[t] = Append(send[t], Snapshot(r, n)) /\ up'[t]
                 \/ send'[t] = <<>> /\ ~up'[t]
         /\ \A t \in Tabs : ~(up[t] /\ UserOf[t] = u) =>
              crole'[t] = crole[t] /\ send'[t] = send[t] /\ up'[t] = up[t]
<1> DEFINE mine == {t \in Tabs : up[t] /\ UserOf[t] = u}
           frames == [t \in mine |-> Snapshot(r, n)]
<1>1. \A t \in mine : frames[t] \in Frame /\ frames[t] = Snapshot(r, n)
  BY FrameTypes
<1>2. /\ crole' = [t \in Tabs |-> IF t \in mine THEN r ELSE crole[t]]
      /\ enqueue(mine, frames)
  BY DEF refreshRole
<1>3. crole' \in [Tabs -> Roles]
  BY <1>2 DEF TypeOK
<1>4. mine \in SUBSET Tabs
  OBVIOUS
<1>5. /\ send' \in [Tabs -> Seq(Frame)] /\ up' \in [Tabs -> BOOLEAN]
      /\ \A t \in Tabs \ mine : send'[t] = send[t] /\ up'[t] = up[t]
      /\ \A t \in mine : \/ /\ Fits(t)
                            /\ send'[t] = Append(send[t], frames[t]) /\ up'[t] = up[t]
                         \/ send'[t] = <<>> /\ up'[t] = FALSE
  BY <1>1, <1>2, <1>4, EnqueueEffect
<1> QED BY <1>1, <1>2, <1>3, <1>5

\* Register, given that what it replays starts right after the tab's seq.
LEMMA RegisterEffect ==
  ASSUME IndInv, NEW t \in Tabs, Register(t)
  PROVE  /\ pc = "idle" /\ UNCHANGED <<database, seq, kept, ackTo, refresh, tabs, faults>>
         /\ crole' = [crole EXCEPT ![t] = role[UserOf[t]]] /\ up' = [up EXCEPT ![t] = TRUE]
         /\ \/ /\ Replays(pos[t]) /\ seq - pos[t] <= MaxReplay
               /\ send' = [send EXCEPT ![t] = <<Hello(role[UserOf[t]])>>]
               /\ pc' = "replay" /\ target' = t /\ next' = pos[t] + 1
            \/ /\ send' = [send EXCEPT ![t] = <<Hello(role[UserOf[t]]),
                                                Snapshot(role[UserOf[t]], Len(log))>>]
               /\ UNCHANGED <<pc, target, next>>
<1>1. log \in Seq(Event) /\ seq \in Nat /\ seq <= Len(log) /\ pos[t] \in Nat /\ kept \in Nat
  BY HubAssumption DEF IndInv, TypeOK, SeqCountsEvents
<1>2. Len(SubSeq(log, 1, seq)) = seq
  BY <1>1
<1>3. Replays(pos[t]) => firstAfter(pos[t]) = pos[t] + 1 /\ seq - pos[t] <= MaxReplay
  BY <1>1, <1>2 DEF Replays, Window!Available, firstAfter
<1> QED BY <1>3 DEF Register, roleNow

LEMMA TypeStep ==
  ASSUME IndInv, [Next]_vars
  PROVE  TypeOK'
<1> USE DEF IndInv
<1>a. /\ log \in Seq(Event) /\ dbSeq \in Nat /\ role \in [Users -> Roles]
      /\ seq \in Nat /\ kept \in 0 .. Capacity /\ pc \in {"idle", "publish", "replay"}
      /\ ackTo \in Tabs \cup {NoTab} /\ refresh \in Users \cup {Nobody}
      /\ target \in Tabs \cup {NoTab} /\ next \in Nat
  BY DEF TypeOK
<1>b. /\ up \in [Tabs -> BOOLEAN] /\ crole \in [Tabs -> Roles] /\ send \in [Tabs -> Seq(Frame)]
      /\ pos \in [Tabs -> Nat] /\ view \in [Tabs -> SUBSET Nat]
      /\ you \in [Tabs -> Roles] /\ enc \in [Tabs -> Roles] /\ mixed \in [Tabs -> BOOLEAN]
      /\ faults \in Nat
  BY DEF TypeOK
<1>c. Len(log) \in Nat /\ UserOf \in [Tabs -> Users] /\ Capacity \in Nat /\ Tabs \subseteq Tabs \cup {NoTab}
  BY <1>a, HubAssumption
<1>d. \A es \in Seq(Event) : Len(es) \in Nat /\ log \o es \in Seq(Event) /\ seq + Len(es) \in Nat
  BY <1>a
<1>1. ASSUME NEW t \in Tabs \cup {NoTab}, NEW es \in Batches, Command(t, es) PROVE TypeOK'
  <2>1. es \in Seq(Event)
    BY BatchType
  <2>2. log \o es \in Seq(Event) /\ seq + Len(es) \in Nat
    BY <1>d, <2>1
  <2> QED BY <1>1, <1>a, <1>b, <2>2 DEF Command, commit, advanced, conns, tabs, TypeOK
<1>2. ASSUME NEW u \in Users, LoginAsOrganizer(u) PROVE TypeOK'
  <2>1. <<RoleSet(u, "organizer")>> \in Seq(Event)
    BY RoleSetType DEF Roles
  <2>2. log' \in Seq(Event) /\ dbSeq' \in Nat
    BY <1>2, <1>d, <2>1 DEF LoginAsOrganizer, commit, advanced
  <2>3. role' \in [Users -> Roles]
    BY <1>2, <1>a DEF LoginAsOrganizer, Roles
  <2> QED BY <1>2, <1>a, <1>b, <2>2, <2>3 DEF LoginAsOrganizer, commit, conns, tabs, TypeOK
<1>3. ASSUME NEW t \in Tabs, NEW u \in Users, NEW r \in Roles, SetRole(t, u, r) PROVE TypeOK'
  <2>1. <<RoleSet(u, r)>> \in Seq(Event)
    BY RoleSetType
  <2>2. log' \in Seq(Event) /\ dbSeq' \in Nat
    BY <1>3, <1>d, <2>1 DEF SetRole, commit, advanced
  <2>3. role' \in [Users -> Roles]
    BY <1>3, <1>a DEF SetRole
  <2>4. send' \in [Tabs -> Seq(Frame)] /\ up' \in [Tabs -> BOOLEAN] /\ crole' \in [Tabs -> Roles]
    BY <1>3, <1>c, RefreshEffect DEF SetRole
  <2> QED BY <1>3, <1>a, <1>b, <2>2, <2>3, <2>4 DEF SetRole, commit, tabs, TypeOK
<1>4. ASSUME NEW t \in Tabs, AnswerOnly(t) PROVE TypeOK'
  <2>1. send' \in [Tabs -> Seq(Frame)] /\ up' \in [Tabs -> BOOLEAN]
    <3>1. \A x \in {t} : [y \in {t} |-> Ack(crole[t])][x] \in Frame
      BY <1>b, FrameTypes
    <3> QED BY <1>4, <3>1, EnqueueEffect DEF AnswerOnly
  <2> QED BY <1>4, <1>a, <1>b, <2>1 DEF AnswerOnly, database, hubState, tabs, TypeOK
<1>5. CASE Publish
  <2> DEFINE S == {t \in Tabs : up[t] /\ Reaches(log[seq + 1], UserOf[t], crole[t])}
  <2>1. \A t \in S : [x \in S |-> AnEvent(seq + 1, crole[x])][t] \in Frame
    BY <1>a, <1>b, FrameTypes
  <2>2. send' \in [Tabs -> Seq(Frame)] /\ up' \in [Tabs -> BOOLEAN]
    BY <1>5, <2>1, EnqueueEffect DEF Publish
  <2>3. kept' \in 0 .. Capacity /\ seq' \in Nat
    BY <1>5, <1>a, <1>c DEF Publish, pushed
  <2> QED BY <1>5, <1>a, <1>b, <2>2, <2>3 DEF Publish, pushed, database, tabs, TypeOK
<1>6. CASE FinishCommand
  <2> DEFINE S == {t \in Tabs : t = ackTo /\ up[t]}
  <2>1. \A t \in S : [x \in S |-> Ack(crole[x])][t] \in Frame
    BY <1>b, FrameTypes
  <2>2. send' \in [Tabs -> Seq(Frame)] /\ up' \in [Tabs -> BOOLEAN]
    BY <1>6, <2>1, EnqueueEffect DEF FinishCommand
  <2> QED BY <1>6, <1>a, <1>b, <2>2 DEF FinishCommand, Idle, database, tabs, TypeOK
<1>7. CASE FinishLogin
  <2>1. refresh \in Users /\ role[refresh] \in Roles
    BY <1>7, <1>a DEF FinishLogin
  <2>2. send' \in [Tabs -> Seq(Frame)] /\ up' \in [Tabs -> BOOLEAN] /\ crole' \in [Tabs -> Roles]
    BY <1>7, <1>c, <2>1, RefreshEffect DEF FinishLogin
  <2> QED BY <1>7, <1>a, <1>b, <2>2 DEF FinishLogin, Idle, database, tabs, TypeOK
<1>8. ASSUME NEW t \in Tabs, Register(t) PROVE TypeOK'
  <2>1. role[UserOf[t]] \in Roles /\ pos[t] + 1 \in Nat
    BY <1>a, <1>b, <1>c
  <2>2. crole' \in [Tabs -> Roles] /\ up' \in [Tabs -> BOOLEAN]
    BY <1>8, <1>b, <2>1, RegisterEffect
  <2>3. /\ <<Hello(role[UserOf[t]])>> \in Seq(Frame)
        /\ <<Hello(role[UserOf[t]]), Snapshot(role[UserOf[t]], Len(log))>> \in Seq(Frame)
    BY <1>c, <2>1, FrameTypes
  <2>4. send' \in [Tabs -> Seq(Frame)]
    <3>1. \/ send' = [send EXCEPT ![t] = <<Hello(role[UserOf[t]])>>]
          \/ send' = [send EXCEPT ![t] = <<Hello(role[UserOf[t]]),
                                           Snapshot(role[UserOf[t]], Len(log))>>]
      BY <1>8, RegisterEffect
    <3> QED BY <1>b, <2>3, <3>1
  <2>5. pc' \in {"idle", "publish", "replay"} /\ target' \in Tabs \cup {NoTab} /\ next' \in Nat
    BY <1>8, <1>a, <2>1, RegisterEffect
  <2> QED BY <1>8, <1>a, <1>b, <2>2, <2>4, <2>5 DEF Register, database, tabs, TypeOK
<1>9. CASE Replay
  <2> DEFINE S == {t \in Tabs : t = target /\ up[t] /\ Reaches(log[next], UserOf[t], crole[t])}
  <2>1. \A t \in S : [x \in S |-> AnEvent(next, crole[x])][t] \in Frame
    BY <1>a, <1>b, FrameTypes
  <2>2. send' \in [Tabs -> Seq(Frame)] /\ up' \in [Tabs -> BOOLEAN]
    BY <1>9, <2>1, EnqueueEffect DEF Replay
  <2>3. next' \in Nat
    BY <1>9, <1>a DEF Replay
  <2> QED BY <1>9, <1>a, <1>b, <2>2, <2>3 DEF Replay, database, tabs, TypeOK
<1>10. CASE FinishReplay
  BY <1>10, <1>a, <1>b DEF FinishReplay, Idle, database, conns, tabs, TypeOK
<1>11. ASSUME NEW t \in Tabs, Deliver(t) PROVE TypeOK'
  <2>1. Head(send[t]) \in Frame /\ Tail(send[t]) \in Seq(Frame)
    BY <1>11, <1>b DEF Deliver
  <2>2. PICK f \in Frame : f = Head(send[t])
    BY <2>1
  <2>3. send' \in [Tabs -> Seq(Frame)]
    BY <1>11, <1>b, <2>1 DEF Deliver
  <2>4. f.seq \in Nat /\ f.role \in Roles /\ f.upto \in Nat
    BY DEF Frame
  <2>5. Visible(UserOf[t], f.role, f.upto) \in SUBSET Nat
    BY <2>4 DEF Visible
  <2>6. f.type = "event" => f.seq \in 1 .. Len(log)
    <3>1. 1 \in 1 .. Len(send[t]) /\ send[t][1] = f
      BY <1>11, <1>b, <2>2 DEF Deliver
    <3>2. FrameSound(t, 1)
      BY <3>1 DEF TabSound, QueueSound
    <3> QED BY <1>a, <1>c, <2>4, <3>1, <3>2 DEF FrameSound, SeqCountsEvents
  <2>7. f.type = "event" => log[f.seq].role \in Roles
    <3>1. f.type = "event" => log[f.seq] \in Event
      BY <1>a, <2>6
    <3> QED BY <3>1 DEF Event
  <2>8. /\ pos' \in [Tabs -> Nat] /\ view' \in [Tabs -> SUBSET Nat] /\ you' \in [Tabs -> Roles]
        /\ enc' \in [Tabs -> Roles] /\ mixed' \in [Tabs -> BOOLEAN]
    <3>1. CASE f.type = "hello"
      BY <1>11, <1>b, <2>2, <2>4, <3>1 DEF Deliver
    <3>2. CASE f.type = "snapshot"
      BY <1>11, <1>b, <2>2, <2>4, <2>5, <3>2 DEF Deliver
    <3>3. CASE f.type = "event" /\ f.seq > pos[t]
      <4>1. /\ pos' = [pos EXCEPT ![t] = f.seq]
            /\ view' = [view EXCEPT ![t] = @ \cup {f.seq}]
            /\ you' = [you EXCEPT ![t] = IF log[f.seq].who = UserOf[t] THEN log[f.seq].role ELSE @]
            /\ UNCHANGED <<enc, mixed>>
        BY <1>11, <1>b, <2>2, <2>4, <3>3 DEF Deliver
      <4>2. pos' \in [Tabs -> Nat] /\ view' \in [Tabs -> SUBSET Nat]
        BY <1>b, <2>4, <4>1
      <4>3. you' \in [Tabs -> Roles]
        BY <1>b, <2>7, <3>3, <4>1
      <4> QED BY <1>b, <4>1, <4>2, <4>3
    <3>4. CASE UNCHANGED tabs
      BY <1>b, <3>4 DEF tabs
    <3> QED BY <1>11, <2>2, <3>1, <3>2, <3>3, <3>4 DEF Deliver
  <2> QED BY <1>11, <1>a, <1>b, <2>3, <2>8 DEF Deliver, database, hubState, TypeOK
<1>12. ASSUME NEW t \in Tabs, Break(t) PROVE TypeOK'
  <2>1. send' \in [Tabs -> Seq(Frame)] /\ up' \in [Tabs -> BOOLEAN] /\ faults' \in Nat
    BY <1>12, <1>b DEF Break, Cut, Fault
  <2> QED BY <1>12, <1>a, <1>b, <2>1 DEF Break, database, hubState, tabs, TypeOK
<1>15. ASSUME NEW t \in Tabs, Reload(t) PROVE TypeOK'
  <2>1. send' \in [Tabs -> Seq(Frame)] /\ up' \in [Tabs -> BOOLEAN] /\ faults' \in Nat
    BY <1>15, <1>b DEF Reload, Cut, Fault
  <2>2. pos' \in [Tabs -> Nat] /\ view' \in [Tabs -> SUBSET Nat] /\ mixed' \in [Tabs -> BOOLEAN]
    BY <1>15, <1>b DEF Reload
  <2>3. you' \in [Tabs -> Roles] /\ enc' \in [Tabs -> Roles]
    BY <1>15, <1>b DEF Reload, Roles
  <2> QED BY <1>15, <1>a, <1>b, <2>1, <2>2, <2>3 DEF Reload, database, hubState, TypeOK
<1>13. CASE Restart
  BY <1>13, <1>a, <1>b, <1>c DEF Restart, Fault, Idle, database, tabs, TypeOK
<1>14. CASE UNCHANGED vars
  BY <1>14, <1>a, <1>b DEF vars, database, hubState, conns, tabs, TypeOK
<1> QED BY <1>1, <1>2, <1>3, <1>4, <1>5, <1>6, <1>7, <1>8, <1>9, <1>10, <1>11, <1>12, <1>13, <1>14, <1>15
        DEF Next, HubStep

---------------------------------------------------------------------------
(* The database, the hub and the operation in progress *)

\* Every step extends the log, if it changes it, and seq never goes back.
LEMMA GrowStep ==
  ASSUME IndInv, [Next]_vars
  PROVE  LogGrows /\ seq <= seq'
<1>a. /\ log \in Seq(Event) /\ seq \in Nat /\ dbSeq \in Nat /\ Len(log) \in Nat
      /\ dbSeq = Len(log) /\ seq <= Len(log)
  BY DEF IndInv, TypeOK, SeqCountsEvents
<1>1. ASSUME NEW es \in Seq(Event), commit(es) PROVE LogGrows /\ seq <= seq'
  <2>1. LogGrows
    BY <1>1, CommitGrows DEF commit, IndInv
  <2> QED BY <1>1, <1>a, <2>1 DEF commit
<1>2. ASSUME NEW t \in Tabs \cup {NoTab}, NEW es \in Batches, Command(t, es)
      PROVE  LogGrows /\ seq <= seq'
  BY <1>1, <1>2, BatchType DEF Command
<1>3. ASSUME NEW u \in Users, LoginAsOrganizer(u) PROVE LogGrows /\ seq <= seq'
  <2>1. <<RoleSet(u, "organizer")>> \in Seq(Event)
    BY RoleSetType DEF Roles
  <2> QED BY <1>1, <1>3, <2>1 DEF LoginAsOrganizer
<1>4. ASSUME NEW t \in Tabs, NEW u \in Users, NEW r \in Roles, SetRole(t, u, r)
      PROVE  LogGrows /\ seq <= seq'
  BY <1>1, <1>4, RoleSetType DEF SetRole
<1>5. ASSUME log' = log, seq' = seq \/ seq' = seq + 1 \/ seq' = dbSeq PROVE LogGrows /\ seq <= seq'
  BY <1>5, <1>a DEF LogGrows
<1>6. ASSUME NEW t \in Tabs, AnswerOnly(t) \/ Register(t) \/ Deliver(t) \/ Break(t) \/ Reload(t)
      PROVE  LogGrows /\ seq <= seq'
  BY <1>5, <1>6 DEF AnswerOnly, Register, Deliver, Break, Reload, database, hubState
<1>7. CASE HubStep \/ Restart \/ UNCHANGED vars
  BY <1>5, <1>7 DEF HubStep, Publish, FinishCommand, FinishLogin, Replay, FinishReplay, Restart,
                    vars, database, hubState
<1> QED BY <1>2, <1>3, <1>4, <1>6, <1>7 DEF Next

\* The parts of IndInv that do not speak of single tabs.
Books == SeqCountsEvents /\ ReplaySound /\ (pc # "publish" => refresh = Nobody)

LEMMA BooksStep ==
  ASSUME IndInv, [Next]_vars
  PROVE  Books'
<1>a. /\ log \in Seq(Event) /\ seq \in Nat /\ dbSeq \in Nat /\ Len(log) \in Nat /\ next \in Nat
      /\ dbSeq = Len(log) /\ seq <= Len(log) /\ (pc # "publish" => seq = Len(log))
      /\ pc = "replay" => target \in Tabs /\ next \in 1 .. seq + 1
      /\ pc # "publish" => refresh = Nobody
  BY DEF IndInv, TypeOK, SeqCountsEvents, ReplaySound
<1>1. ASSUME NEW es \in Seq(Event), commit(es) PROVE Books'
  <2>1. Len(log') = Len(log) + Len(es) /\ Len(es) \in Nat
    BY <1>1, CommitGrows DEF commit, IndInv
  <2> QED BY <1>1, <1>a, <2>1 DEF commit, advanced, Books, SeqCountsEvents, ReplaySound
<1>2. ASSUME NEW t \in Tabs \cup {NoTab}, NEW es \in Batches, Command(t, es) PROVE Books'
  BY <1>1, <1>2, BatchType DEF Command
<1>3. ASSUME NEW u \in Users, LoginAsOrganizer(u) PROVE Books'
  <2>1. <<RoleSet(u, "organizer")>> \in Seq(Event)
    BY RoleSetType DEF Roles
  <2> QED BY <1>1, <1>3, <2>1 DEF LoginAsOrganizer
<1>4. ASSUME NEW t \in Tabs, NEW u \in Users, NEW r \in Roles, SetRole(t, u, r) PROVE Books'
  BY <1>1, <1>4, RoleSetType DEF SetRole
<1>5. ASSUME UNCHANGED <<log, dbSeq, seq, pc, refresh, target, next>> PROVE Books'
  BY <1>5, <1>a DEF Books, SeqCountsEvents, ReplaySound
<1>6. ASSUME NEW t \in Tabs, AnswerOnly(t) \/ Deliver(t) \/ Break(t) \/ Reload(t) PROVE Books'
  BY <1>5, <1>6 DEF AnswerOnly, Deliver, Break, Reload, database, hubState
<1>7. ASSUME NEW t \in Tabs, Register(t) PROVE Books'
  <2>1. pos[t] \in Nat /\ pos[t] <= seq
    BY DEF IndInv, TypeOK, TabSound
  <2>2. /\ UNCHANGED <<log, dbSeq, seq, refresh>> /\ pc = "idle"
        /\ \/ pc' = "replay" /\ target' = t /\ next' = pos[t] + 1
           \/ UNCHANGED <<pc, target, next>>
    BY <1>7, RegisterEffect DEF database
  <2> QED BY <1>a, <2>1, <2>2 DEF Books, SeqCountsEvents, ReplaySound
<1>8. CASE Publish
  BY <1>8, <1>a DEF Publish, pushed, database, Books, SeqCountsEvents, ReplaySound
<1>9. CASE FinishCommand \/ FinishLogin
  BY <1>9, <1>a DEF FinishCommand, FinishLogin, Idle, database, Books, SeqCountsEvents, ReplaySound
<1>10. CASE Replay
  BY <1>10, <1>a DEF Replay, database, Books, SeqCountsEvents, ReplaySound
<1>11. CASE FinishReplay
  BY <1>11, <1>a DEF FinishReplay, Idle, database, Books, SeqCountsEvents, ReplaySound
<1>12. CASE Restart
  BY <1>12, <1>a DEF Restart, Idle, database, Books, SeqCountsEvents, ReplaySound
<1>13. CASE UNCHANGED vars
  BY <1>5, <1>13 DEF vars, database, hubState
<1> QED BY <1>2, <1>3, <1>4, <1>6, <1>7, <1>8, <1>9, <1>10, <1>11, <1>12, <1>13 DEF Next, HubStep

---------------------------------------------------------------------------
(* The roles of connections *)

\* enqueue never opens a connection.
LEMMA EnqueueOpensNone ==
  ASSUME TypeOK, NEW S, NEW frame, enqueue(S, frame), NEW t \in Tabs, up'[t]
  PROVE  up[t]
  BY DEF TypeOK, enqueue

LEMMA FreshStep ==
  ASSUME IndInv, [Next]_vars
  PROVE  ConnRoleIsFresh'
<1>a. /\ up \in [Tabs -> BOOLEAN] /\ crole \in [Tabs -> Roles] /\ role \in [Users -> Roles]
      /\ UserOf \in [Tabs -> Users] /\ Nobody \notin Users
      /\ pc # "publish" => refresh = Nobody
  BY HubAssumption DEF IndInv, TypeOK
<1>b. \A t \in Tabs : up[t] => crole[t] = role[UserOf[t]] \/ refresh = UserOf[t]
  BY DEF IndInv, ConnRoleIsFresh
<1>c. \A t \in Tabs : refresh = Nobody /\ up[t] => crole[t] = role[UserOf[t]]
  BY <1>a, <1>b
<1>d. TypeOK
  BY DEF IndInv
<1>1. ASSUME \A t \in Tabs : up'[t] => up[t], UNCHANGED <<role, crole>>,
             UNCHANGED refresh \/ refresh = Nobody
      PROVE  ConnRoleIsFresh'
  BY <1>1, <1>b, <1>c DEF ConnRoleIsFresh
<1>2. ASSUME NEW t \in Tabs \cup {NoTab}, NEW es \in Batches, Command(t, es)
      PROVE  ConnRoleIsFresh'
  BY <1>1, <1>2, <1>a DEF Command, commit, conns
<1>3. ASSUME NEW u \in Users, LoginAsOrganizer(u) PROVE ConnRoleIsFresh'
  <2>1. /\ UNCHANGED <<up, crole>> /\ refresh' = u /\ refresh = Nobody
        /\ \A v \in Users \ {u} : role'[v] = role[v]
    BY <1>3, <1>a DEF LoginAsOrganizer, commit, conns
  <2> QED BY <1>a, <1>c, <2>1 DEF ConnRoleIsFresh
<1>4. ASSUME NEW t \in Tabs, NEW u \in Users, NEW r \in Roles, SetRole(t, u, r)
      PROVE  ConnRoleIsFresh'
  <2>1. /\ refresh = Nobody /\ role'[u] = r /\ \A v \in Users \ {u} : role'[v] = role[v]
    BY <1>4, <1>a DEF SetRole, commit, advanced
  <2>2. PICK n \in Nat : n = Len(log) + 1
    BY <1>d, LogType
  <2>3. refreshRole(u, r, n)
    BY <1>4, <2>2 DEF SetRole
  <2>4. /\ \A x \in Tabs : up[x] /\ UserOf[x] = u => crole'[x] = r
        /\ \A x \in Tabs : ~(up[x] /\ UserOf[x] = u) => crole'[x] = crole[x] /\ up'[x] = up[x]
    BY <1>d, <2>3, RefreshEffect
  <2> QED BY <1>a, <1>c, <2>1, <2>4 DEF ConnRoleIsFresh
<1>5. ASSUME NEW t \in Tabs, AnswerOnly(t) PROVE ConnRoleIsFresh'
  BY <1>1, <1>5, <1>d, EnqueueOpensNone DEF AnswerOnly, database, hubState
<1>6. CASE Publish
  BY <1>1, <1>6, <1>d, EnqueueOpensNone DEF Publish, pushed, database
<1>7. CASE FinishCommand
  BY <1>1, <1>7, <1>d, EnqueueOpensNone DEF FinishCommand, database
<1>8. CASE FinishLogin
  <2>1. refresh \in Users /\ role[refresh] \in Roles /\ refresh' = Nobody /\ UNCHANGED role
    BY <1>8, <1>a, <1>d DEF FinishLogin, Idle, database, TypeOK
  <2>2. /\ \A x \in Tabs : up[x] /\ UserOf[x] = refresh => crole'[x] = role[refresh]
        /\ \A x \in Tabs : ~(up[x] /\ UserOf[x] = refresh) => crole'[x] = crole[x] /\ up'[x] = up[x]
    BY <1>8, <1>d, <2>1, RefreshEffect, LogType DEF FinishLogin
  <2> QED BY <1>a, <1>b, <2>1, <2>2 DEF ConnRoleIsFresh
<1>9. ASSUME NEW t \in Tabs, Register(t) PROVE ConnRoleIsFresh'
  <2>1. /\ UNCHANGED <<role, refresh>> /\ refresh = Nobody
        /\ crole' = [crole EXCEPT ![t] = role[UserOf[t]]] /\ up' = [up EXCEPT ![t] = TRUE]
    BY <1>9, <1>a, RegisterEffect DEF database
  <2> QED BY <1>a, <1>c, <2>1 DEF ConnRoleIsFresh
<1>10. CASE Replay
  BY <1>1, <1>10, <1>d, EnqueueOpensNone DEF Replay, database
<1>11. CASE FinishReplay
  BY <1>1, <1>11, <1>a DEF FinishReplay, database, conns
<1>12. ASSUME NEW t \in Tabs, Deliver(t) PROVE ConnRoleIsFresh'
  BY <1>1, <1>12 DEF Deliver, database, hubState
<1>13. ASSUME NEW t \in Tabs, Break(t) \/ Reload(t) PROVE ConnRoleIsFresh'
  <2>1. \A x \in Tabs : up'[x] => up[x]
    BY <1>13, <1>a DEF Break, Reload, Cut
  <2> QED BY <1>1, <1>13, <2>1 DEF Break, Reload, database, hubState
<1>14. CASE Restart
  BY <1>14 DEF Restart, ConnRoleIsFresh
<1>15. CASE UNCHANGED vars
  BY <1>1, <1>15 DEF vars, database, hubState, conns
<1> QED BY <1>2, <1>3, <1>4, <1>5, <1>6, <1>7, <1>8, <1>9, <1>10, <1>11, <1>12, <1>13, <1>14, <1>15
        DEF Next, HubStep

---------------------------------------------------------------------------
(* What a step can do to one tab's connection *)

\* What the connection's queue depends on besides the log and seq.
SameConn(t) == UNCHANGED <<send[t], up[t], crole[t], pos[t], enc[t]>>

\* The hub passes over the next event because it does not reach the tab.
PassesOver(t) == /\ ServedUpTo(t)' = ServedUpTo(t) + 1
                 /\ ~Reaches(log'[ServedUpTo(t) + 1], UserOf[t], crole[t])

LEMMA QuietTab ==
  ASSUME IndInv, TypeOK', NEW t \in Tabs, LogGrows, seq <= seq', SameConn(t),
         ServedUpTo(t)' = ServedUpTo(t) \/ PassesOver(t)
  PROVE  TabSound(t)'
<1>1. TypeOK /\ SeqCountsEvents /\ ReplaySound /\ TabSound(t)
  BY DEF IndInv
<1>2. QueueSound(t)'
  BY <1>1, QuietQueue DEF TabSound, SameConn
<1>3. pos[t] \in Nat /\ seq \in Nat /\ seq' \in Nat /\ pos[t] <= seq /\ pos'[t] <= seq'
  BY <1>1, LogType DEF TabSound, SameConn, TypeOK
<1>4. ServedUpTo(t) \in Nat /\ ServedUpTo(t) <= seq
  BY <1>1, LogType DEF ServedUpTo, ReplaySound, TypeOK
<1>5. PICK m \in Nat, m1 \in Nat : m = ServedUpTo(t) /\ m1 = ServedUpTo(t)'
  BY <1>4 DEF PassesOver
<1>6. m <= m1 /\ m <= seq
  BY <1>4, <1>5 DEF PassesOver
<1>7. TailSound(t)'
  <2> SUFFICES ASSUME up[t] PROVE TailSound(t)'
    BY DEF TailSound, SameConn
  <2>1. PICK n \in Nat, r \in Roles : n = Len(send[t]) /\ r = crole[t]
    BY <1>1 DEF TypeOK
  <2>2. send'[t] = send[t] /\ crole'[t] = r /\ enc'[t] = enc[t] /\ pos'[t] = pos[t]
    BY <2>1 DEF SameConn
  <2>3. \A k \in 1 .. n : send[t][k].seq \in Nat
    <3>1. send[t] \in Seq(Frame)
      BY <1>1 DEF TypeOK
    <3>2. \A k \in 1 .. n : send[t][k] \in Frame
      BY <2>1, <3>1
    <3> QED BY <3>2 DEF Frame
  <2>4. /\ r = RoleBefore(t, n + 1) /\ CoveredUpTo(t, n + 1, r, m) /\ pos[t] <= m
        /\ \A k \in 1 .. n : send[t][k].type \in {"event", "snapshot"} => send[t][k].seq <= m
    BY <1>1, <1>5, <2>1 DEF TabSound, TailSound
  <2>5. r = RoleBefore(t, n + 1)'
    BY <2>2, <2>4 DEF RoleBefore
  <2>6. CoveredUpTo(t, n + 1, r, m1)'
    <3> SUFFICES ASSUME NEW i \in 1 .. m1, Reaches(log'[i], UserOf[t], r)
                 PROVE  Covered(t, n + 1, i)'
      BY DEF CoveredUpTo, Reaches
    <3>1. i \in 1 .. m
      BY <1>5, <2>1 DEF PassesOver
    <3>2. log'[i] = log[i]
      BY <1>1, <1>6, <3>1, LogType DEF LogGrows, SeqCountsEvents
    <3>3. Covered(t, n + 1, i)
      BY <2>4, <3>1, <3>2 DEF CoveredUpTo
    <3> QED BY <2>2, <3>3 DEF Covered
  <2>7. pos'[t] <= m1 /\ \A k \in 1 .. n :
          send[t][k].type \in {"event", "snapshot"} => send[t][k].seq <= m1
    BY <1>3, <1>6, <2>2, <2>3, <2>4
  <2> QED BY <1>5, <2>1, <2>2, <2>5, <2>6, <2>7 DEF TailSound
<1> QED BY <1>1, <1>2, <1>3, <1>7 DEF TabSound, SameConn

\* A lost connection presupposes nothing.
LEMMA DroppedTab ==
  ASSUME NEW t \in Tabs, send'[t] = <<>>, ~up'[t], pos'[t] <= seq'
  PROVE  TabSound(t)'
  BY DEF TabSound, QueueSound, TailSound

\* A frame the hub may append next is appended, or there is no room for it.
LEMMA ServedTab ==
  ASSUME IndInv, TypeOK', NEW t \in Tabs, LogGrows, seq <= seq', up[t],
         NEW f \in Frame, f.seq <= seq', Appendable(t, f),
         crole'[t] = f.role, ServedUpTo(t)' = f.seq, pos'[t] = pos[t], enc'[t] = enc[t],
         \/ send'[t] = Append(send[t], f) /\ up'[t]
         \/ send'[t] = <<>> /\ ~up'[t]
  PROVE  TabSound(t)'
<1>1. TypeOK /\ SeqCountsEvents /\ ReplaySound /\ QueueSound(t) /\ TailSound(t)
  BY DEF IndInv, TabSound
<1>2. pos'[t] <= seq'
  BY LogType DEF IndInv, TabSound, TypeOK
<1>3. CASE send'[t] = <<>> /\ ~up'[t]
  BY <1>2, <1>3, DroppedTab
<1>4. CASE send'[t] = Append(send[t], f) /\ up'[t]
  <2>1. QueueSound(t)' /\ TailSound(t)'
    BY <1>1, <1>4, AppendedQueue
  <2> QED BY <1>2, <1>4, <2>1 DEF TabSound
<1> QED BY <1>3, <1>4

\* A connection is registered: its queue is a hello and possibly a snapshot.
LEMMA RegisteredTab ==
  ASSUME IndInv, TypeOK', NEW t \in Tabs, Register(t)
  PROVE  TabSound(t)'
<1>1. PICK r \in Roles, n \in Nat, p \in Nat, l \in Nat :
        r = role[UserOf[t]] /\ n = seq /\ p = pos[t] /\ l = Len(log)
  BY HubAssumption, LogType DEF IndInv, TypeOK
<1>2. p <= n /\ n <= l /\ pc = "idle" /\ n = l
  BY <1>1 DEF IndInv, TabSound, SeqCountsEvents, Register
<1>3. up'[t] /\ crole'[t] = r /\ pos'[t] = p /\ seq' = n /\ log' = log
  BY <1>1, RegisterEffect DEF database, tabs, IndInv, TypeOK
<1>4. PICK h \in Frame, s \in Frame : h = Hello(r) /\ s = Snapshot(r, l)
  BY FrameTypes DEF IndInv
<1>5. /\ h.type = "hello" /\ h.seq = n /\ h.role = r
      /\ s.type = "snapshot" /\ s.seq = n /\ s.role = r /\ s.upto = l
  BY <1>1, <1>4 DEF Hello, Snapshot
<1>6. CASE send' = [send EXCEPT ![t] = <<Hello(r)>>] /\ pc' = "replay" /\ target' = t /\ next' = p + 1
  <2>1. send'[t] = <<h>> /\ Len(send'[t]) = 1 /\ send'[t][1] = h
    BY <1>4, <1>6 DEF IndInv, TypeOK
  <2>2. ServedUpTo(t)' = p
    BY <1>1, <1>6 DEF ServedUpTo
  <2>3. QueueSound(t)'
    BY <1>3, <1>5, <2>1 DEF QueueSound, FrameSound, FrameOrdered, FrameKeepsRole
  <2>4. CoveredUpTo(t, 2, r, p)'
    BY <1>3 DEF CoveredUpTo, Covered
  <2>5. TailSound(t)'
    BY <1>3, <1>5, <2>1, <2>2, <2>4 DEF TailSound, RoleBefore
  <2> QED BY <1>2, <1>3, <2>3, <2>5 DEF TabSound
<1>7. CASE /\ send' = [send EXCEPT ![t] = <<Hello(r), Snapshot(r, l)>>]
           /\ UNCHANGED <<pc, target, next>>
  <2>1. /\ send'[t] = <<h, s>> /\ Len(send'[t]) = 2 /\ send'[t][1] = h /\ send'[t][2] = s
    BY <1>4, <1>7 DEF IndInv, TypeOK
  <2>2. ServedUpTo(t)' = n
    BY <1>2, <1>3, <1>7 DEF ServedUpTo
  <2>3. QueueSound(t)'
    BY <1>1, <1>2, <1>3, <1>5, <2>1 DEF QueueSound, FrameSound, FrameOrdered, FrameKeepsRole
  <2>4. CoveredUpTo(t, 3, r, n)'
    BY <1>5, <2>1 DEF CoveredUpTo, Covered
  <2>5. TailSound(t)'
    BY <1>2, <1>3, <1>5, <2>1, <2>2, <2>4 DEF TailSound, RoleBefore
  <2> QED BY <1>2, <1>3, <2>3, <2>5 DEF TabSound
<1> QED BY <1>1, <1>6, <1>7, RegisterEffect

---------------------------------------------------------------------------
(* Every step keeps every tab sound *)

LEMMA TabStep ==
  ASSUME IndInv, TypeOK', LogGrows, seq <= seq', [Next]_vars, NEW t \in Tabs
  PROVE  TabSound(t)'
<1>a. TypeOK /\ TabSound(t) /\ send[t] \in Seq(Frame) /\ crole[t] \in Roles /\ UserOf[t] \in Users
  BY HubAssumption DEF IndInv, TypeOK
<1>b. seq \in Nat /\ seq' \in Nat /\ pos[t] \in Nat /\ pos[t] <= seq /\ Len(log) \in Nat
  BY <1>a, LogType DEF TypeOK, TabSound
<1>c. (pc = "replay" => target \in Tabs /\ next \in 1 .. seq + 1) /\ NoTab \notin Tabs
  BY HubAssumption DEF IndInv, ReplaySound
<1>d. (pc # "publish" => seq = Len(log)) /\ seq <= Len(log) /\ dbSeq = Len(log)
  BY DEF IndInv, SeqCountsEvents
<1>e. ASSUME SameConn(t), seq' = seq,
             \/ pc' = pc /\ target' = target /\ next' = next
             \/ pc # "replay" /\ pc' # "replay"
      PROVE  TabSound(t)'
  <2>1. ServedUpTo(t)' = ServedUpTo(t)
    BY <1>e DEF ServedUpTo
  <2> QED BY <1>e, <2>1, QuietTab
<1>f. ASSUME send'[t] = <<>>, ~up'[t], UNCHANGED pos[t] PROVE TabSound(t)'
  <2>1. pos'[t] <= seq'
    BY <1>b, <1>f
  <2> QED BY <1>f, <2>1, DroppedTab
<1>1. ASSUME NEW x \in Tabs \cup {NoTab}, NEW es \in Batches, Command(x, es) PROVE TabSound(t)'
  BY <1>1, <1>e DEF Command, commit, conns, tabs, SameConn
<1>2. ASSUME NEW u \in Users, LoginAsOrganizer(u) PROVE TabSound(t)'
  BY <1>2, <1>e DEF LoginAsOrganizer, commit, conns, tabs, SameConn
\* A snapshot for a changed role, built from n events.
<1>g. ASSUME NEW u \in Users, NEW r \in Roles, NEW n \in Nat, refreshRole(u, r, n),
             UNCHANGED <<seq, pos, enc>>, seq <= n, n <= Len(log'),
             pc # "replay" /\ pc' # "replay"
      PROVE  TabSound(t)'
  <2>1. /\ up[t] /\ UserOf[t] = u =>
              /\ crole'[t] = r
              /\ \/ send'[t] = Append(send[t], Snapshot(r, n)) /\ up'[t]
                 \/ send'[t] = <<>> /\ ~up'[t]
        /\ ~(up[t] /\ UserOf[t] = u) =>
              crole'[t] = crole[t] /\ send'[t] = send[t] /\ up'[t] = up[t]
    BY <1>a, <1>g, RefreshEffect
  <2>2. CASE up[t] /\ UserOf[t] = u
    <3>1. PICK f \in Frame : f = Snapshot(r, n)
      BY <1>a, FrameTypes
    <3>2. f.type = "snapshot" /\ f.seq = seq /\ f.upto = n /\ f.role = r
      BY <3>1 DEF Snapshot
    <3>3. Appendable(t, f) /\ ServedUpTo(t)' = f.seq /\ f.seq <= seq'
      BY <1>b, <1>g, <3>2 DEF Appendable, ServedUpTo
    <3> QED BY <1>g, <2>1, <2>2, <3>1, <3>2, <3>3, ServedTab
  <2>3. CASE ~(up[t] /\ UserOf[t] = u)
    BY <1>e, <1>g, <2>1, <2>3 DEF SameConn
  <2> QED BY <2>2, <2>3
\* A frame offered to the tabs of S.
<1>h. ASSUME NEW S \in SUBSET Tabs, NEW frame, \A x \in S : frame[x] \in Frame,
             enqueue(S, frame), t \in S, up[t], UNCHANGED <<crole, pos, enc>>,
             NEW f \in Frame, f = frame[t], f.role = crole[t], f.seq <= seq',
             Appendable(t, f), ServedUpTo(t)' = f.seq
      PROVE  TabSound(t)'
  <2>1. \/ send'[t] = Append(send[t], frame[t]) /\ up'[t] = up[t]
        \/ send'[t] = <<>> /\ up'[t] = FALSE
    BY <1>a, <1>h, EnqueueEffect
  <2> QED BY <1>h, <2>1, ServedTab
<1>i. ASSUME NEW S \in SUBSET Tabs, NEW frame, \A x \in S : frame[x] \in Frame,
             enqueue(S, frame), t \notin S, UNCHANGED <<crole, pos, enc>>
      PROVE  SameConn(t)
  BY <1>a, <1>i, EnqueueEffect DEF SameConn
<1>3. ASSUME NEW x \in Tabs, NEW u \in Users, NEW r \in Roles, SetRole(x, u, r) PROVE TabSound(t)'
  <2>1. PICK n \in Nat : n = Len(log) + 1
    BY <1>b
  <2>2. Len(log') = n
    <3>1. <<RoleSet(u, r)>> \in Seq(Event) /\ log' = log \o <<RoleSet(u, r)>>
      BY <1>3, RoleSetType DEF SetRole, commit, advanced
    <3> QED BY <1>a, <2>1, <3>1, CommitGrows
  <2>3. refreshRole(u, r, n) /\ UNCHANGED <<seq, pos, enc>> /\ pc = "idle" /\ pc' = "publish"
    BY <1>3, <2>1 DEF SetRole, commit, tabs
  <2> QED BY <1>b, <1>d, <1>g, <2>1, <2>2, <2>3
<1>4. ASSUME NEW x \in Tabs, AnswerOnly(x) PROVE TabSound(t)'
  <2> DEFINE frame == [y \in {x} |-> Ack(crole[x])]
  <2>1. /\ enqueue({x}, frame) /\ up[x] /\ pc = "idle"
        /\ UNCHANGED <<seq, pc, target, next, crole, pos, enc>>
    BY <1>4 DEF AnswerOnly, hubState, tabs
  <2>2. \A y \in {x} : frame[y] = Ack(crole[x]) /\ frame[y] \in Frame
    BY <1>a, FrameTypes DEF TypeOK
  <2>3. CASE t = x
    <3>1. PICK f \in Frame : f = Ack(crole[t])
      BY <1>a, FrameTypes
    <3>2. f.type = "ack" /\ f.seq = seq /\ f.role = crole[t] /\ f = frame[t]
      BY <2>2, <2>3, <3>1 DEF Ack
    <3>3. Appendable(t, f) /\ ServedUpTo(t)' = f.seq /\ f.seq <= seq'
      BY <1>b, <2>1, <3>2 DEF Appendable, ServedUpTo
    <3> HIDE DEF frame
    <3> QED BY <1>h, <2>1, <2>2, <2>3, <3>2, <3>3
  <2>4. CASE t # x
    <3> HIDE DEF frame
    <3> QED BY <1>e, <1>i, <2>1, <2>2, <2>4
  <2> QED BY <2>3, <2>4
<1>5. CASE Publish
  <2> DEFINE S == {x \in Tabs : up[x] /\ Reaches(log[seq + 1], UserOf[x], crole[x])}
             frame == [x \in S |-> AnEvent(seq + 1, crole[x])]
  <2>1. /\ enqueue(S, frame) /\ pc = "publish" /\ seq' = seq + 1 /\ log' = log
        /\ UNCHANGED <<pc, target, next, crole, pos, enc>>
    BY <1>5 DEF Publish, pushed, database, tabs
  <2>2. \A x \in S : frame[x] = AnEvent(seq + 1, crole[x]) /\ frame[x] \in Frame
    <3>1. seq + 1 \in Nat /\ \A x \in Tabs : crole[x] \in Roles
      BY <1>a, <1>b DEF TypeOK
    <3> QED BY <1>a, <3>1, FrameTypes
  <2>3. ServedUpTo(t) = seq /\ ServedUpTo(t)' = seq + 1
    BY <2>1 DEF ServedUpTo
  <2>4. CASE t \in S
    <3>1. PICK f \in Frame : f = AnEvent(seq + 1, crole[t])
      BY <1>a, <1>b, FrameTypes
    <3>2. f.type = "event" /\ f.seq = seq + 1 /\ f.role = crole[t] /\ f = frame[t]
      BY <2>2, <2>4, <3>1 DEF AnEvent
    <3>3. Appendable(t, f) /\ f.seq <= seq' /\ up[t]
      BY <1>b, <2>1, <2>3, <2>4, <3>2 DEF Appendable
    <3> HIDE DEF frame
    <3> QED BY <1>h, <2>1, <2>2, <2>3, <2>4, <3>2, <3>3
  <2>5. CASE t \notin S
    <3>1. SameConn(t)
      <4> HIDE DEF frame
      <4> QED BY <1>i, <2>1, <2>2, <2>5
    <3>2. CASE up[t]
      <4>1. PassesOver(t)
        BY <2>1, <2>3, <2>5, <3>2 DEF PassesOver
      <4> QED BY <3>1, <4>1, QuietTab
    <3>3. CASE ~up[t]
      BY <1>a, <1>f, <3>1, <3>3 DEF SameConn, TabSound
    <3> QED BY <3>2, <3>3
  <2> QED BY <2>4, <2>5
<1>6. CASE FinishCommand
  <2> DEFINE S == {x \in Tabs : x = ackTo /\ up[x]}
             frame == [x \in S |-> Ack(crole[x])]
  <2>1. /\ enqueue(S, frame) /\ pc = "publish" /\ pc' = "idle"
        /\ UNCHANGED <<seq, crole, pos, enc>>
    BY <1>6 DEF FinishCommand, Idle, tabs
  <2>2. \A x \in S : frame[x] = Ack(crole[x]) /\ frame[x] \in Frame
    BY <1>a, FrameTypes DEF TypeOK
  <2>3. CASE t \in S
    <3>1. PICK f \in Frame : f = Ack(crole[t])
      BY <1>a, FrameTypes
    <3>2. f.type = "ack" /\ f.seq = seq /\ f.role = crole[t] /\ f = frame[t]
      BY <2>2, <2>3, <3>1 DEF Ack
    <3>3. Appendable(t, f) /\ ServedUpTo(t)' = f.seq /\ f.seq <= seq' /\ up[t]
      BY <1>b, <2>1, <2>3, <3>2 DEF Appendable, ServedUpTo
    <3> HIDE DEF frame
    <3> QED BY <1>h, <2>1, <2>2, <2>3, <3>2, <3>3
  <2>4. CASE t \notin S
    <3> HIDE DEF frame
    <3> QED BY <1>e, <1>i, <2>1, <2>2, <2>4
  <2> QED BY <2>3, <2>4
<1>7. CASE FinishLogin
  <2>1. refresh \in Users /\ role[refresh] \in Roles
    BY <1>7, <1>a DEF FinishLogin, TypeOK
  <2>2. PICK u \in Users, r \in Roles, n \in Nat : u = refresh /\ r = role[refresh] /\ n = Len(log)
    BY <1>b, <2>1
  <2>3. /\ refreshRole(u, r, n) /\ UNCHANGED <<seq, pos, enc>> /\ Len(log') = n
        /\ pc = "publish" /\ pc' = "idle"
    BY <1>7, <2>2 DEF FinishLogin, Idle, database, tabs
  <2> QED BY <1>d, <1>g, <2>2, <2>3
<1>8. ASSUME NEW x \in Tabs, Register(x) PROVE TabSound(t)'
  <2>1. CASE t = x
    BY <1>8, <2>1, RegisteredTab
  <2>2. CASE t # x
    <3>1. SameConn(t) /\ UNCHANGED seq
      BY <1>8, <1>a, <2>2 DEF Register, SameConn, tabs, TypeOK
    <3>2. ServedUpTo(t)' = ServedUpTo(t)
      BY <1>8, <2>2 DEF Register, ServedUpTo
    <3> QED BY <3>1, <3>2, QuietTab
  <2> QED BY <2>1, <2>2
<1>9. CASE Replay
  <2> DEFINE S == {x \in Tabs : x = target /\ up[x] /\ Reaches(log[next], UserOf[x], crole[x])}
             frame == [x \in S |-> AnEvent(next, crole[x])]
  <2>1. /\ enqueue(S, frame) /\ pc = "replay" /\ next <= seq /\ next' = next + 1
        /\ UNCHANGED <<log, seq, pc, target, crole, pos, enc>>
    BY <1>9 DEF Replay, database, tabs
  <2>2. \A x \in S : frame[x] = AnEvent(next, crole[x]) /\ frame[x] \in Frame
    BY <1>a, FrameTypes DEF TypeOK
  <2>3. PICK m \in Nat : next = m + 1 /\ m + 1 <= seq
    <3>1. next - 1 \in Nat /\ next = (next - 1) + 1
      BY <1>c, <2>1
    <3> QED BY <2>1, <3>1
  <2>4. CASE t \in S
    <3>1. PICK f \in Frame : f = AnEvent(next, crole[t])
      BY <1>a, FrameTypes, <2>3
    <3>2. f.type = "event" /\ f.seq = m + 1 /\ f.role = crole[t] /\ f = frame[t]
      BY <2>2, <2>3, <2>4, <3>1 DEF AnEvent
    <3>3. t = target /\ up[t] /\ Reaches(log'[m + 1], UserOf[t], crole[t])
      BY <2>1, <2>3, <2>4
    <3>4. ServedUpTo(t) = m /\ ServedUpTo(t)' = m + 1
      BY <2>1, <2>3, <3>3 DEF ServedUpTo
    <3>5. Appendable(t, f) /\ f.seq <= seq'
      BY <2>1, <2>3, <3>2, <3>3, <3>4 DEF Appendable
    <3> HIDE DEF frame
    <3> QED BY <1>h, <2>1, <2>2, <2>4, <3>2, <3>3, <3>4, <3>5
  <2>5. CASE t \notin S
    <3>1. SameConn(t)
      <4> HIDE DEF frame
      <4> QED BY <1>i, <2>1, <2>2, <2>5
    <3>2. CASE ~up[t]
      BY <1>a, <1>f, <3>1, <3>2 DEF SameConn, TabSound
    <3>3. CASE t # target
      <4>1. ServedUpTo(t)' = ServedUpTo(t)
        BY <2>1, <3>3 DEF ServedUpTo
      <4> QED BY <3>1, <4>1, QuietTab
    <3>4. CASE up[t] /\ t = target
      <4>1. ServedUpTo(t) = m /\ ServedUpTo(t)' = m + 1
        BY <2>1, <2>3, <3>4 DEF ServedUpTo
      <4>2. PassesOver(t)
        BY <2>1, <2>3, <2>5, <3>4, <4>1 DEF PassesOver
      <4> QED BY <3>1, <4>2, QuietTab
    <3> QED BY <3>2, <3>3, <3>4
  <2> QED BY <2>4, <2>5
<1>10. CASE FinishReplay
  <2>1. SameConn(t) /\ UNCHANGED seq /\ pc = "replay" /\ pc' = "idle" /\ next > seq
    BY <1>10 DEF FinishReplay, Idle, conns, tabs, SameConn
  <2>2. ServedUpTo(t)' = ServedUpTo(t)
    BY <1>b, <1>c, <2>1 DEF ServedUpTo
  <2> QED BY <2>1, <2>2, QuietTab
<1>11. ASSUME NEW x \in Tabs, Deliver(x) PROVE TabSound(t)'
  <2>1. CASE t # x
    <3>1. SameConn(t)
      BY <1>11, <1>a, <2>1 DEF Deliver, tabs, SameConn, TypeOK
    <3>2. seq' = seq /\ pc' = pc /\ target' = target /\ next' = next
      BY <1>11 DEF Deliver, hubState
    <3> QED BY <1>e, <3>1, <3>2
  <2>2. CASE t = x
    <3>1. /\ UNCHANGED <<log, seq, up, crole, hubState>> /\ up[t] /\ send[t] # <<>>
          /\ send'[t] = Tail(send[t])
      BY <1>11, <1>a, <2>2 DEF Deliver, database, hubState, TypeOK
    <3>2. PICK f \in Frame : f = Head(send[t])
      BY <1>a, <3>1
    <3>3. /\ f.type \in {"hello", "snapshot"} => enc'[t] = f.role
          /\ f.type \in {"event", "ack"} => enc'[t] = enc[t]
      BY <1>11, <1>a, <2>2, <3>2 DEF Deliver, tabs, TypeOK
    <3>4. f.type = "event" => pos[t] <= f.seq
      <4>1. 1 \in 1 .. Len(send[t]) /\ send[t][1] = f
        BY <1>a, <3>1, <3>2
      <4>2. FrameOrdered(t, 1)
        BY <1>a, <4>1 DEF TabSound, QueueSound
      <4> QED BY <4>1, <4>2 DEF FrameOrdered
    <3>5. f.seq \in Nat
      BY DEF Frame
    <3>6. /\ f.type \in {"event", "snapshot"} => pos'[t] = f.seq
          /\ f.type \in {"hello", "ack"} => pos'[t] = pos[t]
      <4>1. CASE UNCHANGED tabs
        <5>1. f.type # "snapshot" \/ pos' = [pos EXCEPT ![t] = f.seq]
          BY <1>11, <2>2, <3>2 DEF Deliver
        <5>2. f.type = "event" => f.seq <= pos[t] \/ pos' = [pos EXCEPT ![t] = f.seq]
          BY <1>11, <2>2, <3>2 DEF Deliver
        <5>3. pos' = pos
          BY <4>1 DEF tabs
        <5>4. pos \in [Tabs -> Nat] /\ pos[t] \in Nat
          BY <1>a DEF TypeOK
        <5>5. f.type = "snapshot" => pos'[t] = f.seq
          BY <5>1, <5>4
        <5>6. f.type = "event" => pos'[t] = f.seq
          BY <3>4, <3>5, <5>2, <5>3, <5>4
        <5> QED BY <5>3, <5>5, <5>6
      <4>2. CASE f.type \in {"snapshot", "event"} /\ pos' = [pos EXCEPT ![t] = f.seq]
        BY <1>a, <4>2 DEF TypeOK
      <4>3. CASE f.type = "hello" /\ UNCHANGED pos
        BY <4>3
      <4> QED BY <1>11, <2>2, <3>2, <4>1, <4>2, <4>3 DEF Deliver
    <3>7. QueueSound(t)' /\ TailSound(t)' /\ pos'[t] <= seq
      BY <1>a, <3>1, <3>2, <3>3, <3>6, DeliveredQueue DEF TabSound
    <3> QED BY <3>1, <3>7 DEF TabSound
  <2> QED BY <2>1, <2>2
<1>12. ASSUME NEW x \in Tabs, Break(x) PROVE TabSound(t)'
  <2>1. CASE t # x
    <3>1. SameConn(t)
      BY <1>12, <1>a, <2>1 DEF Break, Cut, tabs, SameConn, TypeOK
    <3>2. seq' = seq /\ pc' = pc /\ target' = target /\ next' = next
      BY <1>12 DEF Break, hubState
    <3> QED BY <1>e, <3>1, <3>2
  <2>2. CASE t = x
    BY <1>12, <1>a, <1>f, <2>2 DEF Break, Cut, tabs, TypeOK
  <2> QED BY <2>1, <2>2
<1>13. ASSUME NEW x \in Tabs, Reload(x) PROVE TabSound(t)'
  <2>1. CASE t # x
    <3>1. SameConn(t)
      BY <1>13, <1>a, <2>1 DEF Reload, Cut, SameConn, TypeOK
    <3>2. seq' = seq /\ pc' = pc /\ target' = target /\ next' = next
      BY <1>13 DEF Reload, hubState
    <3> QED BY <1>e, <3>1, <3>2
  <2>2. CASE t = x
    <3>1. send'[t] = <<>> /\ ~up'[t] /\ pos'[t] = 0
      BY <1>13, <1>a, <2>2 DEF Reload, Cut, TypeOK
    <3> QED BY <1>b, <3>1, DroppedTab
  <2> QED BY <2>1, <2>2
<1>14. CASE Restart
  BY <1>14, <1>f DEF Restart, tabs
<1>15. CASE UNCHANGED vars
  <2>1. SameConn(t) /\ seq' = seq /\ pc' = pc /\ target' = target /\ next' = next
    BY <1>15 DEF vars, hubState, conns, tabs, SameConn
  <2> QED BY <1>e, <2>1
<1> QED BY <1>1, <1>2, <1>3, <1>4, <1>5, <1>6, <1>7, <1>8, <1>9, <1>10, <1>11, <1>12, <1>13, <1>14, <1>15
        DEF Next, HubStep

---------------------------------------------------------------------------
(* Every step keeps the boards right *)

\* NoGap and NothingExtra for one tab.
BoardSound(t) ==
  ~mixed[t] => /\ Visible(UserOf[t], enc[t], pos[t]) \subseteq view[t]
               /\ view[t] \subseteq Visible(UserOf[t], enc[t], Len(log))

LEMMA QuietBoard ==
  ASSUME IndInv, TypeOK', LogGrows, NEW t \in Tabs,
         UNCHANGED <<pos[t], view[t], enc[t], mixed[t]>>
  PROVE  BoardSound(t)'
<1> SUFFICES ASSUME ~mixed[t] PROVE BoardSound(t)'
  BY DEF BoardSound
<1>1. PICK r \in Roles, n \in Nat, l \in Nat : r = enc[t] /\ n = pos[t] /\ l = Len(log)
  <2>1. enc[t] \in Roles /\ pos[t] \in Nat /\ Len(log) \in Nat
    BY LogType DEF IndInv, TypeOK
  <2> QED BY <2>1
<1>2. n <= l
  BY <1>1, LogType DEF IndInv, TabSound, SeqCountsEvents, TypeOK
<1>3. TypeOK /\ Visible(UserOf[t], r, n) \subseteq view[t] /\ view[t] \subseteq Visible(UserOf[t], r, l)
  BY <1>1 DEF IndInv, NoGap, NothingExtra
<1>4. Visible(UserOf[t], r, n)' = Visible(UserOf[t], r, n)
  BY <1>1, <1>2, <1>3, VisibleStable
<1>5. Visible(UserOf[t], r, l)' = Visible(UserOf[t], r, l)
  BY <1>1, <1>3, VisibleStable
<1>6. PICK l1 \in Nat : l1 = Len(log')
  BY LogType
<1>7. Visible(UserOf[t], r, l)' \subseteq Visible(UserOf[t], r, l1)'
  BY <1>1, <1>6 DEF Visible, LogGrows
<1> QED BY <1>1, <1>3, <1>4, <1>5, <1>6, <1>7 DEF BoardSound

LEMMA DeliveredBoard ==
  ASSUME IndInv, TypeOK', NEW t \in Tabs, Deliver(t)
  PROVE  BoardSound(t)'
<1>a. /\ TypeOK /\ log' = log /\ send[t] \in Seq(Frame) /\ send[t] # <<>>
      /\ pos \in [Tabs -> Nat] /\ view \in [Tabs -> SUBSET Nat] /\ enc \in [Tabs -> Roles]
      /\ mixed \in [Tabs -> BOOLEAN] /\ seq <= Len(log) /\ seq \in Nat
  BY DEF IndInv, TypeOK, Deliver, database, SeqCountsEvents
<1>b. PICK f \in Frame, l \in Nat : f = Head(send[t]) /\ l = Len(log)
  <2>1. Head(send[t]) \in Frame
    BY <1>a
  <2>2. Len(log) \in Nat
    BY <1>a, LogType
  <2> QED BY <2>1, <2>2
<1>c. f.seq \in Nat /\ f.upto \in Nat
  BY DEF Frame
<1>d. FrameSound(t, 1) /\ FrameOrdered(t, 1) /\ FrameKeepsRole(t, 1) /\ send[t][1] = f
  <2>1. 1 \in 1 .. Len(send[t]) /\ send[t][1] = f
    BY <1>a, <1>b
  <2> QED BY <2>1 DEF IndInv, TabSound, QueueSound
<1>e. ~mixed[t] => /\ Visible(UserOf[t], enc[t], pos[t]) \subseteq view[t]
                   /\ view[t] \subseteq Visible(UserOf[t], enc[t], l)
  BY <1>b DEF IndInv, NoGap, NothingExtra
<1>1. CASE f.type = "hello"
  <2>1. /\ enc'[t] = f.role /\ UNCHANGED <<pos, view>>
        /\ ~mixed'[t] => ~mixed[t] /\ (Staff(f.role) <=> Staff(enc[t]))
    BY <1>1, <1>a, <1>b DEF Deliver
  <2>2. PICK r : r = f.role
    OBVIOUS
  <2>3. ASSUME ~mixed'[t], NEW n PROVE Visible(UserOf[t], enc[t], n) = Visible(UserOf[t], r, n)
    <3>1. \A i : Reaches(log[i], UserOf[t], enc[t]) <=> Reaches(log[i], UserOf[t], r)
      BY <2>1, <2>2, <2>3 DEF Reaches
    <3> QED BY <3>1 DEF Visible
  <2>4. ASSUME ~mixed'[t]
        PROVE  /\ Visible(UserOf[t], r, pos[t]) \subseteq view[t]
               /\ view[t] \subseteq Visible(UserOf[t], r, l)
    <3>1. PICK n : n = pos[t]
      OBVIOUS
    <3> QED BY <1>e, <2>1, <2>3, <2>4, <3>1
  <2> QED BY <1>a, <1>b, <2>1, <2>2, <2>4 DEF BoardSound, Visible, Reaches
<1>2. CASE f.type = "snapshot"
  <2>1. /\ pos'[t] = f.seq /\ enc'[t] = f.role
        /\ view'[t] = Visible(UserOf[t], f.role, f.upto)
    BY <1>2, <1>a, <1>b DEF Deliver
  <2>2. f.seq <= f.upto /\ f.upto <= l
    BY <1>2, <1>b, <1>d DEF FrameSound
  <2> QED BY <1>a, <1>b, <1>c, <2>1, <2>2 DEF BoardSound, Visible, Reaches
<1>3. CASE f.type = "event" /\ f.seq > pos[t]
  <2>1. /\ pos'[t] = f.seq /\ view'[t] = view[t] \cup {f.seq} /\ UNCHANGED <<enc, mixed>>
    <3>1. /\ pos' = [pos EXCEPT ![t] = f.seq] /\ view' = [view EXCEPT ![t] = @ \cup {f.seq}]
          /\ UNCHANGED <<enc, mixed>>
      BY <1>3, <1>a, <1>b, <1>c DEF Deliver
    <3> QED BY <1>a, <3>1
  <2> SUFFICES ASSUME ~mixed[t] PROVE BoardSound(t)'
    BY <2>1 DEF BoardSound
  <2>2. f.role = enc[t]
    BY <1>3, <1>d DEF FrameKeepsRole, RoleBefore
  <2>3. /\ f.seq \in 1 .. l /\ Reaches(log[f.seq], UserOf[t], enc[t])
        /\ CoveredUpTo(t, 1, enc[t], f.seq - 1)
    BY <1>3, <1>a, <1>b, <1>c, <1>d, <2>2 DEF FrameSound
  <2>4. \A i \in 1 .. f.seq - 1 : Reaches(log[i], UserOf[t], enc[t]) => i <= pos[t]
    BY <2>3 DEF CoveredUpTo, Covered
  <2>5. Visible(UserOf[t], enc[t], f.seq) \subseteq view[t] \cup {f.seq}
    <3> SUFFICES ASSUME NEW i \in 1 .. f.seq, i # f.seq, i <= Len(log),
                        Reaches(log[i], UserOf[t], enc[t])
                 PROVE  i \in view[t]
      BY DEF Visible
    <3>1. i \in 1 .. f.seq - 1
      BY <1>c
    <3>2. i \in 1 .. pos[t]
      BY <1>a, <2>4, <3>1
    <3> QED BY <1>e, <3>2 DEF Visible
  <2>6. view[t] \cup {f.seq} \subseteq Visible(UserOf[t], enc[t], l)
    BY <1>b, <1>e, <2>3 DEF Visible
  <2> QED BY <1>a, <1>b, <2>1, <2>5, <2>6 DEF BoardSound, Visible, Reaches
<1>4. CASE UNCHANGED tabs
  BY <1>4, <1>a, QuietBoard DEF LogGrows, tabs
<1> QED BY <1>b, <1>1, <1>2, <1>3, <1>4 DEF Deliver

LEMMA BoardStep ==
  ASSUME IndInv, TypeOK', LogGrows, [Next]_vars, NEW t \in Tabs
  PROVE  BoardSound(t)'
<1>a. /\ pos \in [Tabs -> Nat] /\ view \in [Tabs -> SUBSET Nat]
      /\ enc \in [Tabs -> Roles] /\ mixed \in [Tabs -> BOOLEAN]
  BY DEF IndInv, TypeOK
<1>1. ASSUME UNCHANGED tabs PROVE BoardSound(t)'
  BY <1>1, QuietBoard DEF tabs
<1>2. ASSUME NEW x \in Tabs \cup {NoTab}, NEW es \in Batches, Command(x, es) PROVE BoardSound(t)'
  BY <1>1, <1>2 DEF Command
<1>3. ASSUME NEW u \in Users, LoginAsOrganizer(u) PROVE BoardSound(t)'
  BY <1>1, <1>3 DEF LoginAsOrganizer
<1>4. ASSUME NEW x \in Tabs, NEW u \in Users, NEW r \in Roles, SetRole(x, u, r) PROVE BoardSound(t)'
  BY <1>1, <1>4 DEF SetRole
<1>5. ASSUME NEW x \in Tabs, AnswerOnly(x) \/ Register(x) \/ Break(x) PROVE BoardSound(t)'
  BY <1>1, <1>5 DEF AnswerOnly, Register, Break
<1>6. ASSUME NEW x \in Tabs, Deliver(x) PROVE BoardSound(t)'
  <2>1. CASE t = x
    BY <1>6, <2>1, DeliveredBoard
  <2>2. CASE t # x
    <3>1. pos'[t] = pos[t] /\ view'[t] = view[t]
      BY <1>6, <1>a, <2>2 DEF Deliver, tabs
    <3>2. enc'[t] = enc[t] /\ mixed'[t] = mixed[t]
      BY <1>6, <1>a, <2>2 DEF Deliver, tabs
    <3> QED BY <3>1, <3>2, QuietBoard
  <2> QED BY <2>1, <2>2
<1>7. ASSUME NEW x \in Tabs, Reload(x) PROVE BoardSound(t)'
  <2>1. CASE t = x
    <3>1. pos'[t] = 0 /\ view'[t] = {}
      BY <1>7, <1>a, <2>1 DEF Reload
    <3> QED BY <3>1 DEF BoardSound, Visible
  <2>2. CASE t # x
    BY <1>7, <1>a, <2>2, QuietBoard DEF Reload
  <2> QED BY <2>1, <2>2
<1>8. CASE HubStep \/ Restart \/ UNCHANGED vars
  BY <1>1, <1>8 DEF HubStep, Publish, FinishCommand, FinishLogin, Replay, FinishReplay, Restart, vars
<1> QED BY <1>2, <1>3, <1>4, <1>5, <1>6, <1>7, <1>8 DEF Next

---------------------------------------------------------------------------
(* The theorems *)

LEMMA InitSound == Init => IndInv
<1> SUFFICES ASSUME Init PROVE IndInv
  OBVIOUS
<1>1. TypeOK
  BY HubAssumption DEF Init, TypeOK, Roles
<1>2. SeqCountsEvents /\ ReplaySound /\ refresh = Nobody
  BY DEF Init, SeqCountsEvents, ReplaySound
<1>3. \A t \in Tabs : TabSound(t)
  BY DEF Init, TabSound, QueueSound, TailSound
<1>4. ConnRoleIsFresh /\ NoGap /\ NothingExtra
  BY DEF Init, ConnRoleIsFresh, NoGap, NothingExtra, Visible
<1> QED BY <1>1, <1>2, <1>3, <1>4 DEF IndInv

LEMMA StepSound == IndInv /\ [Next]_vars => IndInv'
<1> SUFFICES ASSUME IndInv, [Next]_vars PROVE IndInv'
  OBVIOUS
<1>1. TypeOK'
  BY TypeStep
<1>2. LogGrows /\ seq <= seq'
  BY GrowStep
<1>3. Books'
  BY BooksStep
<1>4. ConnRoleIsFresh'
  BY FreshStep
<1>5. \A t \in Tabs : TabSound(t)'
  BY <1>1, <1>2, TabStep
<1>6. NoGap' /\ NothingExtra'
  <2>1. \A t \in Tabs : BoardSound(t)'
    BY <1>1, <1>2, BoardStep
  <2> QED BY <2>1 DEF BoardSound, NoGap, NothingExtra
<1> QED BY <1>1, <1>3, <1>4, <1>5, <1>6 DEF IndInv, Books

\* Every queued frame finds in the tab what it presupposes, in every
\* reachable state: the inductive invariant.
THEOREM AlwaysSound == Spec => []IndInv
  BY InitSound, StepSound, PTL DEF Spec

\* The state has its types (ws.go, hub.go: the fields of Hub and conn).
THEOREM TypeCorrect == Spec => []TypeOK
<1>1. IndInv => TypeOK
  BY DEF IndInv
<1> QED BY <1>1, AlwaysSound, PTL

\* Restarts and commits never give a seq twice (newHub, commit).
THEOREM SeqNeverReused == Spec => []SeqCountsEvents
<1>1. IndInv => SeqCountsEvents
  BY DEF IndInv
<1> QED BY <1>1, AlwaysSound, PTL

\* No tab skips an event that reaches it (publish, Register, ring.after).
THEOREM NothingMissed == Spec => []NoGap
<1>1. IndInv => NoGap
  BY DEF IndInv
<1> QED BY <1>1, AlwaysSound, PTL

\* No tab is sent an event its audience must not see (frameFor).
THEOREM NothingLeaked == Spec => []NothingExtra
<1>1. IndInv => NothingExtra
  BY DEF IndInv
<1> QED BY <1>1, AlwaysSound, PTL

\* Frames are chosen by the role the database holds (Register, refreshRole).
THEOREM RolesAreFresh == Spec => []ConnRoleIsFresh
<1>1. IndInv => ConnRoleIsFresh
  BY DEF IndInv
<1> QED BY <1>1, AlwaysSound, PTL

\* An ack never overtakes the events it acknowledges (handleCommand).
THEOREM AcksFollowEvents == Spec => []AckAfterEvents
<1>1. IndInv => AckAfterEvents
  <2> SUFFICES ASSUME IndInv, NEW t \in Tabs, up[t], ~mixed[t], send[t] # <<>>,
                      Head(send[t]).type = "ack"
               PROVE  Visible(UserOf[t], enc[t], Head(send[t]).seq) \subseteq view[t]
    BY DEF AckAfterEvents
  <2>1. send[t] \in Seq(Frame)
    BY DEF IndInv, TypeOK
  <2>2. 1 \in 1 .. Len(send[t]) /\ send[t][1] = Head(send[t])
    BY <2>1
  <2>3. FrameSound(t, 1) /\ FrameKeepsRole(t, 1)
    BY <2>2 DEF IndInv, TabSound, QueueSound
  <2>4. CoveredUpTo(t, 1, enc[t], Head(send[t]).seq)
    BY <2>2, <2>3 DEF FrameSound, FrameKeepsRole, RoleBefore
  <2>5. \A i \in 1 .. Head(send[t]).seq : Reaches(log[i], UserOf[t], enc[t]) => i <= pos[t]
    BY <2>4 DEF CoveredUpTo, Covered
  <2>6. Visible(UserOf[t], enc[t], pos[t]) \subseteq view[t] /\ pos[t] \in Nat
    BY DEF IndInv, NoGap, TypeOK
  <2>7. Head(send[t]).seq \in Nat
    <3>1. Head(send[t]) \in Frame
      BY <2>1
    <3> QED BY <3>1 DEF Frame
  <2> QED BY <2>5, <2>6, <2>7 DEF Visible
<1> QED BY <1>1, AlwaysSound, PTL

\* A tab that has read everything shows the board its user may see now:
\* the refinement of "the database as this user sees it" by replay,
\* snapshots and events (Register, publish, buildSnapshot, applyFrame).
THEOREM DrainedIsCurrent == Spec => []DrainedShowsBoard
<1>1. IndInv => DrainedShowsBoard
  <2> SUFFICES ASSUME IndInv, NEW t \in Tabs, Drained(t), ~mixed[t]
               PROVE  ShowsBoard(t)
    BY DEF DrainedShowsBoard
  <2>1. pc = "idle" /\ up[t] /\ send[t] = <<>> /\ Len(send[t]) = 0
    BY DEF Drained
  <2>2. UserOf[t] \in Users /\ Nobody \notin Users /\ refresh = Nobody /\ seq = Len(log)
    BY <2>1, HubAssumption DEF IndInv, SeqCountsEvents
  <2>3. TailSound(t) /\ ServedUpTo(t) = seq
    BY <2>1 DEF IndInv, TabSound, ServedUpTo
  <2>4. crole[t] = enc[t] /\ CoveredUpTo(t, 1, crole[t], seq)
    BY <2>1, <2>3 DEF TailSound, RoleBefore
  <2>5. crole[t] = role[UserOf[t]]
    BY <2>1, <2>2 DEF IndInv, ConnRoleIsFresh
  <2>6. \A i \in 1 .. seq : Reaches(log[i], UserOf[t], enc[t]) => i <= pos[t]
    BY <2>4 DEF CoveredUpTo, Covered
  <2>7. /\ Visible(UserOf[t], enc[t], pos[t]) \subseteq view[t] /\ pos[t] \in Nat
        /\ view[t] \subseteq Visible(UserOf[t], enc[t], Len(log)) /\ Len(log) \in Nat
    BY LogType DEF IndInv, NoGap, NothingExtra, TypeOK
  <2>8. Visible(UserOf[t], enc[t], Len(log)) \subseteq Visible(UserOf[t], enc[t], pos[t])
    BY <2>2, <2>6, <2>7 DEF Visible
  <2>9. view[t] = Visible(UserOf[t], enc[t], Len(log))
    BY <2>7, <2>8
  <2> QED BY <2>4, <2>5, <2>9 DEF ShowsBoard
<1> QED BY <1>1, AlwaysSound, PTL

\* A tab's seq moves forward except by a reload (applyFrame, Register).
THEOREM SeqMovesForward == Spec => NeverRewinds
<1>1. IndInv /\ [Next]_vars => [\A t \in Tabs : pos'[t] >= pos[t] \/ Reload(t)]_vars
  <2> SUFFICES ASSUME IndInv, Next, NEW t \in Tabs PROVE pos'[t] >= pos[t] \/ Reload(t)
    OBVIOUS
  <2>1. pos \in [Tabs -> Nat] /\ pos[t] \in Nat /\ send[t] \in Seq(Frame) /\ TabSound(t)
    BY DEF IndInv, TypeOK
  <2>2. ASSUME UNCHANGED pos PROVE pos'[t] >= pos[t]
    BY <2>1, <2>2
  <2>3. ASSUME NEW x \in Tabs, Deliver(x) PROVE pos'[t] >= pos[t]
    <3>1. CASE x = t
      <4>1. PICK f \in Frame : f = Head(send[t])
        BY <2>1, <2>3, <3>1 DEF Deliver
      <4>2. 1 \in 1 .. Len(send[t]) /\ send[t][1] = f
        BY <2>1, <2>3, <3>1, <4>1 DEF Deliver
      <4>3. f.type \in {"event", "snapshot"} => pos[t] <= f.seq
        BY <2>1, <4>2 DEF TabSound, QueueSound, FrameOrdered
      <4>4. \/ f.type \in {"event", "snapshot"} /\ pos' = [pos EXCEPT ![t] = f.seq]
            \/ UNCHANGED pos
        BY <2>3, <3>1, <4>1 DEF Deliver, tabs
      <4>5. f.seq \in Nat
        BY DEF Frame
      <4> QED BY <2>1, <2>2, <4>3, <4>4, <4>5
    <3>2. CASE x # t
      <4>1. pos'[t] = pos[t]
        BY <2>1, <2>3, <3>2 DEF Deliver, tabs
      <4> QED BY <2>1, <4>1
    <3> QED BY <3>1, <3>2
  <2>4. ASSUME NEW x \in Tabs, Reload(x) PROVE pos'[t] >= pos[t] \/ Reload(t)
    <3>1. CASE x # t
      <4>1. pos'[t] = pos[t]
        BY <2>1, <2>4, <3>1 DEF Reload
      <4> QED BY <2>1, <4>1
    <3> QED BY <2>4, <3>1
  <2>5. ASSUME NEW x \in Tabs \cup {NoTab}, NEW es \in Batches, Command(x, es) PROVE UNCHANGED pos
    BY <2>5 DEF Command, tabs
  <2>6. ASSUME NEW u \in Users, LoginAsOrganizer(u) PROVE UNCHANGED pos
    BY <2>6 DEF LoginAsOrganizer, tabs
  <2>7. ASSUME NEW x \in Tabs, NEW u \in Users, NEW r \in Roles, SetRole(x, u, r) PROVE UNCHANGED pos
    BY <2>7 DEF SetRole, tabs
  <2>8. ASSUME NEW x \in Tabs, AnswerOnly(x) \/ Register(x) \/ Break(x) PROVE UNCHANGED pos
    BY <2>8 DEF AnswerOnly, Register, Break, tabs
  <2>9. CASE HubStep \/ Restart
    <3>1. UNCHANGED pos
      BY <2>9 DEF HubStep, Publish, FinishCommand, FinishLogin, Replay, FinishReplay, Restart, tabs
    <3> QED BY <2>2, <3>1
  <2> QED BY <2>2, <2>3, <2>4, <2>5, <2>6, <2>7, <2>8, <2>9 DEF Next
<1> QED BY <1>1, AlwaysSound, PTL DEF Spec, NeverRewinds

\* A replay in progress, for the induction.
LEMMA ReplayFitsStep ==
  ASSUME IndInv, TypeOK', ReplayFits, [Next]_vars
  PROVE  ReplayFits'
<1>a. /\ send \in [Tabs -> Seq(Frame)] /\ up \in [Tabs -> BOOLEAN] /\ seq \in Nat /\ next \in Nat
      /\ SendBuffer \in Nat /\ MaxReplay \in Nat /\ MaxReplay + 1 <= SendBuffer
      /\ pc = "replay" => target \in Tabs /\ next \in 1 .. seq + 1
  BY HubAssumption DEF IndInv, TypeOK, ReplaySound
<1>b. pc = "replay" /\ up[target] => Len(send[target]) + (seq + 1 - next) <= SendBuffer
  BY DEF ReplayFits
<1>c. \A x \in Tabs : Len(send[x]) \in Nat
  BY <1>a
<1>1. ASSUME pc' # "replay" PROVE ReplayFits'
  BY <1>1 DEF ReplayFits
<1>2. ASSUME pc' = pc, seq' = seq, next' = next, target' = target,
             pc = "replay" /\ up'[target] => up[target] /\ Len(send'[target]) <= Len(send[target]),
             pc = "replay" => Len(send'[target]) \in Nat
      PROVE  ReplayFits'
  <2> SUFFICES ASSUME pc = "replay", up'[target]
               PROVE  Len(send'[target]) + (seq + 1 - next) <= SendBuffer
    BY <1>2 DEF ReplayFits
  <2>1. PICK a \in Nat, b \in Nat : a = Len(send'[target]) /\ b = Len(send[target])
    BY <1>2, <1>a, <1>c
  <2>2. a <= b /\ b + (seq + 1 - next) <= SendBuffer
    BY <1>2, <1>b, <2>1
  <2>3. PICK d \in Int : d = seq + 1 - next
    BY <1>a
  <2>4. SendBuffer \in Nat /\ b + d <= SendBuffer
    BY <1>a, <2>2, <2>3
  <2>5. a + d <= SendBuffer
    BY <2>2, <2>4
  <2> QED BY <2>1, <2>3, <2>5
<1>3. ASSUME NEW x \in Tabs \cup {NoTab}, NEW es \in Batches, Command(x, es) PROVE ReplayFits'
  BY <1>1, <1>3 DEF Command, commit
<1>4. ASSUME NEW u \in Users, LoginAsOrganizer(u) PROVE ReplayFits'
  BY <1>1, <1>4 DEF LoginAsOrganizer, commit, advanced
<1>5. ASSUME NEW x \in Tabs, NEW u \in Users, NEW r \in Roles, SetRole(x, u, r) PROVE ReplayFits'
  BY <1>1, <1>5 DEF SetRole, commit, advanced
<1>6. ASSUME NEW x \in Tabs, AnswerOnly(x) PROVE ReplayFits'
  BY <1>1, <1>6 DEF AnswerOnly, hubState
<1>7. CASE Publish \/ FinishCommand \/ FinishLogin \/ FinishReplay \/ Restart
  BY <1>1, <1>7 DEF Publish, pushed, FinishCommand, FinishLogin, FinishReplay, Restart, Idle
<1>8. ASSUME NEW t \in Tabs, Register(t) PROVE ReplayFits'
  <2> SUFFICES ASSUME pc' = "replay" PROVE ReplayFits'
    BY <1>1
  <2>1. PICK r : r = role[UserOf[t]]
    OBVIOUS
  <2>2. /\ seq - pos[t] <= MaxReplay /\ send' = [send EXCEPT ![t] = <<Hello(r)>>]
        /\ target' = t /\ next' = pos[t] + 1 /\ seq' = seq
    BY <1>8, <2>1, RegisterEffect
  <2>3. Len(send'[t]) = 1
    BY <1>a, <2>2
  <2>4. seq - pos[t] <= MaxReplay /\ pos[t] \in Nat
    BY <2>2 DEF IndInv, TypeOK
  <2> QED BY <1>a, <2>2, <2>3, <2>4 DEF ReplayFits
<1>9. CASE Replay
  <2> DEFINE S == {x \in Tabs : x = target /\ up[x] /\ Reaches(log[next], UserOf[x], crole[x])}
             frame == [x \in S |-> AnEvent(next, crole[x])]
  <2>1. /\ enqueue(S, frame) /\ pc = "replay" /\ pc' = pc /\ seq' = seq
        /\ target' = target /\ next' = next + 1 /\ next <= seq
    BY <1>9 DEF Replay
  <2>2. PICK t \in Tabs : t = target
    BY <1>a, <2>1
  <2>3. \A x \in S : frame[x] \in Frame
    <3>1. TypeOK /\ \A x \in Tabs : crole[x] \in Roles
      BY DEF IndInv, TypeOK
    <3> QED BY <1>a, <3>1, FrameTypes
  <2>6. S \in SUBSET Tabs
    OBVIOUS
  <2> HIDE DEF S, frame
  <2>4. \/ send'[t] = send[t] /\ up'[t] = up[t]
        \/ t \in S /\ send'[t] = Append(send[t], frame[t]) /\ up'[t] = up[t]
        \/ up'[t] = FALSE
    <3>1. TypeOK
      BY DEF IndInv
    <3>2. /\ \A x \in Tabs \ S : send'[x] = send[x] /\ up'[x] = up[x]
          /\ \A x \in S : \/ send'[x] = Append(send[x], frame[x]) /\ up'[x] = up[x]
                          \/ send'[x] = <<>> /\ up'[x] = FALSE
      BY <2>1, <2>3, <2>6, <3>1, EnqueueEffect
    <3> QED BY <3>2
  <2>5. up'[t] => up[t] /\ Len(send'[t]) <= Len(send[t]) + 1 /\ Len(send'[t]) \in Nat
    <3>1. t \in S => Len(Append(send[t], frame[t])) = Len(send[t]) + 1
      BY <1>a, <2>3
    <3>2. PICK a \in Nat : a = Len(send[t])
      BY <1>c
    <3>3. up'[t] => up[t] /\ Len(send'[t]) \in {a, a + 1}
      BY <2>4, <3>1, <3>2
    <3> QED BY <3>2, <3>3
  <2> SUFFICES ASSUME up'[t] PROVE Len(send'[t]) + (seq + 1 - (next + 1)) <= SendBuffer
    BY <2>1, <2>2 DEF ReplayFits
  <2>7. PICK a \in Nat, b \in Nat, d \in Int :
          a = Len(send'[t]) /\ b = Len(send[t]) /\ d = seq + 1 - next
    BY <1>a, <1>c, <2>5
  <2>8. a <= b + 1 /\ b + d <= SendBuffer /\ seq + 1 - (next + 1) = d - 1
    BY <1>a, <1>b, <2>1, <2>2, <2>5, <2>7
  <2>9. a + (d - 1) <= SendBuffer
    BY <1>a, <2>8
  <2> QED BY <2>7, <2>8, <2>9
<1>10. ASSUME NEW x \in Tabs, Deliver(x) PROVE ReplayFits'
  <2>1. /\ pc' = pc /\ seq' = seq /\ next' = next /\ target' = target /\ up' = up
        /\ send[x] # <<>> /\ send' = [send EXCEPT ![x] = Tail(send[x])]
    BY <1>10 DEF Deliver, hubState
  <2>2. \A t \in Tabs : Len(send'[t]) \in Nat /\ Len(send'[t]) <= Len(send[t])
    <3>1. Len(Tail(send[x])) = Len(send[x]) - 1 /\ Len(send[x]) - 1 \in Nat
      BY <1>a, <2>1
    <3> QED BY <1>a, <1>c, <2>1, <3>1
  <2> QED BY <1>2, <1>a, <2>1, <2>2
<1>11. ASSUME NEW x \in Tabs, Break(x) \/ Reload(x) PROVE ReplayFits'
  <2>1. /\ pc' = pc /\ seq' = seq /\ next' = next /\ target' = target
        /\ up' = [up EXCEPT ![x] = FALSE] /\ send' = [send EXCEPT ![x] = <<>>]
    BY <1>11 DEF Break, Reload, Cut, hubState
  <2>2. \A t \in Tabs : /\ Len(send'[t]) \in Nat
                        /\ up'[t] => up[t] /\ Len(send'[t]) <= Len(send[t])
    BY <1>a, <1>c, <2>1
  <2> QED BY <1>2, <1>a, <2>1, <2>2
<1>12. CASE UNCHANGED vars
  <2>1. pc' = pc /\ seq' = seq /\ next' = next /\ target' = target /\ up' = up /\ send' = send
    BY <1>12 DEF vars, hubState, conns
  <2> QED BY <1>2, <1>a, <1>c, <2>1
<1> QED BY <1>3, <1>4, <1>5, <1>6, <1>7, <1>8, <1>9, <1>10, <1>11, <1>12 DEF Next, HubStep

\* Catching up by replay never overflows the buffer (maxReplay, sendBuffer).
THEOREM ReplaysFit == Spec => []ReplayFits
<1>1. Init => ReplayFits
  BY DEF Init, ReplayFits
<1>2. IndInv /\ IndInv' /\ ReplayFits /\ [Next]_vars => ReplayFits'
  BY ReplayFitsStep DEF IndInv
<1> QED BY <1>1, <1>2, AlwaysSound, PTL DEF Spec

\* A board is made of exactly the events its user may see.
THEOREM BoardsAreExact == Spec => []ShownExactly
<1>1. NoGap /\ NothingExtra => ShownExactly
  BY DEF ShownExactly
<1> QED BY <1>1, NothingMissed, NothingLeaked, PTL

---------------------------------------------------------------------------
(***************************************************************************)
(* What a tab knows of its user's role.  The database's role is the last   *)
(* one the log gives the user.  What a tab will know once it has read its  *)
(* queue is the last role its frames tell it, and that is the last one     *)
(* among the events it was served; while a replay for it goes on, it may   *)
(* still be the role the hello named, which is the database's.             *)
(***************************************************************************)

\* The role the first n events leave u with is r.
Grants(u, i) == i = 0 \/ log[i].who = u
Granted(u, i) == IF i = 0 THEN InitRole[u] ELSE log[i].role
RoleIs(u, n, r) ==
  \E i \in 0 .. n : /\ Grants(u, i) /\ Granted(u, i) = r
                    /\ \A j \in i + 1 .. n : ~Grants(u, j)

\* The role tab t will know when it has read its queue is r.
Tells(t, k) == \/ k = 0 \/ send[t][k].type = "hello"
               \/ send[t][k].type = "event" /\ log[send[t][k].seq].who = UserOf[t]
Told(t, k) == IF k = 0 THEN you[t]
              ELSE IF send[t][k].type = "hello" THEN send[t][k].role
              ELSE log[send[t][k].seq].role
WillKnow(t, r) ==
  \E k \in 0 .. Len(send[t]) : /\ Tells(t, k) /\ Told(t, k) = r
                               /\ \A j \in k + 1 .. Len(send[t]) : ~Tells(t, j)

\* No queued event will be skipped as already seen.
EventsAreNews(t) ==
  \A k \in 1 .. Len(send[t]) : send[t][k].type = "event" =>
    /\ pos[t] < send[t][k].seq
    /\ \A j \in 1 .. k - 1 :
         send[t][j].type \in {"event", "snapshot"} => send[t][j].seq < send[t][k].seq

\* The events t was served leave its user with role r, or the database does
\* and the replay of older ones is not over.
RoleServed(t, r) == \/ RoleIs(UserOf[t], ServedUpTo(t), r)
                    \/ pc = "replay" /\ target = t /\ r = role[UserOf[t]]

Knows(t) == /\ EventsAreNews(t)
            /\ up[t] => \E r \in Roles : WillKnow(t, r) /\ RoleServed(t, r)

\* Role changes are events for everyone, and the log ends with the database's roles.
RolesLogged == /\ \A u \in Users : RoleIs(u, Len(log), role[u])
               /\ \A i \in 1 .. Len(log) : log[i].who # Nobody => log[i].to = "everyone"

\* Inductive together with IndInv.
RoleInv == RolesLogged /\ \A t \in Tabs : Knows(t)

\* One role at a time.
LEMMA OneRole ==
  ASSUME NEW u, NEW n \in Nat, NEW r, NEW s, RoleIs(u, n, r), RoleIs(u, n, s)
  PROVE  r = s
<1>1. PICK i \in 0 .. n : /\ Grants(u, i) /\ Granted(u, i) = r
                          /\ \A j \in i + 1 .. n : ~Grants(u, j)
  BY DEF RoleIs
<1>2. PICK k \in 0 .. n : /\ Grants(u, k) /\ Granted(u, k) = s
                          /\ \A j \in k + 1 .. n : ~Grants(u, j)
  BY DEF RoleIs
<1>3. ~(k \in i + 1 .. n) /\ ~(i \in k + 1 .. n)
  BY <1>1, <1>2
<1>4. i = k
  BY <1>3
<1> QED BY <1>1, <1>2, <1>4

\* The past does not change.
LEMMA RoleStays ==
  ASSUME TypeOK, LogGrows, NEW u, NEW n \in Nat, n <= Len(log), NEW r, RoleIs(u, n, r)
  PROVE  RoleIs(u, n, r)'
<1>1. PICK i \in 0 .. n : /\ Grants(u, i) /\ Granted(u, i) = r
                          /\ \A j \in i + 1 .. n : ~Grants(u, j)
  BY DEF RoleIs
<1>2. Len(log) \in Nat
  BY LogType
<1>3. \A j \in 1 .. n : log'[j] = log[j]
  BY <1>2 DEF LogGrows
<1>4. Grants(u, i)' /\ Granted(u, i)' = r
  BY <1>1, <1>3 DEF Grants, Granted
<1>5. ASSUME NEW j \in i + 1 .. n PROVE ~Grants(u, j)'
  <2>1. j \in 1 .. n
    OBVIOUS
  <2> QED BY <1>1, <1>3, <2>1 DEF Grants
<1> QED BY <1>4, <1>5 DEF RoleIs

\* The next event gives u a role ...
LEMMA RoleGiven ==
  ASSUME NEW u, NEW n \in Nat, NEW r, log'[n + 1].who = u, log'[n + 1].role = r
  PROVE  RoleIs(u, n + 1, r)'
<1>1. n + 1 \in 0 .. n + 1 /\ n + 1 # 0
  OBVIOUS
<1>2. Grants(u, n + 1)' /\ Granted(u, n + 1)' = r
  BY <1>1 DEF Grants, Granted
<1>3. \A j : j \notin (n + 1) + 1 .. n + 1
  OBVIOUS
<1> QED BY <1>1, <1>2, <1>3 DEF RoleIs

\* ... or the next events do not.
LEMMA RoleKept ==
  ASSUME NEW u, NEW n \in Nat, NEW m \in Nat, n <= m, NEW r, RoleIs(u, n, r)',
         \A j \in n + 1 .. m : log'[j].who # u
  PROVE  RoleIs(u, m, r)'
<1>1. PICK i \in 0 .. n : /\ Grants(u, i)' /\ Granted(u, i)' = r
                          /\ \A j \in i + 1 .. n : ~Grants(u, j)'
  BY DEF RoleIs
<1>2. i \in 0 .. m
  OBVIOUS
<1>3. ASSUME NEW j \in i + 1 .. m PROVE ~Grants(u, j)'
  <2>1. CASE j <= n
    <3>1. j \in i + 1 .. n
      BY <2>1
    <3> QED BY <1>1, <3>1
  <2>2. CASE ~(j <= n)
    <3>1. j \in n + 1 .. m /\ j # 0
      BY <2>2
    <3> QED BY <3>1 DEF Grants
  <2> QED BY <2>1, <2>2
<1> QED BY <1>1, <1>2, <1>3 DEF RoleIs

\* Every commit logs the role changes it makes.
LEMMA LoggedStep ==
  ASSUME IndInv, RolesLogged, [Next]_vars
  PROVE  RolesLogged'
<1>a. /\ TypeOK /\ log \in Seq(Event) /\ Len(log) \in Nat /\ role \in [Users -> Roles]
      /\ Nobody \notin Users /\ LogGrows
  BY HubAssumption, LogType, GrowStep DEF IndInv, TypeOK
<1>1. ASSUME UNCHANGED <<log, role>> PROVE RolesLogged'
  BY <1>1 DEF RolesLogged, RoleIs, Grants, Granted
<1>2. ASSUME NEW es \in Seq(Event), commit(es)
      PROVE  /\ log' \in Seq(Event) /\ Len(log') = Len(log) + Len(es) /\ Len(es) \in Nat
             /\ \A i \in 1 .. Len(log) : log'[i] = log[i]
             /\ \A i \in Len(log) + 1 .. Len(log') : /\ log'[i] = es[i - Len(log)]
                                                     /\ i - Len(log) \in 1 .. Len(es)
             /\ \A i \in 1 .. Len(log') : i \in 1 .. Len(log) \/ i \in Len(log) + 1 .. Len(log')
  <2>1. log' = log \o es /\ Len(es) \in Nat
    BY <1>2 DEF commit
  <2>2. log' \in Seq(Event) /\ Len(log') = Len(log) + Len(es)
    BY <1>a, <2>1
  <2>3. \A i \in 1 .. Len(log) + Len(es) :
          log'[i] = IF i <= Len(log) THEN log[i] ELSE es[i - Len(log)]
    BY <1>a, <2>1
  <2> QED BY <1>a, <2>1, <2>2, <2>3
<1>3. ASSUME NEW x \in Tabs \cup {NoTab}, NEW es \in Batches, Command(x, es) PROVE RolesLogged'
  <2>1. es \in Seq(Event) /\ commit(es) /\ UNCHANGED role
    BY <1>3, BatchType DEF Command
  <2>2. \A k \in 1 .. Len(es) : es[k].who = Nobody
    BY HubAssumption
  <2>3. \A i \in Len(log) + 1 .. Len(log') : log'[i].who = Nobody
    BY <1>2, <2>1, <2>2
  <2>4. ASSUME NEW u \in Users PROVE RoleIs(u, Len(log), role[u])'
    <3>1. RoleIs(u, Len(log), role[u])
      BY DEF RolesLogged
    <3>2. PICK n, r : n \in Nat /\ n = Len(log) /\ r = role[u]
      BY <1>a
    <3>3. RoleIs(u, n, r)'
      BY <1>a, <3>1, <3>2, RoleStays
    <3>4. PICK m \in Nat : m = Len(log') /\ n <= m
      BY <1>a, <1>2, <2>1, <3>2
    <3>5. \A j \in n + 1 .. m : log'[j].who # u
      BY <1>a, <2>3, <3>2, <3>4
    <3>6. RoleIs(u, m, r)'
      BY <3>2, <3>3, <3>4, <3>5, RoleKept
    <3> QED BY <2>1, <3>2, <3>4, <3>6
  <2>5. ASSUME NEW i \in 1 .. Len(log'), log'[i].who # Nobody PROVE log'[i].to = "everyone"
    <3>1. i \in 1 .. Len(log) /\ log'[i] = log[i]
      BY <1>2, <2>1, <2>3, <2>5
    <3> QED BY <2>5, <3>1 DEF RolesLogged
  <2> QED BY <2>4, <2>5 DEF RolesLogged
<1>4. ASSUME NEW u \in Users, NEW r \in Roles, commit(<<RoleSet(u, r)>>),
             role' = [role EXCEPT ![u] = r]
      PROVE  RolesLogged'
  <2>1. PICK e \in Event : e = RoleSet(u, r)
    BY RoleSetType
  <2>2. e.who = u /\ e.role = r /\ e.to = "everyone"
    BY <2>1 DEF RoleSet
  <2>3. <<e>> \in Seq(Event) /\ Len(<<e>>) = 1 /\ <<e>>[1] = e /\ commit(<<e>>)
    BY <1>4, <2>1
  <2>4. PICK n \in Nat : n = Len(log)
    BY <1>a
  <2>5. Len(log') = n + 1 /\ \A i \in 1 .. n : log'[i] = log[i]
    BY <1>2, <2>3, <2>4
  <2>6. log'[n + 1] = e
    <3>1. log' = Append(log, e)
      BY <1>a, <1>4, <2>1 DEF commit
    <3> QED BY <1>a, <2>4, <3>1
  <2>7. ASSUME NEW v \in Users PROVE RoleIs(v, Len(log), role[v])'
    <3>1. CASE v = u
      <4>1. role'[v] = r
        BY <1>a, <1>4, <3>1
      <4>2. RoleIs(v, n + 1, r)'
        BY <2>2, <2>6, <3>1, RoleGiven
      <4> QED BY <2>5, <4>1, <4>2
    <3>2. CASE v # u
      <4>1. PICK q : q = role[v] /\ q = role'[v]
        BY <1>a, <1>4, <3>2
      <4>2. RoleIs(v, n, q)
        BY <2>4, <4>1 DEF RolesLogged
      <4>3. RoleIs(v, n, q)'
        BY <1>a, <2>4, <4>2, RoleStays
      <4>4. \A j \in n + 1 .. n + 1 : log'[j].who # v
        BY <2>2, <2>6, <3>2
      <4>5. RoleIs(v, n + 1, q)'
        BY <4>3, <4>4, RoleKept
      <4> QED BY <2>5, <4>1, <4>5
    <3> QED BY <3>1, <3>2
  <2>8. ASSUME NEW i \in 1 .. Len(log'), log'[i].who # Nobody PROVE log'[i].to = "everyone"
    <3>1. CASE i = n + 1
      BY <2>2, <2>6, <3>1
    <3>2. CASE i # n + 1
      <4>1. i \in 1 .. n /\ log'[i] = log[i]
        BY <2>5, <3>2
      <4> QED BY <2>4, <2>8, <4>1 DEF RolesLogged
    <3> QED BY <3>1, <3>2
  <2> QED BY <2>5, <2>7, <2>8 DEF RolesLogged
<1>5. ASSUME NEW u \in Users, LoginAsOrganizer(u) PROVE RolesLogged'
  <2>1. "organizer" \in Roles
    BY DEF Roles
  <2> QED BY <1>4, <1>5, <2>1 DEF LoginAsOrganizer
<1>6. ASSUME NEW x \in Tabs, NEW u \in Users, NEW r \in Roles, SetRole(x, u, r) PROVE RolesLogged'
  BY <1>4, <1>6 DEF SetRole
<1>7. ASSUME NEW x \in Tabs,
             AnswerOnly(x) \/ Register(x) \/ Deliver(x) \/ Break(x) \/ Reload(x)
      PROVE  RolesLogged'
  BY <1>1, <1>7 DEF AnswerOnly, Register, Deliver, Break, Reload, database
<1>8. CASE HubStep \/ Restart \/ UNCHANGED vars
  BY <1>1, <1>8 DEF HubStep, Publish, FinishCommand, FinishLogin, Replay, FinishReplay, Restart,
                    vars, database
<1> QED BY <1>3, <1>5, <1>6, <1>7, <1>8 DEF Next

---------------------------------------------------------------------------
(* What the queued frames tell a tab *)

\* A frame that keeps its place, or moves, tells what it told.
LEMMA TellsTheSame ==
  ASSUME IndInv, LogGrows, NEW t \in Tabs, NEW k \in 1 .. Len(send[t]), NEW q \in Nat \ {0},
         send'[t][q] = send[t][k]
  PROVE  (Tells(t, q)' <=> Tells(t, k)) /\ (Tells(t, k) => Told(t, q)' = Told(t, k))
<1>1. /\ TypeOK /\ QueueSound(t) /\ send[t][k] \in Frame /\ seq <= Len(log)
      /\ seq \in Nat /\ Len(log) \in Nat
  BY LogType DEF IndInv, TabSound, SeqCountsEvents, TypeOK
<1>2. send[t][k].type = "event" => send[t][k].seq \in 1 .. Len(log)
  BY <1>1 DEF QueueSound, FrameSound, Frame
<1>3. send[t][k].type = "event" => log'[send[t][k].seq] = log[send[t][k].seq]
  BY <1>2 DEF LogGrows
<1>4. Tells(t, q)' <=> Tells(t, k)
  BY <1>3 DEF Tells
<1> QED BY <1>3, <1>4 DEF Tells, Told

\* A queue left alone tells the same.
LEMMA QuietTells ==
  ASSUME IndInv, LogGrows, NEW t \in Tabs, send'[t] = send[t], you'[t] = you[t],
         NEW r, WillKnow(t, r)
  PROVE  WillKnow(t, r)'
<1>1. PICK n \in Nat : n = Len(send[t])
  BY DEF IndInv, TypeOK
<1>2. PICK k \in 0 .. n : /\ Tells(t, k) /\ Told(t, k) = r
                          /\ \A j \in k + 1 .. n : ~Tells(t, j)
  BY <1>1 DEF WillKnow
<1>3. \A j \in 1 .. n : (Tells(t, j)' <=> Tells(t, j)) /\ (Tells(t, j) => Told(t, j)' = Told(t, j))
  BY <1>1, TellsTheSame
<1>4. Tells(t, 0)' /\ Told(t, 0)' = Told(t, 0)
  BY DEF Tells, Told
<1>5. Tells(t, k)' /\ Told(t, k)' = r
  BY <1>2, <1>3, <1>4
<1>6. \A j \in k + 1 .. n : ~Tells(t, j)'
  BY <1>2, <1>3
<1> QED BY <1>1, <1>5, <1>6 DEF WillKnow

\* An appended frame that tells nothing changes nothing.
LEMMA AppendedTells ==
  ASSUME IndInv, LogGrows, NEW t \in Tabs, NEW f \in Frame, send'[t] = Append(send[t], f),
         you'[t] = you[t], f.type # "hello",
         f.type = "event" => log'[f.seq].who # UserOf[t],
         NEW r, WillKnow(t, r)
  PROVE  WillKnow(t, r)'
<1>1. PICK n \in Nat : n = Len(send[t])
  BY DEF IndInv, TypeOK
<1>2. PICK k \in 0 .. n : /\ Tells(t, k) /\ Told(t, k) = r
                          /\ \A j \in k + 1 .. n : ~Tells(t, j)
  BY <1>1 DEF WillKnow
<1>3. /\ Len(send'[t]) = n + 1 /\ send'[t][n + 1] = f
      /\ \A j \in 1 .. n : send'[t][j] = send[t][j]
  BY <1>1 DEF IndInv, TypeOK
<1>4. \A j \in 1 .. n : (Tells(t, j)' <=> Tells(t, j)) /\ (Tells(t, j) => Told(t, j)' = Told(t, j))
  BY <1>1, <1>3, TellsTheSame
<1>5. Tells(t, 0)' /\ Told(t, 0)' = Told(t, 0)
  BY DEF Tells, Told
<1>6. Tells(t, k)' /\ Told(t, k)' = r
  BY <1>2, <1>4, <1>5
<1>7. ~Tells(t, n + 1)'
  BY <1>3 DEF Tells
<1>8. \A j \in k + 1 .. n + 1 : ~Tells(t, j)'
  BY <1>2, <1>4, <1>7
<1>9. k \in 0 .. n + 1
  OBVIOUS
<1> QED BY <1>3, <1>6, <1>8, <1>9 DEF WillKnow

\* An appended role_set of the tab's user is what the tab will know last.
LEMMA AppendedRole ==
  ASSUME IndInv, NEW t \in Tabs, NEW f \in Frame, send'[t] = Append(send[t], f),
         f.type = "event", log'[f.seq].who = UserOf[t], NEW r, r = log'[f.seq].role
  PROVE  WillKnow(t, r)'
<1>1. PICK n \in Nat : n = Len(send[t])
  BY DEF IndInv, TypeOK
<1>2. Len(send'[t]) = n + 1 /\ send'[t][n + 1] = f
  BY <1>1 DEF IndInv, TypeOK
<1>3. Tells(t, n + 1)' /\ Told(t, n + 1)' = r
  BY <1>2 DEF Tells, Told
<1>4. \A j : j \notin (n + 1) + 1 .. n + 1
  OBVIOUS
<1> QED BY <1>2, <1>3, <1>4 DEF WillKnow

\* The first frame is delivered: what the queue tells moves up.
LEMMA DeliveredTells ==
  ASSUME IndInv, NEW t \in Tabs, EventsAreNews(t), Deliver(t), NEW r, WillKnow(t, r)
  PROVE  WillKnow(t, r)'
<1>0. /\ send \in [Tabs -> Seq(Frame)] /\ you \in [Tabs -> Roles] /\ pos \in [Tabs -> Nat]
      /\ LogGrows /\ log' = log
  BY LogType DEF IndInv, TypeOK, Deliver, database, LogGrows
<1>1. PICK n \in Nat : n + 1 = Len(send[t])
  <2>1. send[t] \in Seq(Frame) /\ send[t] # <<>>
    BY <1>0 DEF Deliver
  <2>2. Len(send[t]) \in Nat /\ Len(send[t]) # 0
    BY <2>1
  <2>3. Len(send[t]) - 1 \in Nat /\ (Len(send[t]) - 1) + 1 = Len(send[t])
    BY <2>2
  <2> QED BY <2>3
<1>2. PICK k \in 0 .. n + 1 : /\ Tells(t, k) /\ Told(t, k) = r
                              /\ \A j \in k + 1 .. n + 1 : ~Tells(t, j)
  BY <1>1 DEF WillKnow
<1>3. send'[t] = Tail(send[t])
  BY <1>0 DEF Deliver
<1>4. PICK f \in Frame : f = Head(send[t]) /\ f = send[t][1]
  BY <1>0, <1>1
<1>5. Len(send'[t]) = n /\ \A j \in 1 .. n : send'[t][j] = send[t][j + 1]
  BY <1>0, <1>1, <1>3
<1>6. \A j \in 1 .. n : /\ Tells(t, j)' <=> Tells(t, j + 1)
                        /\ Tells(t, j + 1) => Told(t, j)' = Told(t, j + 1)
  <2> SUFFICES ASSUME NEW j \in 1 .. n
               PROVE  /\ Tells(t, j)' <=> Tells(t, j + 1)
                      /\ Tells(t, j + 1) => Told(t, j)' = Told(t, j + 1)
    OBVIOUS
  <2>1. PICK q \in 1 .. Len(send[t]) : q = j + 1
    BY <1>1
  <2>2. send'[t][j] = send[t][q] /\ j \in Nat \ {0}
    BY <1>5, <2>1
  <2>3. (Tells(t, j)' <=> Tells(t, q)) /\ (Tells(t, q) => Told(t, j)' = Told(t, q))
    BY <1>0, <2>2, TellsTheSame
  <2> QED BY <2>1, <2>3
<1>7. IF Tells(t, 1) THEN you'[t] = Told(t, 1) ELSE you'[t] = you[t]
  <2>1. f.type = "event" => f.seq > pos[t]
    <3>1. 1 \in 1 .. Len(send[t])
      BY <1>1
    <3>2. f.type = "event" => pos[t] < f.seq
      BY <1>4, <3>1 DEF EventsAreNews
    <3>3. f.seq \in Nat /\ pos[t] \in Nat
      BY <1>0 DEF Frame
    <3> QED BY <3>2, <3>3
  <2>2. CASE f.type = "hello"
    BY <1>0, <1>4, <2>2 DEF Deliver, Tells, Told
  <2>3. CASE f.type = "event"
    <3>1. you' = [you EXCEPT ![t] = IF log[f.seq].who = UserOf[t] THEN log[f.seq].role ELSE @]
      BY <1>4, <2>1, <2>3, <1>0 DEF Deliver, Frame
    <3> QED BY <1>0, <1>4, <2>3, <3>1 DEF Tells, Told
  <2>4. CASE f.type \in {"snapshot", "ack"}
    BY <1>0, <1>4, <2>4 DEF Deliver, Tells, tabs
  <2> QED BY <2>2, <2>3, <2>4 DEF Frame
<1>8. CASE k = 0
  <2>1. ~Tells(t, 1) /\ \A j \in 1 .. n : ~Tells(t, j + 1)
    BY <1>2, <1>8
  <2>2. Tells(t, 0)' /\ Told(t, 0)' = r
    BY <1>2, <1>7, <1>8, <2>1 DEF Tells, Told
  <2>3. \A j \in 0 + 1 .. n : ~Tells(t, j)'
    BY <1>6, <2>1
  <2> QED BY <1>5, <2>2, <2>3 DEF WillKnow
<1>9. CASE k # 0
  <2>1. PICK q \in 0 .. n : k = q + 1
    BY <1>9
  <2>2. Tells(t, q)' /\ Told(t, q)' = r
    <3>1. CASE q = 0
      BY <1>2, <1>7, <2>1, <3>1 DEF Tells, Told
    <3>2. CASE q # 0
      <4>1. q \in 1 .. n
        BY <3>2
      <4> QED BY <1>2, <1>6, <2>1, <4>1
    <3> QED BY <3>1, <3>2
  <2>3. \A j \in q + 1 .. n : ~Tells(t, j)'
    <3> SUFFICES ASSUME NEW j \in q + 1 .. n PROVE ~Tells(t, j)'
      OBVIOUS
    <3>1. j \in 1 .. n /\ j + 1 \in k + 1 .. n + 1
      BY <2>1
    <3> QED BY <1>2, <1>6, <3>1
  <2> QED BY <1>5, <2>2, <2>3 DEF WillKnow
<1> QED BY <1>8, <1>9

---------------------------------------------------------------------------
(* No queued event is old news *)

\* Appending keeps queued events news: the next event is newer than all.
LEMMA AppendedNews ==
  ASSUME IndInv, NEW t \in Tabs, up[t], EventsAreNews(t), NEW f \in Frame,
         send'[t] = Append(send[t], f), pos'[t] = pos[t],
         f.type = "event" => f.seq = ServedUpTo(t) + 1
  PROVE  EventsAreNews(t)'
<1>0. PICK n \in Nat : n = Len(send[t])
  BY DEF IndInv, TypeOK
<1>1. /\ send[t] \in Seq(Frame) /\ \A k \in 1 .. n : send[t][k] \in Frame
  BY <1>0 DEF IndInv, TypeOK
<1>2. /\ Len(send'[t]) = n + 1 /\ send'[t][n + 1] = f
      /\ \A k \in 1 .. n : send'[t][k] = send[t][k]
  BY <1>0, <1>1
<1>3. PICK m \in Nat : m = ServedUpTo(t)
  BY DEF ServedUpTo, ReplaySound, IndInv, TypeOK
<1>4. pos[t] \in Nat /\ f.seq \in Nat /\ \A k \in 1 .. n : send[t][k].seq \in Nat
  BY <1>1 DEF IndInv, TypeOK, Frame
<1>5. /\ pos[t] <= m
      /\ \A k \in 1 .. n : send[t][k].type \in {"event", "snapshot"} => send[t][k].seq <= m
  BY <1>0, <1>3 DEF IndInv, TabSound, TailSound
<1> SUFFICES ASSUME NEW k \in 1 .. n + 1, send'[t][k].type = "event"
             PROVE  /\ pos[t] < send'[t][k].seq
                    /\ \A j \in 1 .. k - 1 : send'[t][j].type \in {"event", "snapshot"} =>
                                               send'[t][j].seq < send'[t][k].seq
  BY <1>2 DEF EventsAreNews
<1>6. \A j \in 1 .. k - 1 : j \in 1 .. n /\ send'[t][j] = send[t][j]
  BY <1>2
<1>7. CASE k = n + 1
  <2>1. send'[t][k] = f /\ f.seq = m + 1
    BY <1>2, <1>3, <1>7
  <2>2. pos[t] < m + 1
    BY <1>3, <1>4, <1>5
  <2>3. \A j \in 1 .. n : send[t][j].type \in {"event", "snapshot"} => send[t][j].seq < m + 1
    BY <1>3, <1>4, <1>5
  <2>4. \A j \in 1 .. k - 1 :
          send'[t][j].type \in {"event", "snapshot"} => send'[t][j].seq < m + 1
    BY <1>6, <2>3
  <2> QED BY <2>1, <2>2, <2>4
<1>8. CASE k # n + 1
  BY <1>0, <1>2, <1>6, <1>8 DEF EventsAreNews
<1> QED BY <1>7, <1>8

\* Delivering the first frame, too.
LEMMA DeliveredNews ==
  ASSUME IndInv, NEW t \in Tabs, EventsAreNews(t), Deliver(t)
  PROVE  EventsAreNews(t)'
<1>0. send \in [Tabs -> Seq(Frame)] /\ pos \in [Tabs -> Nat]
  BY DEF IndInv, TypeOK
<1>1. PICK n \in Nat : n + 1 = Len(send[t])
  <2>1. send[t] \in Seq(Frame) /\ send[t] # <<>>
    BY <1>0 DEF Deliver
  <2>2. Len(send[t]) \in Nat /\ Len(send[t]) # 0
    BY <2>1
  <2>3. Len(send[t]) - 1 \in Nat /\ (Len(send[t]) - 1) + 1 = Len(send[t])
    BY <2>2
  <2> QED BY <2>3
<1>2. PICK f \in Frame : f = Head(send[t]) /\ f = send[t][1]
  BY <1>0, <1>1
<1>3. Len(send'[t]) = n /\ \A j \in 1 .. n : send'[t][j] = send[t][j + 1]
  BY <1>0, <1>1 DEF Deliver
<1>4. pos'[t] = pos[t] \/ (f.type \in {"event", "snapshot"} /\ pos'[t] = f.seq)
  BY <1>0, <1>2 DEF Deliver, tabs
<1> SUFFICES ASSUME NEW k \in 1 .. n, send'[t][k].type = "event"
             PROVE  /\ pos'[t] < send'[t][k].seq
                    /\ \A j \in 1 .. k - 1 : send'[t][j].type \in {"event", "snapshot"} =>
                                               send'[t][j].seq < send'[t][k].seq
  BY <1>3 DEF EventsAreNews
<1>5. /\ send'[t][k] = send[t][k + 1] /\ k + 1 \in 1 .. n + 1 /\ 1 \in 1 .. (k + 1) - 1
      /\ \A j \in 1 .. k - 1 : send'[t][j] = send[t][j + 1] /\ j + 1 \in 1 .. (k + 1) - 1
  BY <1>3
<1>6. /\ pos[t] < send[t][k + 1].seq
      /\ \A j \in 1 .. (k + 1) - 1 :
           send[t][j].type \in {"event", "snapshot"} => send[t][j].seq < send[t][k + 1].seq
  BY <1>1, <1>5 DEF EventsAreNews
<1> QED BY <1>2, <1>4, <1>5, <1>6

---------------------------------------------------------------------------
(* Every step keeps what every tab knows *)

\* A tab is served a prefix of the log.
LEMMA ServedType ==
  ASSUME NEW t \in Tabs
  PROVE  /\ IndInv => ServedUpTo(t) \in Nat /\ ServedUpTo(t) <= Len(log)
         /\ IndInv' => ServedUpTo(t)' \in Nat /\ ServedUpTo(t)' <= Len(log')
<1>1. ASSUME IndInv PROVE ServedUpTo(t) \in Nat /\ ServedUpTo(t) <= Len(log)
  BY <1>1, LogType DEF IndInv, ServedUpTo, ReplaySound, TypeOK, SeqCountsEvents
<1>2. ASSUME IndInv' PROVE ServedUpTo(t)' \in Nat /\ ServedUpTo(t)' <= Len(log')
  <2>1. /\ seq' \in Nat /\ Len(log') \in Nat /\ seq' <= Len(log')
        /\ pc' = "replay" => next' \in 1 .. seq' + 1
    BY <1>2, LogType DEF IndInv, ReplaySound, TypeOK, SeqCountsEvents
  <2> QED BY <2>1 DEF ServedUpTo
<1> QED BY <1>1, <1>2

\* The tab is served nothing new, or an event that gives its user no role.
LEMMA ServedKeepsRole ==
  ASSUME IndInv, LogGrows, NEW t \in Tabs, NEW r, RoleServed(t, r),
         pc # "replay" \/ UNCHANGED <<pc, target, role>>,
         \/ ServedUpTo(t)' = ServedUpTo(t)
         \/ /\ ServedUpTo(t)' = ServedUpTo(t) + 1
            /\ log'[ServedUpTo(t) + 1].who # UserOf[t]
  PROVE  RoleServed(t, r)'
<1>1. PICK n \in Nat : n = ServedUpTo(t) /\ n <= Len(log)
  BY ServedType
<1>2. CASE RoleIs(UserOf[t], n, r)
  <2>1. RoleIs(UserOf[t], n, r)'
    BY <1>1, <1>2, RoleStays DEF IndInv
  <2>2. CASE ServedUpTo(t)' = n
    BY <2>1, <2>2 DEF RoleServed
  <2>3. CASE ServedUpTo(t)' = n + 1 /\ log'[n + 1].who # UserOf[t]
    <3>1. \A j \in n + 1 .. n + 1 : log'[j].who # UserOf[t]
      BY <2>3
    <3>2. RoleIs(UserOf[t], n + 1, r)'
      BY <2>1, <3>1, RoleKept
    <3> QED BY <2>3, <3>2 DEF RoleServed
  <2> QED BY <1>1, <2>2, <2>3
<1>3. CASE pc = "replay" /\ target = t /\ r = role[UserOf[t]]
  BY <1>3 DEF RoleServed
<1> QED BY <1>1, <1>2, <1>3 DEF RoleServed

\* A lost connection owes its tab nothing.
LEMMA LostKnows ==
  ASSUME IndInv', NEW t \in Tabs, ~up'[t]
  PROVE  Knows(t)'
<1>1. send'[t] = <<>>
  BY DEF IndInv, TabSound
<1> QED BY <1>1 DEF Knows, EventsAreNews

LEMMA QuietKnows ==
  ASSUME IndInv, IndInv', LogGrows, NEW t \in Tabs, Knows(t), up'[t] => up[t],
         send'[t] = send[t], you'[t] = you[t], pos'[t] = pos[t],
         pc # "replay" \/ UNCHANGED <<pc, target, role>>,
         \/ ServedUpTo(t)' = ServedUpTo(t)
         \/ /\ ServedUpTo(t)' = ServedUpTo(t) + 1
            /\ log'[ServedUpTo(t) + 1].who # UserOf[t]
  PROVE  Knows(t)'
<1> SUFFICES ASSUME up'[t] PROVE Knows(t)'
  BY LostKnows
<1>1. PICK r \in Roles : WillKnow(t, r) /\ RoleServed(t, r)
  BY DEF Knows
<1>2. WillKnow(t, r)'
  BY <1>1, QuietTells
<1>3. RoleServed(t, r)'
  BY <1>1, ServedKeepsRole
<1>4. EventsAreNews(t)'
  BY DEF Knows, EventsAreNews
<1> QED BY <1>2, <1>3, <1>4 DEF Knows

LEMMA AppendedKnows ==
  ASSUME IndInv, IndInv', LogGrows, NEW t \in Tabs, Knows(t), up[t], NEW f \in Frame,
         send'[t] = Append(send[t], f), you'[t] = you[t], pos'[t] = pos[t],
         pc # "replay" \/ UNCHANGED <<pc, target, role>>,
         \/ f.type \in {"ack", "snapshot"} /\ ServedUpTo(t)' = ServedUpTo(t)
         \/ /\ f.type = "event" /\ f.seq = ServedUpTo(t) + 1 /\ ServedUpTo(t)' = f.seq
  PROVE  Knows(t)'
<1>1. PICK r \in Roles : WillKnow(t, r) /\ RoleServed(t, r)
  BY DEF Knows
<1>2. EventsAreNews(t)'
  BY AppendedNews DEF Knows
<1>3. CASE f.type = "event" /\ log'[f.seq].who = UserOf[t]
  <2>1. PICK n \in Nat : n = ServedUpTo(t) /\ n + 1 = f.seq
    BY <1>3, ServedType
  <2>2. PICK q : q = log'[n + 1].role
    OBVIOUS
  <2>3. WillKnow(t, q)'
    BY <1>3, <2>1, <2>2, AppendedRole
  <2>4. RoleIs(UserOf[t], n + 1, q)'
    BY <1>3, <2>1, <2>2, RoleGiven
  <2>5. q \in Roles
    <3>1. n + 1 \in Nat /\ n + 1 <= Len(log')
      BY <1>3, <2>1, ServedType
    <3>2. log' \in Seq(Event) /\ n + 1 \in 1 .. Len(log')
      BY <3>1, LogType DEF IndInv
    <3>3. log'[n + 1] \in Event
      BY <3>2
    <3> QED BY <2>2, <3>3 DEF Event
  <2>6. RoleServed(t, q)'
    BY <1>3, <2>1, <2>4 DEF RoleServed
  <2> QED BY <1>2, <2>3, <2>5, <2>6 DEF Knows
<1>4. CASE f.type = "event" => log'[f.seq].who # UserOf[t]
  <2>1. f.type # "hello"
    OBVIOUS
  <2>2. WillKnow(t, r)'
    BY <1>1, <1>4, <2>1, AppendedTells
  <2>3. RoleServed(t, r)'
    BY <1>1, <1>4, ServedKeepsRole
  <2> QED BY <1>2, <2>2, <2>3 DEF Knows
<1> QED BY <1>3, <1>4

\* A tab that registers is told the database's role, and then the missed
\* role changes, or a snapshot.
LEMMA RegisteredKnows ==
  ASSUME IndInv, IndInv', LogGrows, RolesLogged, NEW t \in Tabs, Register(t)
  PROVE  Knows(t)'
<1>1. PICK r \in Roles, n \in Nat, l \in Nat : r = role[UserOf[t]] /\ n = seq /\ l = Len(log)
  BY HubAssumption, LogType DEF IndInv, TypeOK
<1>2. pc = "idle" /\ n = l /\ UNCHANGED <<log, role, seq>>
  BY <1>1, RegisterEffect DEF IndInv, SeqCountsEvents, database
<1>3. RoleIs(UserOf[t], n, r)
  BY <1>1, <1>2, HubAssumption DEF RolesLogged
<1>4. PICK h \in Frame, s \in Frame : h = Hello(r) /\ s = Snapshot(r, l)
  BY <1>1, FrameTypes DEF IndInv
<1>5. h.type = "hello" /\ h.role = r /\ s.type = "snapshot"
  BY <1>4 DEF Hello, Snapshot
<1>6. RoleServed(t, r)'
  <2>1. RoleIs(UserOf[t], n, r)'
    BY <1>1, <1>2, <1>3, RoleStays DEF IndInv
  <2>2. CASE pc' = "replay" /\ target' = t
    BY <1>1, <1>2, <2>2 DEF RoleServed
  <2>3. CASE UNCHANGED <<pc, target, next>>
    <3>1. ServedUpTo(t)' = n
      BY <1>1, <1>2, <2>3 DEF ServedUpTo
    <3> QED BY <2>1, <3>1 DEF RoleServed
  <2> QED BY <2>2, <2>3, RegisterEffect
<1>7. CASE send' = [send EXCEPT ![t] = <<Hello(r)>>]
  <2>1. Len(send'[t]) = 1 /\ send'[t][1] = h
    BY <1>4, <1>7 DEF IndInv, TypeOK
  <2>2. Tells(t, 1)' /\ Told(t, 1)' = r
    BY <1>5, <2>1 DEF Tells, Told
  <2>3. WillKnow(t, r)'
    <3>1. 1 \in 0 .. 1 /\ \A j : j \notin 1 + 1 .. 1
      OBVIOUS
    <3> QED BY <2>1, <2>2, <3>1 DEF WillKnow
  <2>4. EventsAreNews(t)'
    BY <1>5, <2>1 DEF EventsAreNews
  <2> QED BY <1>6, <2>3, <2>4 DEF Knows
<1>8. CASE send' = [send EXCEPT ![t] = <<Hello(r), Snapshot(r, l)>>]
  <2>1. Len(send'[t]) = 2 /\ send'[t][1] = h /\ send'[t][2] = s
    BY <1>4, <1>8 DEF IndInv, TypeOK
  <2>2. Tells(t, 1)' /\ Told(t, 1)' = r /\ ~Tells(t, 2)'
    BY <1>5, <2>1 DEF Tells, Told
  <2>3. WillKnow(t, r)'
    <3>1. 1 \in 0 .. 2 /\ \A j \in 1 + 1 .. 2 : j = 2
      OBVIOUS
    <3> QED BY <2>1, <2>2, <3>1 DEF WillKnow
  <2>4. EventsAreNews(t)'
    <3>1. \A k \in 1 .. 2 : k = 1 \/ k = 2
      OBVIOUS
    <3> QED BY <1>5, <2>1, <3>1 DEF EventsAreNews
  <2> QED BY <1>6, <2>3, <2>4 DEF Knows
<1> QED BY <1>1, <1>7, <1>8, RegisterEffect

LEMMA KnowsStep ==
  ASSUME IndInv, IndInv', RoleInv, RolesLogged', [Next]_vars, NEW t \in Tabs
  PROVE  Knows(t)'
<1> SUFFICES ASSUME up'[t] PROVE Knows(t)'
  BY LostKnows
<1>a. /\ TypeOK /\ LogGrows /\ Knows(t) /\ RolesLogged /\ UserOf[t] \in Users /\ Nobody \notin Users
      /\ crole[t] \in Roles /\ seq \in Nat /\ next \in Nat /\ NoTab \notin Tabs
      /\ Len(log) \in Nat
  BY HubAssumption, GrowStep, LogType DEF IndInv, TypeOK, RoleInv
<1>b. ASSUME send'[t] = send[t], up'[t] => up[t], you' = you, pos' = pos,
             \/ seq' = seq /\ pc # "replay" /\ pc' # "replay"
             \/ UNCHANGED <<seq, pc, target, next, role>>
      PROVE  Knows(t)'
  <2>1. ServedUpTo(t)' = ServedUpTo(t)
    BY <1>b DEF ServedUpTo
  <2> QED BY <1>a, <1>b, <2>1, QuietKnows
\* What enqueue offers, when the connection survives it.
<1>c. ASSUME NEW S \in SUBSET Tabs, NEW frame, \A x \in S : frame[x] \in Frame, enqueue(S, frame)
      PROVE  /\ up[t]
             /\ t \in S => send'[t] = Append(send[t], frame[t])
             /\ t \notin S => send'[t] = send[t]
  <2>1. /\ \A x \in Tabs \ S : send'[x] = send[x] /\ up'[x] = up[x]
        /\ \A x \in S : \/ /\ Fits(x)
                           /\ send'[x] = Append(send[x], frame[x]) /\ up'[x] = up[x]
                        \/ send'[x] = <<>> /\ up'[x] = FALSE
    BY <1>a, <1>c, EnqueueEffect
  <2> QED BY <2>1
\* An ack or a snapshot, outside replays.
<1>d. ASSUME up[t], NEW f \in Frame, send'[t] = Append(send[t], f), f.type \in {"ack", "snapshot"},
             you' = you, pos' = pos, seq' = seq, pc # "replay", pc' # "replay"
      PROVE  Knows(t)'
  <2>1. ServedUpTo(t)' = ServedUpTo(t)
    BY <1>d DEF ServedUpTo
  <2> QED BY <1>a, <1>d, <2>1, AppendedKnows
\* An event the tab may or may not be offered.
<1>e. ASSUME NEW s \in Nat, s = ServedUpTo(t) + 1, ServedUpTo(t)' = s,
             log' = log, you' = you, pos' = pos, up[t], pc # "replay" \/ UNCHANGED <<pc, target, role>>,
             IF Reaches(log[s], UserOf[t], crole[t])
             THEN send'[t] = Append(send[t], AnEvent(s, crole[t]))
             ELSE send'[t] = send[t]
      PROVE  Knows(t)'
  <2>1. CASE Reaches(log[s], UserOf[t], crole[t])
    <3>1. PICK f \in Frame : f = AnEvent(s, crole[t])
      BY <1>a, <1>e, FrameTypes
    <3>2. f.type = "event" /\ f.seq = s
      BY <3>1 DEF AnEvent
    <3> QED BY <1>a, <1>e, <2>1, <3>1, <3>2, AppendedKnows
  <2>2. CASE ~Reaches(log[s], UserOf[t], crole[t])
    <3>1. s \in 1 .. Len(log)
      BY <1>e, ServedType
    <3>2. log'[s].who # UserOf[t]
      BY <1>a, <1>e, <2>2, <3>1 DEF RolesLogged, Reaches
    <3> QED BY <1>a, <1>e, <2>2, <3>2, QuietKnows
  <2> QED BY <2>1, <2>2
\* A snapshot for a changed role.
<1>f. ASSUME NEW u \in Users, NEW r \in Roles, NEW n \in Nat, refreshRole(u, r, n),
             you' = you, pos' = pos, seq' = seq, pc # "replay", pc' # "replay"
      PROVE  Knows(t)'
  <2>1. /\ up[t] /\ UserOf[t] = u =>
              \/ send'[t] = Append(send[t], Snapshot(r, n)) /\ up'[t]
              \/ send'[t] = <<>> /\ ~up'[t]
        /\ ~(up[t] /\ UserOf[t] = u) => send'[t] = send[t] /\ up'[t] = up[t]
    <3>1. /\ \A x \in Tabs : up[x] /\ UserOf[x] = u =>
               /\ crole'[x] = r
               /\ \/ send'[x] = Append(send[x], Snapshot(r, n)) /\ up'[x]
                  \/ send'[x] = <<>> /\ ~up'[x]
          /\ \A x \in Tabs : ~(up[x] /\ UserOf[x] = u) =>
               crole'[x] = crole[x] /\ send'[x] = send[x] /\ up'[x] = up[x]
      BY <1>a, <1>f, RefreshEffect
    <3> QED BY <3>1
  <2>2. CASE up[t] /\ UserOf[t] = u
    <3>1. PICK f \in Frame : f = Snapshot(r, n)
      BY <1>a, FrameTypes
    <3>2. f.type = "snapshot" /\ send'[t] = Append(send[t], f)
      BY <2>1, <2>2, <3>1 DEF Snapshot
    <3> QED BY <1>d, <1>f, <2>2, <3>2
  <2>3. CASE ~(up[t] /\ UserOf[t] = u)
    BY <1>b, <1>f, <2>1, <2>3
  <2> QED BY <2>2, <2>3
<1>1. ASSUME NEW x \in Tabs \cup {NoTab}, NEW es \in Batches, Command(x, es) PROVE Knows(t)'
  BY <1>1, <1>b DEF Command, commit, conns, tabs
<1>2. ASSUME NEW u \in Users, LoginAsOrganizer(u) PROVE Knows(t)'
  BY <1>2, <1>b DEF LoginAsOrganizer, commit, advanced, conns, tabs
<1>3. ASSUME NEW x \in Tabs, NEW u \in Users, NEW r \in Roles, SetRole(x, u, r) PROVE Knows(t)'
  <2>1. PICK n \in Nat : n = Len(log) + 1
    BY <1>a
  <2> QED BY <1>3, <1>f, <2>1 DEF SetRole, commit, advanced, tabs
<1>4. ASSUME NEW x \in Tabs, AnswerOnly(x) PROVE Knows(t)'
  <2> DEFINE frame == [y \in {x} |-> Ack(crole[x])]
  <2>1. /\ enqueue({x}, frame) /\ pc = "idle" /\ up[x]
        /\ UNCHANGED <<seq, pc, target, next, role, pos, you>>
    BY <1>4 DEF AnswerOnly, hubState, tabs, database
  <2>2. \A y \in {x} : frame[y] = Ack(crole[x]) /\ frame[y] \in Frame
    BY <1>a, FrameTypes DEF TypeOK
  <2>3. {x} \in SUBSET Tabs
    OBVIOUS
  <2> HIDE DEF frame
  <2>4. /\ up[t]
        /\ t \in {x} => send'[t] = Append(send[t], frame[t])
        /\ t \notin {x} => send'[t] = send[t]
    BY <1>c, <2>1, <2>2, <2>3
  <2>5. CASE t = x
    <3>1. PICK f \in Frame : f = frame[t] /\ f.type = "ack"
      BY <2>2, <2>5 DEF Ack
    <3> QED BY <1>d, <2>1, <2>4, <2>5, <3>1
  <2>6. CASE t # x
    BY <1>b, <2>1, <2>4, <2>6
  <2> QED BY <2>5, <2>6
<1>5. CASE Publish
  <2> DEFINE s == seq + 1
             S == {x \in Tabs : up[x] /\ Reaches(log[s], UserOf[x], crole[x])}
             frame == [x \in S |-> AnEvent(s, crole[x])]
  <2>1. /\ enqueue(S, frame) /\ pc = "publish" /\ pc' = pc /\ seq' = s /\ s \in Nat
        /\ UNCHANGED <<log, pos, you>>
    BY <1>5, <1>a DEF Publish, pushed, database, tabs
  <2>2. \A x \in S : frame[x] = AnEvent(s, crole[x]) /\ frame[x] \in Frame
    BY <1>a, <2>1, FrameTypes DEF TypeOK
  <2>3. S \in SUBSET Tabs /\ (t \in S <=> up[t] /\ Reaches(log[s], UserOf[t], crole[t]))
    OBVIOUS
  <2> HIDE DEF S, frame
  <2>4. /\ up[t]
        /\ t \in S => send'[t] = Append(send[t], frame[t])
        /\ t \notin S => send'[t] = send[t]
    BY <1>c, <2>1, <2>2, <2>3
  <2>5. ServedUpTo(t) + 1 = s /\ ServedUpTo(t)' = s
    BY <2>1 DEF ServedUpTo
  <2> HIDE DEF s
  <2>6. IF Reaches(log[s], UserOf[t], crole[t])
        THEN send'[t] = Append(send[t], AnEvent(s, crole[t]))
        ELSE send'[t] = send[t]
    BY <2>2, <2>3, <2>4
  <2> QED BY <1>e, <2>1, <2>4, <2>5, <2>6
<1>6. CASE FinishCommand
  <2> DEFINE S == {x \in Tabs : x = ackTo /\ up[x]}
             frame == [x \in S |-> Ack(crole[x])]
  <2>1. /\ enqueue(S, frame) /\ pc = "publish" /\ pc' = "idle" /\ seq' = seq
        /\ UNCHANGED <<log, role, pos, you>>
    BY <1>6 DEF FinishCommand, Idle, database, tabs
  <2>2. \A x \in S : frame[x] = Ack(crole[x]) /\ frame[x] \in Frame
    BY <1>a, FrameTypes DEF TypeOK
  <2>3. S \in SUBSET Tabs
    OBVIOUS
  <2> HIDE DEF S, frame
  <2>4. /\ up[t]
        /\ t \in S => send'[t] = Append(send[t], frame[t])
        /\ t \notin S => send'[t] = send[t]
    BY <1>c, <2>1, <2>2, <2>3
  <2>5. CASE t \in S
    <3>1. PICK f \in Frame : f = frame[t] /\ f = Ack(crole[t])
      BY <2>2, <2>5
    <3>2. f.type = "ack"
      BY <3>1 DEF Ack
    <3> QED BY <1>d, <2>1, <2>4, <2>5, <3>1, <3>2
  <2>6. CASE t \notin S
    BY <1>b, <2>1, <2>4, <2>6
  <2> QED BY <2>5, <2>6
<1>7. CASE FinishLogin
  <2>1. refresh \in Users /\ role[refresh] \in Roles
    BY <1>7, <1>a DEF FinishLogin, TypeOK
  <2> QED BY <1>7, <1>a, <1>f, <2>1 DEF FinishLogin, Idle, tabs
<1>8. ASSUME NEW x \in Tabs, Register(x) PROVE Knows(t)'
  <2>1. CASE x = t
    BY <1>8, <1>a, <2>1, RegisteredKnows
  <2>2. CASE x # t
    <3>1. /\ UNCHANGED <<seq, role, you, pos>> /\ pc = "idle" /\ up'[t] = up[t] /\ send'[t] = send[t]
          /\ \/ UNCHANGED <<pc, target, next>>
             \/ pc' = "replay" /\ target' = x
      <4>1. up \in [Tabs -> BOOLEAN] /\ send \in [Tabs -> Seq(Frame)]
        BY <1>a DEF TypeOK
      <4>2. PICK r, l : r = role[UserOf[x]] /\ l = Len(log)
        OBVIOUS
      <4>3. /\ UNCHANGED <<seq, role, you, pos>> /\ pc = "idle" /\ up' = [up EXCEPT ![x] = TRUE]
            /\ \/ /\ send' = [send EXCEPT ![x] = <<Hello(r)>>]
                  /\ pc' = "replay" /\ target' = x
               \/ /\ send' = [send EXCEPT ![x] = <<Hello(r), Snapshot(r, l)>>]
                  /\ UNCHANGED <<pc, target, next>>
        BY <1>8, <4>2, RegisterEffect DEF database, tabs
      <4> QED BY <2>2, <4>1, <4>3
    <3>2. ServedUpTo(t)' = ServedUpTo(t)
      BY <2>2, <3>1 DEF ServedUpTo
    <3> QED BY <1>a, <3>1, <3>2, QuietKnows
  <2> QED BY <2>1, <2>2
<1>9. CASE Replay
  <2> DEFINE s == next
             S == {x \in Tabs : x = target /\ up[x] /\ Reaches(log[s], UserOf[x], crole[x])}
             frame == [x \in S |-> AnEvent(s, crole[x])]
  <2>1. /\ enqueue(S, frame) /\ pc = "replay" /\ next' = s + 1 /\ s \in Nat /\ next = s
        /\ UNCHANGED <<log, pos, you, seq, role, pc, target>>
    BY <1>9, <1>a DEF Replay, database, tabs
  <2>2. \A x \in S : frame[x] = AnEvent(s, crole[x]) /\ frame[x] \in Frame
    BY <1>a, <2>1, FrameTypes DEF TypeOK
  <2>3. /\ S \in SUBSET Tabs
        /\ t \in S <=> t = target /\ up[t] /\ Reaches(log[s], UserOf[t], crole[t])
    OBVIOUS
  <2> HIDE DEF S, frame
  <2>4. /\ up[t]
        /\ t \in S => send'[t] = Append(send[t], frame[t])
        /\ t \notin S => send'[t] = send[t]
    BY <1>c, <2>1, <2>2, <2>3
  <2> HIDE DEF s
  <2>5. CASE t = target
    <3>1. ServedUpTo(t) + 1 = s /\ ServedUpTo(t)' = s
      BY <2>1, <2>5 DEF ServedUpTo
    <3>2. IF Reaches(log[s], UserOf[t], crole[t])
          THEN send'[t] = Append(send[t], AnEvent(s, crole[t]))
          ELSE send'[t] = send[t]
      BY <2>2, <2>3, <2>4, <2>5
    <3> QED BY <1>e, <2>1, <2>4, <3>1, <3>2
  <2>6. CASE t # target
    <3>1. ServedUpTo(t)' = ServedUpTo(t)
      BY <2>1, <2>6 DEF ServedUpTo
    <3>2. send'[t] = send[t]
      BY <2>3, <2>4, <2>6
    <3> QED BY <1>a, <2>1, <2>4, <3>1, <3>2, QuietKnows
  <2> QED BY <2>5, <2>6
\* The replay is over: the role the hello named is the last one of the log.
<1>10. CASE FinishReplay
  <2>1. /\ pc = "replay" /\ next > seq /\ pc' = "idle"
        /\ UNCHANGED <<log, role, seq, up, send, you, pos>>
    BY <1>10 DEF FinishReplay, Idle, database, conns, tabs
  <2>2. PICK n \in Nat : n = seq /\ n = Len(log) /\ next = n + 1
    BY <1>a, <2>1 DEF IndInv, SeqCountsEvents, ReplaySound
  <2>3. PICK r \in Roles : WillKnow(t, r) /\ RoleServed(t, r)
    BY <1>a, <2>1 DEF Knows
  <2>4. RoleIs(UserOf[t], n, r)
    <3>1. RoleIs(UserOf[t], n, role[UserOf[t]])
      BY <1>a, <2>2 DEF RolesLogged
    <3>2. ServedUpTo(t) = n
      BY <2>2 DEF ServedUpTo
    <3> QED BY <2>3, <3>1, <3>2 DEF RoleServed
  <2>5. RoleServed(t, r)'
    <3>1. RoleIs(UserOf[t], n, r)'
      BY <1>a, <2>2, <2>4, RoleStays
    <3>2. ServedUpTo(t)' = n
      BY <2>1, <2>2 DEF ServedUpTo
    <3> QED BY <3>1, <3>2 DEF RoleServed
  <2>6. WillKnow(t, r)'
    BY <1>a, <2>1, <2>3, QuietTells
  <2>7. EventsAreNews(t)'
    BY <1>a, <2>1 DEF Knows, EventsAreNews
  <2> QED BY <2>5, <2>6, <2>7 DEF Knows
<1>11. ASSUME NEW x \in Tabs, Deliver(x) PROVE Knows(t)'
  <2>1. UNCHANGED <<up, pc, target, next, seq, role, log>>
    BY <1>11 DEF Deliver, hubState, database
  <2>2. CASE x = t
    <3>1. PICK r \in Roles : WillKnow(t, r) /\ RoleServed(t, r)
      BY <1>a, <2>1 DEF Knows
    <3>2. WillKnow(t, r)'
      BY <1>11, <1>a, <2>2, <3>1, DeliveredTells DEF Knows
    <3>3. EventsAreNews(t)'
      BY <1>11, <1>a, <2>2, DeliveredNews DEF Knows
    <3>4. ServedUpTo(t)' = ServedUpTo(t)
      BY <2>1 DEF ServedUpTo
    <3>5. RoleServed(t, r)'
      BY <1>a, <2>1, <3>1, <3>4, ServedKeepsRole
    <3> QED BY <3>2, <3>3, <3>5 DEF Knows
  <2>3. CASE x # t
    <3>1. send'[t] = send[t] /\ you'[t] = you[t] /\ pos'[t] = pos[t]
      BY <1>11, <1>a, <2>3 DEF Deliver, tabs, TypeOK
    <3>2. ServedUpTo(t)' = ServedUpTo(t)
      BY <2>1 DEF ServedUpTo
    <3> QED BY <1>a, <2>1, <3>1, <3>2, QuietKnows
  <2> QED BY <2>2, <2>3
<1>12. ASSUME NEW x \in Tabs, Break(x) \/ Reload(x) PROVE Knows(t)'
  <2>1. x # t
    BY <1>12, <1>a DEF Break, Reload, Cut, TypeOK
  <2>2. /\ send'[t] = send[t] /\ up'[t] = up[t] /\ you'[t] = you[t] /\ pos'[t] = pos[t]
        /\ UNCHANGED <<seq, pc, target, next, role>>
    BY <1>12, <1>a, <2>1 DEF Break, Reload, Cut, TypeOK, hubState, tabs, database
  <2>3. ServedUpTo(t)' = ServedUpTo(t)
    BY <2>2 DEF ServedUpTo
  <2> QED BY <1>a, <2>2, <2>3, QuietKnows
<1>13. CASE Restart
  BY <1>13 DEF Restart
<1>14. CASE UNCHANGED vars
  BY <1>14, <1>b DEF vars, database, hubState, conns, tabs
<1> QED BY <1>1, <1>2, <1>3, <1>4, <1>5, <1>6, <1>7, <1>8, <1>9, <1>10, <1>11, <1>12, <1>13, <1>14
        DEF Next, HubStep

\* A tab that has read everything knows its user's role in the database, by
\* its hello and the role_set events since, whatever was replayed to it
\* (Register, setRole, applyFrame).
THEOREM KnowsItsRole == Spec => []DrainedKnowsRole
<1>1. Init => RoleInv
  <2> SUFFICES ASSUME Init PROVE RoleInv
    OBVIOUS
  <2>1. RolesLogged
    <3>1. Len(log) = 0 /\ 0 \in 0 .. 0 /\ \A j : j \notin 0 + 1 .. 0
      BY DEF Init
    <3>2. \A u \in Users : Grants(u, 0) /\ Granted(u, 0) = role[u]
      BY DEF Init, Grants, Granted
    <3> QED BY <3>1, <3>2 DEF RolesLogged, RoleIs
  <2>2. ASSUME NEW t \in Tabs PROVE Knows(t)
    BY DEF Init, Knows, EventsAreNews
  <2> QED BY <2>1, <2>2 DEF RoleInv
<1>2. IndInv /\ IndInv' /\ RoleInv /\ [Next]_vars => RoleInv'
  BY LoggedStep, KnowsStep DEF RoleInv
<1>3. IndInv /\ RoleInv => DrainedKnowsRole
  <2> SUFFICES ASSUME IndInv, RoleInv, NEW t \in Tabs, Drained(t)
               PROVE  you[t] = role[UserOf[t]]
    BY DEF DrainedKnowsRole
  <2>1. /\ pc = "idle" /\ up[t] /\ send[t] = <<>> /\ Len(send[t]) = 0 /\ UserOf[t] \in Users
    BY HubAssumption DEF Drained
  <2>2. PICK n \in Nat : n = Len(log) /\ ServedUpTo(t) = n
    BY <2>1, LogType DEF IndInv, SeqCountsEvents, ServedUpTo
  <2>3. PICK r \in Roles : WillKnow(t, r) /\ RoleServed(t, r)
    BY <2>1 DEF RoleInv, Knows
  <2>4. you[t] = r
    <3>1. \A k \in 0 .. 0 : k = 0
      OBVIOUS
    <3> QED BY <2>1, <2>3, <3>1 DEF WillKnow, Told
  <2>5. RoleIs(UserOf[t], n, r) /\ RoleIs(UserOf[t], n, role[UserOf[t]])
    BY <2>1, <2>2, <2>3 DEF RoleServed, RoleInv, RolesLogged
  <2>6. r = role[UserOf[t]]
    BY <2>5, OneRole
  <2> QED BY <2>4, <2>6
<1> QED BY <1>1, <1>2, <1>3, AlwaysSound, PTL DEF Spec

---------------------------------------------------------------------------
(* The hub's use of the ring *)

\* No commit goes past the bound on the log.
Bounded == Len(log) <= MaxSeq

LEMMA BoundedStep ==
  ASSUME IndInv, Bounded, [Next]_vars
  PROVE  Bounded'
<1>a. TypeOK
  BY DEF IndInv
<1>1. ASSUME NEW es \in Seq(Event), commit(es) PROVE Bounded'
  <2>1. Len(log') = Len(log) + Len(es)
    BY <1>1, <1>a, CommitGrows DEF commit
  <2> QED BY <1>1, <2>1 DEF commit, Bounded
<1>2. ASSUME UNCHANGED log PROVE Bounded'
  BY <1>2 DEF Bounded
<1>3. ASSUME NEW x \in Tabs \cup {NoTab}, NEW es \in Batches, Command(x, es) PROVE Bounded'
  BY <1>1, <1>3, BatchType DEF Command
<1>4. ASSUME NEW u \in Users, LoginAsOrganizer(u) PROVE Bounded'
  <2>1. <<RoleSet(u, "organizer")>> \in Seq(Event)
    BY RoleSetType DEF Roles
  <2> QED BY <1>1, <1>4, <2>1 DEF LoginAsOrganizer
<1>5. ASSUME NEW x \in Tabs, NEW u \in Users, NEW r \in Roles, SetRole(x, u, r) PROVE Bounded'
  BY <1>1, <1>5, RoleSetType DEF SetRole
<1>6. ASSUME NEW x \in Tabs,
             AnswerOnly(x) \/ Register(x) \/ Deliver(x) \/ Break(x) \/ Reload(x)
      PROVE  Bounded'
  BY <1>2, <1>6 DEF AnswerOnly, Register, Deliver, Break, Reload, database
<1>7. CASE HubStep \/ Restart \/ UNCHANGED vars
  BY <1>2, <1>7 DEF HubStep, Publish, FinishCommand, FinishLogin, Replay, FinishReplay, Restart,
                    vars, database
<1> QED BY <1>3, <1>4, <1>5, <1>6, <1>7 DEF Next

\* What was published before is published still.
LEMMA PublishedStays ==
  ASSUME TypeOK, TypeOK', SeqCountsEvents, LogGrows, seq' = seq
  PROVE  SubSeq(log', 1, seq') = SubSeq(log, 1, seq)
<1>1. /\ log \in Seq(Event) /\ log' \in Seq(Event) /\ Len(log) \in Nat /\ Len(log') \in Nat
      /\ seq \in Nat /\ seq <= Len(log) /\ seq <= Len(log')
  BY LogType DEF SeqCountsEvents, LogGrows
<1>2. \A i \in 1 .. seq : log'[i] = log[i]
  BY <1>1 DEF LogGrows
<1>3. /\ Len(SubSeq(log, 1, seq)) = seq /\ Len(SubSeq(log', 1, seq)) = seq
      /\ SubSeq(log, 1, seq) \in Seq(Event) /\ SubSeq(log', 1, seq) \in Seq(Event)
      /\ \A i \in 1 .. seq : SubSeq(log', 1, seq)[i] = SubSeq(log, 1, seq)[i]
  BY <1>1, <1>2
<1>4. SubSeq(log', 1, seq) = SubSeq(log, 1, seq)
  BY <1>3, SeqEqual
<1> QED BY <1>4

\* Each step of the hub is one of the window, or changes nothing in it.
LEMMA WindowStep ==
  ASSUME IndInv, IndInv', Bounded, Bounded', [Next]_vars
  PROVE  [Window!Next]_(Window!windowVars)
<1>a. /\ TypeOK /\ TypeOK' /\ LogGrows /\ SeqCountsEvents /\ log \in Seq(Event) /\ seq \in Nat
      /\ Len(log) \in Nat /\ seq <= Len(log) /\ MaxSeq \in Nat /\ kept \in Nat
  BY HubAssumption, LogType, GrowStep DEF IndInv, TypeOK, SeqCountsEvents
<1>1. ASSUME UNCHANGED <<seq, kept>> PROVE UNCHANGED Window!windowVars
  <2>1. SubSeq(log', 1, seq') = SubSeq(log, 1, seq)
    BY <1>a, <1>1, PublishedStays
  <2> QED BY <1>1, <2>1 DEF Window!windowVars
<1>2. CASE Publish
  <2>1. PICK e \in Event, n \in Nat : e = log[seq + 1] /\ n = seq /\ n + 1 <= Len(log)
    BY <1>2, <1>a DEF Publish
  <2>2. log' = log /\ seq' = n + 1 /\ kept' = pushed
    BY <1>2, <2>1 DEF Publish, database
  <2>3. Len(SubSeq(log, 1, n)) = n /\ SubSeq(log, 1, n) \in Seq(Event)
    BY <1>a, <2>1
  <2>4. SubSeq(log, 1, n + 1) = Append(SubSeq(log, 1, n), e)
    BY <1>a, <2>1
  <2>5. n < MaxSeq
    BY <1>a, <2>1 DEF Bounded
  <2>6. Window!Publish(e)
    BY <2>1, <2>2, <2>3, <2>4, <2>5 DEF Window!Publish, pushed
  <2> QED BY <2>6 DEF Window!Next
<1>3. CASE Restart
  <2>1. log' = log /\ seq' = Len(log) /\ kept' = 0
    BY <1>3, <1>a DEF Restart, database, SeqCountsEvents
  <2>2. SubSeq(log, 1, Len(log)) = log
    BY <1>a
  <2>3. /\ SubSeq(log, 1, seq) \in Seq(Event) /\ Len(SubSeq(log, 1, seq)) = seq
        /\ \A i \in 1 .. seq : SubSeq(log, 1, seq)[i] = log[i]
    BY <1>a
  <2>4. SubSeq(log', 1, seq') = log
    BY <2>1, <2>2
  <2>5. Window!Restart
    BY <1>a, <2>1, <2>3, <2>4 DEF Window!Restart, Bounded
  <2> QED BY <2>5 DEF Window!Next
<1>4. ASSUME NEW x \in Tabs \cup {NoTab}, NEW es \in Batches, Command(x, es)
      PROVE  UNCHANGED <<seq, kept>>
  BY <1>4 DEF Command, commit
<1>5. ASSUME NEW u \in Users, LoginAsOrganizer(u) PROVE UNCHANGED <<seq, kept>>
  BY <1>5 DEF LoginAsOrganizer, commit, advanced
<1>6. ASSUME NEW x \in Tabs, NEW u \in Users, NEW r \in Roles, SetRole(x, u, r)
      PROVE  UNCHANGED <<seq, kept>>
  BY <1>6 DEF SetRole, commit, advanced
<1>7. ASSUME NEW x \in Tabs,
             AnswerOnly(x) \/ Register(x) \/ Deliver(x) \/ Break(x) \/ Reload(x)
      PROVE  UNCHANGED <<seq, kept>>
  BY <1>7 DEF AnswerOnly, Register, Deliver, Break, Reload, hubState
<1>8. CASE FinishCommand \/ FinishLogin \/ Replay \/ FinishReplay \/ UNCHANGED vars
  <2>1. UNCHANGED <<seq, kept>>
    BY <1>8 DEF FinishCommand, FinishLogin, Replay, FinishReplay, vars, hubState
  <2> QED BY <1>1, <2>1
<1> QED BY <1>1, <1>2, <1>3, <1>4, <1>5, <1>6, <1>7, <1>8 DEF Next, HubStep

\* The hub's ring is the window of the most recent events that EventWindow
\* describes: publish slides it, a restart empties it, even one between a
\* commit and its publishing (hub.go: publish, newHub; ring.push).
THEOREM HubImplementsWindow == Spec => ImplementsWindow
<1>1. Init => Window!Init /\ Bounded
  <2> SUFFICES ASSUME Init PROVE Window!Init /\ Bounded
    OBVIOUS
  <2>1. SubSeq(log, 1, seq) = <<>> /\ Len(log) = 0
    BY DEF Init
  <2> QED BY <2>1, HubAssumption DEF Init, Window!Init, Bounded
<1>2. IndInv /\ Bounded /\ [Next]_vars => Bounded'
  BY BoundedStep
<1>3. IndInv /\ IndInv' /\ Bounded /\ Bounded' /\ [Next]_vars => [Window!Next]_(Window!windowVars)
  BY WindowStep
<1> QED BY <1>1, <1>2, <1>3, AlwaysSound, PTL DEF Spec, ImplementsWindow, Window!Spec
=============================================================================

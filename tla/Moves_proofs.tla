----------------------------- MODULE Moves_proofs -----------------------------
(***************************************************************************)
(* For any users, connections, notes and interval: every move is answered  *)
(* once, by the move that was applied for it, moves of a note keep their   *)
(* order and their distance, and nobody moves a note who may not, except   *)
(* as module Moves says.                                                   *)
(***************************************************************************)
EXTENDS Moves, TLAPS

\* A step that concerns no move: connections, roles, the lifecycle.
Elsewhere == UNCHANGED <<place, timing, history>>

\* The commands of a move that has been decided are answered.
Decides(n, pm, answers) ==
  \/ \E s \in Nat :
       /\ Exists(n) /\ pm.to # OutOfRange /\ seq' = s
       /\ replies' = answered(answers, pm.cmds, [type |-> "ack", seq |-> s])
       /\ moves' = Append(moves, [note |-> n, conn |-> pm.conn, cmd |-> pm.last,
                                  to |-> pm.to, seq |-> s])
       /\ place' = [place EXCEPT ![n] = pm.to]
       /\ quiet' = [quiet EXCEPT ![n] = 0]
  \/ /\ replies' = answered(answers, pm.cmds, [type |-> "error"])
     /\ UNCHANGED <<place, seq, moves, quiet>>

\* applyMove sets lastMove and decides.
LEMMA ApplyDecides ==
  ASSUME NEW r, NEW n, NEW pm, NEW answers, seq \in Nat, applyMove(r, n, pm, answers)
  PROVE  since' = [since EXCEPT ![n] = 0] /\ Decides(n, pm, answers)
<1>1. since' = [since EXCEPT ![n] = 0]
  BY DEF applyMove, lastMoveNow, restart
<1>2. CASE /\ replies' = answered(answers, pm.cmds, [type |-> "error"])
           /\ UNCHANGED <<place, seq, moves, quiet>>
  BY <1>1, <1>2 DEF Decides
<1>3. CASE ~ (/\ replies' = answered(answers, pm.cmds, [type |-> "error"])
              /\ UNCHANGED <<place, seq, moves, quiet>>)
  <2>1. PICK events \in {1, 2} :
          /\ seq' = seq + events
          /\ replies' = answered(answers, pm.cmds, [type |-> "ack", seq |-> seq + events])
          /\ moves' = Append(moves, [note |-> n, conn |-> pm.conn, cmd |-> pm.last,
                                     to |-> pm.to, seq |-> seq + events])
    BY <1>3 DEF applyMove
  <2>2. Accepts(r, n, pm.to) /\ place' = [place EXCEPT ![n] = pm.to]
        /\ quiet' = [quiet EXCEPT ![n] = 0]
    BY <1>3 DEF applyMove, restart
  <2>3. seq + events \in Nat
    OBVIOUS
  <2> QED BY <1>1, <2>1, <2>2, <2>3 DEF Decides, Accepts
<1> QED BY <1>2, <1>3

\* Every step is one of these.
LEMMA StepKinds ==
  ASSUME [Next]_vars
  PROVE  \/ \E c \in Conns, n \in Notes, to \in Places \cup {OutOfRange} :
              Coalesce(c, n, to) \/ Hold(c, n, to) \/ MoveNow(c, n, to)
         \/ \E n \in Notes : TimerMove(n)
         \/ Tick
         \/ \E c \in Conns, n \in Notes : DeleteNote(c, n)
         \/ Elsewhere
<1>1. CASE UNCHANGED vars
  BY <1>1 DEF vars, tables, Elsewhere
<1>2. CASE \E c \in Conns : Register(c) \/ Unregister(c)
  BY <1>2 DEF Register, Unregister, tables, Elsewhere
<1>3. CASE \E c \in Conns, u \in Users, r \in Roles : SetRole(c, u, r)
  BY <1>3 DEF SetRole, RoleBecomes, Elsewhere
<1>4. CASE \E u \in Users : LoginAsOrganizer(u)
  BY <1>4 DEF LoginAsOrganizer, RoleBecomes, Elsewhere
<1>5. CASE \E c \in Conns, to \in {"active", "done"} : SetLifecycle(c, to)
  BY <1>5 DEF SetLifecycle, Elsewhere
<1> QED BY <1>1, <1>2, <1>3, <1>4, <1>5 DEF Next
---------------------------------------------------------------------------
(* Types *)

LEMMA CoalescedType ==
  ASSUME NEW pm \in PendingMove, NEW c \in Conns, NEW k \in 1 .. MaxCmds,
         NEW to \in Places \cup {OutOfRange}
  PROVE  coalesce(pm, c, k, to) \in PendingMove
BY DEF PendingMove, coalesce

LEMMA AnsweredType ==
  ASSUME NEW answers \in Seq(Seq(Reply)), NEW cmds, NEW reply \in Reply
  PROVE  /\ answered(answers, cmds, reply) \in Seq(Seq(Reply))
         /\ Len(answered(answers, cmds, reply)) = Len(answers)
         /\ DOMAIN answered(answers, cmds, reply) = DOMAIN answers
<1>1. ASSUME NEW k \in 1 .. Len(answers)
      PROVE  (IF k \in cmds THEN Append(answers[k], reply) ELSE answers[k]) \in Seq(Reply)
  OBVIOUS
<1> DEFINE g == [k \in 1 .. Len(answers) |->
                   IF k \in cmds THEN Append(answers[k], reply) ELSE answers[k]]
<1>2. answered(answers, cmds, reply) = g
  BY DEF answered
<1>3. Len(answers) \in Nat /\ g \in [1 .. Len(answers) -> Seq(Reply)]
  BY <1>1
<1> HIDE DEF g
<1>4. g \in Seq(Seq(Reply)) /\ Len(g) = Len(answers) /\ DOMAIN g = 1 .. Len(answers)
  BY <1>3
<1> QED BY <1>2, <1>4

Received == [conn : Conns, note : Notes, to : Places \cup {OutOfRange}]
Moved    == [note : Notes, conn : Conns, cmd : 1 .. MaxCmds, to : Places, seq : Nat]

\* What the history variables are, as far as moves change them.
HistoryType ==
  /\ received \in Seq(Received) /\ Len(received) <= MaxCmds
  /\ replies \in Seq(Seq(Reply)) /\ Len(replies) = Len(received)
  /\ moves \in Seq(Moved) /\ seq \in Nat
  /\ place \in [Notes -> Places \cup {OutOfRange}] /\ quiet \in [Notes -> 0 .. Interval]

LEMMA DecidesType ==
  ASSUME MovesAssumption, HistoryType, NEW n \in Notes, NEW pm \in PendingMove,
         NEW answers \in Seq(Seq(Reply)), Decides(n, pm, answers)
  PROVE  /\ replies' \in Seq(Seq(Reply)) /\ Len(replies') = Len(answers)
         /\ moves' \in Seq(Moved) /\ seq' \in Nat
         /\ place' \in [Notes -> Places \cup {OutOfRange}]
         /\ quiet' \in [Notes -> 0 .. Interval]
<1>1. CASE /\ replies' = answered(answers, pm.cmds, [type |-> "error"])
           /\ UNCHANGED <<place, seq, moves, quiet>>
  <2>1. [type |-> "error"] \in Reply
    BY DEF Reply
  <2> QED BY <1>1, <2>1, AnsweredType DEF HistoryType
<1>2. CASE \E s \in Nat :
       /\ Exists(n) /\ pm.to # OutOfRange /\ seq' = s
       /\ replies' = answered(answers, pm.cmds, [type |-> "ack", seq |-> s])
       /\ moves' = Append(moves, [note |-> n, conn |-> pm.conn, cmd |-> pm.last,
                                  to |-> pm.to, seq |-> s])
       /\ place' = [place EXCEPT ![n] = pm.to]
       /\ quiet' = [quiet EXCEPT ![n] = 0]
  <2>1. PICK s \in Nat :
       /\ pm.to # OutOfRange /\ seq' = s
       /\ replies' = answered(answers, pm.cmds, [type |-> "ack", seq |-> s])
       /\ moves' = Append(moves, [note |-> n, conn |-> pm.conn, cmd |-> pm.last,
                                  to |-> pm.to, seq |-> s])
       /\ place' = [place EXCEPT ![n] = pm.to]
       /\ quiet' = [quiet EXCEPT ![n] = 0]
    BY <1>2
  <2>2. [type |-> "ack", seq |-> s] \in Reply
    BY DEF Reply
  <2>3. replies' \in Seq(Seq(Reply)) /\ Len(replies') = Len(answers)
    BY <2>1, <2>2, AnsweredType
  <2>4. [note |-> n, conn |-> pm.conn, cmd |-> pm.last, to |-> pm.to, seq |-> s] \in Moved
    BY <2>1 DEF PendingMove, Moved
  <2>5. moves' \in Seq(Moved)
    BY <2>1, <2>4 DEF HistoryType
  <2>6. quiet' \in [Notes -> 0 .. Interval] /\ place' \in [Notes -> Places \cup {OutOfRange}]
    BY <2>1 DEF HistoryType, PendingMove, MovesAssumption
  <2> QED BY <2>1, <2>3, <2>5, <2>6
<1> QED BY <1>1, <1>2 DEF Decides

\* Types hold initially and are kept by every step.
THEOREM TypeCorrect == Spec => []TypeOK
<1> USE MovesAssumption
<1>1. Init => TypeOK
  BY DEF Init, TypeOK, Roles, Lifecycles, MovesAssumption
<1>2. TypeOK /\ [Next]_vars => TypeOK'
  <2> SUFFICES ASSUME TypeOK, [Next]_vars PROVE TypeOK'
    OBVIOUS
  <2>0. HistoryType
    BY DEF TypeOK, HistoryType, Received, Moved
  <2>a. ASSUME NEW c \in Conns, NEW n \in Notes, NEW to \in Places \cup {OutOfRange},
               Receive(c, n, to)
        PROVE  /\ received' \in Seq(Received) /\ Len(received') = Len(received) + 1
               /\ Len(received') <= MaxCmds /\ Len(received) + 1 \in 1 .. MaxCmds
               /\ newMove(c, Len(received) + 1, to) \in PendingMove
    <3>1. [conn |-> c, note |-> n, to |-> to] \in Received
      BY DEF Received
    <3>2. Len(received) + 1 \in 1 .. MaxCmds
      BY <2>a DEF Receive, TypeOK, MovesAssumption
    <3>3. newMove(c, Len(received) + 1, to) \in PendingMove
      BY <3>2 DEF newMove, PendingMove, MovesAssumption
    <3> QED BY <2>0, <2>a, <3>1, <3>2, <3>3 DEF Receive, HistoryType
  <2>b. Append(replies, <<>>) \in Seq(Seq(Reply)) /\ Len(Append(replies, <<>>)) = Len(received) + 1
    BY <2>0 DEF HistoryType
  <2>1. ASSUME NEW c \in Conns, NEW n \in Notes, NEW to \in Places \cup {OutOfRange},
               Coalesce(c, n, to)
        PROVE  TypeOK'
    <3>1. pending[n] \in PendingMove
      BY <2>1 DEF Coalesce, Replaces, TypeOK
    <3>2. coalesce(pending[n], c, Len(received) + 1, to) \in PendingMove
      BY <2>1, <2>a, <3>1, CoalescedType DEF Coalesce
    <3>3. pending' \in [Notes -> PendingMove \cup {NoMove}]
      BY <2>1, <3>2 DEF Coalesce, TypeOK
    <3> QED BY <2>1, <2>a, <2>b, <3>3 DEF Coalesce, TypeOK, tables, conns, Received
  <2>2. ASSUME NEW c \in Conns, NEW n \in Notes, NEW to \in Places \cup {OutOfRange},
               Hold(c, n, to)
        PROVE  TypeOK'
    <3>1. Interval - since[n] \in 0 .. Interval
      BY DEF TypeOK, MovesAssumption
    <3>2. [newMove(c, Len(received) + 1, to) EXCEPT !.due = Interval - since[n]] \in PendingMove
      BY <2>2, <2>a, <3>1 DEF Hold, PendingMove
    <3>3. pending' \in [Notes -> PendingMove \cup {NoMove}]
      BY <2>2, <3>2 DEF Hold, TypeOK
    <3> QED BY <2>2, <2>a, <2>b, <3>3 DEF Hold, TypeOK, tables, conns, Received
  <2>3. ASSUME NEW c \in Conns, NEW n \in Notes, NEW to \in Places \cup {OutOfRange},
               MoveNow(c, n, to)
        PROVE  TypeOK'
    <3> DEFINE pm == newMove(c, Len(received) + 1, to)
    <3>1. pm \in PendingMove
      BY <2>3, <2>a DEF MoveNow
    <3>2. since' = [since EXCEPT ![n] = 0] /\ Decides(n, pm, Append(replies, <<>>))
      BY <2>0, <2>3, ApplyDecides DEF MoveNow, HistoryType
    <3>3. since' \in [Notes -> 0 .. Interval]
      BY <3>2 DEF TypeOK, MovesAssumption
    <3> HIDE DEF pm
    <3>4. /\ replies' \in Seq(Seq(Reply)) /\ Len(replies') = Len(received) + 1
          /\ moves' \in Seq(Moved) /\ seq' \in Nat
          /\ place' \in [Notes -> Places \cup {OutOfRange}]
          /\ quiet' \in [Notes -> 0 .. Interval]
      BY <2>0, <2>b, <3>1, <3>2, DecidesType
    <3> QED BY <2>3, <2>a, <3>3, <3>4 DEF MoveNow, TypeOK, conns, Received, Moved
  <2>4. ASSUME NEW n \in Notes, TimerMove(n)
        PROVE  TypeOK'
    <3>1. pending[n] \in PendingMove
      BY <2>4 DEF TimerMove, Due, TypeOK
    <3>2. since' = [since EXCEPT ![n] = 0] /\ Decides(n, pending[n], replies)
      BY <2>0, <2>4, ApplyDecides DEF TimerMove, HistoryType
    <3>3. since' \in [Notes -> 0 .. Interval] /\ pending' \in [Notes -> PendingMove \cup {NoMove}]
      BY <2>4, <3>2 DEF TypeOK, TimerMove, MovesAssumption
    <3>4. /\ replies' \in Seq(Seq(Reply)) /\ Len(replies') = Len(received)
          /\ moves' \in Seq(Moved) /\ seq' \in Nat
          /\ place' \in [Notes -> Places \cup {OutOfRange}]
          /\ quiet' \in [Notes -> 0 .. Interval]
      BY <2>0, <3>1, <3>2, DecidesType DEF HistoryType
    <3> QED BY <2>4, <3>3, <3>4 DEF TimerMove, TypeOK, conns, Moved
  <2>5. ASSUME Tick PROVE TypeOK'
    <3>1. ASSUME NEW t \in 0 .. Interval
          PROVE  (IF t < Interval THEN t + 1 ELSE t) \in 0 .. Interval
      BY DEF MovesAssumption
    <3>2. since' \in [Notes -> 0 .. Interval] /\ quiet' \in [Notes -> 0 .. Interval]
      BY <2>5, <3>1 DEF Tick, TypeOK
    <3>3. ASSUME NEW n \in Notes
          PROVE  (IF pending[n] = NoMove \/ pending[n].due = 0 THEN pending[n]
                  ELSE [pending[n] EXCEPT !.due = @ - 1]) \in PendingMove \cup {NoMove}
      <4>1. pending[n] \in PendingMove \cup {NoMove}
        BY DEF TypeOK
      <4>2. ASSUME NEW p \in PendingMove, p.due # 0
            PROVE  [p EXCEPT !.due = @ - 1] \in PendingMove
        BY <4>2 DEF PendingMove, MovesAssumption
      <4> QED BY <4>1, <4>2
    <3>4. pending' \in [Notes -> PendingMove \cup {NoMove}]
      BY <2>5, <3>3 DEF Tick
    <3> QED BY <2>5, <3>2, <3>4 DEF Tick, TypeOK, tables, conns
  <2>6. ASSUME NEW c \in Conns, Register(c) \/ Unregister(c) PROVE TypeOK'
    BY <2>6 DEF Register, Unregister, TypeOK, tables, timing, history, MovesAssumption
  <2>7. ASSUME NEW u \in Users, NEW r \in Roles, RoleBecomes(u, r) PROVE TypeOK'
    BY <2>7 DEF RoleBecomes, commit, refreshRole, TypeOK, timing, history
  <2>8. ASSUME NEW c \in Conns, NEW to \in {"active", "done"}, SetLifecycle(c, to) PROVE TypeOK'
    BY <2>8 DEF SetLifecycle, commit, TypeOK, conns, timing, history
  <2>9. ASSUME NEW c \in Conns, NEW n \in Notes, DeleteNote(c, n) PROVE TypeOK'
    BY <2>9 DEF DeleteNote, commit, TypeOK, conns, history, MovesAssumption
  <2>10. CASE UNCHANGED vars
    BY <2>10 DEF vars, tables, conns, timing, history, TypeOK
  <2>11. "organizer" \in Roles
    BY DEF Roles, Staff
  <2> QED
    BY <2>1, <2>2, <2>3, <2>4, <2>5, <2>6, <2>7, <2>8, <2>9, <2>10, <2>11
    DEF Next, SetRole, LoginAsOrganizer
<1> QED BY <1>1, <1>2, PTL DEF Spec
---------------------------------------------------------------------------
(* Answers, order and distance *)

\* What a decision does to the moves applied so far and to the answers.
LEMMA DecidesEffect ==
  ASSUME TypeOK, NEW n \in Notes, NEW pm \in PendingMove,
         NEW answers \in Seq(Seq(Reply)), Decides(n, pm, answers)
  PROVE  /\ \A j \in DOMAIN moves : j \in DOMAIN moves' /\ moves'[j] = moves[j]
         /\ \A j \in DOMAIN moves' : j \in DOMAIN moves
              \/ /\ j = Len(moves) + 1 /\ moves'[j].note = n /\ moves'[j].cmd = pm.last
                 /\ moves'[j].to = pm.to /\ moves'[j].conn = pm.conn
                 /\ moves'[j] = [note |-> n, conn |-> pm.conn, cmd |-> pm.last,
                                 to |-> pm.to, seq |-> moves'[j].seq]
         /\ DOMAIN replies' = DOMAIN answers
         /\ \A k \in DOMAIN answers : k \notin pm.cmds => replies'[k] = answers[k]
         /\ \A k \in DOMAIN answers : k \in pm.cmds /\ Len(answers[k]) = 0 =>
              /\ Len(replies'[k]) = 1
              /\ replies'[k][1].type = "ack" =>
                   \E j \in DOMAIN moves' :
                     /\ moves'[j].note = n /\ moves'[j].seq = replies'[k][1].seq
                     /\ moves'[j].cmd = pm.last /\ moves'[j].to = pm.to
                     /\ moves'[j].conn = pm.conn
<1>0. moves \in Seq(Moved)
  BY DEF TypeOK, Moved
<1>1. CASE /\ replies' = answered(answers, pm.cmds, [type |-> "error"])
           /\ UNCHANGED <<place, seq, moves, quiet>>
  <2>1. DOMAIN replies' = DOMAIN answers
    BY <1>1 DEF answered
  <2>2. \A k \in DOMAIN answers : k \notin pm.cmds => replies'[k] = answers[k]
    BY <1>1 DEF answered
  <2>3. ASSUME NEW k \in DOMAIN answers, k \in pm.cmds, Len(answers[k]) = 0
        PROVE  Len(replies'[k]) = 1 /\ replies'[k][1].type = "error"
    <3>1. replies'[k] = Append(answers[k], [type |-> "error"])
      BY <1>1, <2>3 DEF answered
    <3>2. answers[k] \in Seq(Reply)
      OBVIOUS
    <3> QED BY <2>3, <3>1, <3>2
  <2> QED BY <1>1, <2>1, <2>2, <2>3
<1>2. CASE \E s \in Nat :
       /\ Exists(n) /\ pm.to # OutOfRange /\ seq' = s
       /\ replies' = answered(answers, pm.cmds, [type |-> "ack", seq |-> s])
       /\ moves' = Append(moves, [note |-> n, conn |-> pm.conn, cmd |-> pm.last,
                                  to |-> pm.to, seq |-> s])
       /\ place' = [place EXCEPT ![n] = pm.to]
       /\ quiet' = [quiet EXCEPT ![n] = 0]
  <2>1. PICK s \in Nat :
       /\ replies' = answered(answers, pm.cmds, [type |-> "ack", seq |-> s])
       /\ moves' = Append(moves, [note |-> n, conn |-> pm.conn, cmd |-> pm.last,
                                  to |-> pm.to, seq |-> s])
    BY <1>2
  <2> DEFINE last == [note |-> n, conn |-> pm.conn, cmd |-> pm.last, to |-> pm.to, seq |-> s]
  <2>2. /\ DOMAIN moves' = 1 .. Len(moves) + 1 /\ Len(moves) \in Nat
        /\ \A j \in 1 .. Len(moves) : moves'[j] = moves[j]
        /\ moves'[Len(moves) + 1] = last
    BY <1>0, <2>1
  <2>3. DOMAIN moves = 1 .. Len(moves)
    BY <1>0
  <2>4. DOMAIN replies' = DOMAIN answers
    BY <2>1 DEF answered
  <2>5. \A k \in DOMAIN answers : k \notin pm.cmds => replies'[k] = answers[k]
    BY <2>1 DEF answered
  <2>6. ASSUME NEW k \in DOMAIN answers, k \in pm.cmds, Len(answers[k]) = 0
        PROVE  Len(replies'[k]) = 1 /\ replies'[k][1].seq = s
    <3>1. replies'[k] = Append(answers[k], [type |-> "ack", seq |-> s])
      BY <2>1, <2>6 DEF answered
    <3>2. answers[k] \in Seq(Reply)
      OBVIOUS
    <3> QED BY <2>6, <3>1, <3>2
  <2>7. Len(moves) + 1 \in DOMAIN moves' /\ moves'[Len(moves) + 1].seq = s
    BY <2>2
  <2>8. \A j \in DOMAIN moves : j \in DOMAIN moves' /\ moves'[j] = moves[j]
    BY <2>2, <2>3
  <2>9. \A j \in DOMAIN moves' : j \in DOMAIN moves \/ j = Len(moves) + 1
    BY <2>2, <2>3
  <2>10. /\ last.note = n /\ last.cmd = pm.last /\ last.to = pm.to /\ last.conn = pm.conn
         /\ last = [note |-> n, conn |-> pm.conn, cmd |-> pm.last, to |-> pm.to, seq |-> last.seq]
    OBVIOUS
  <2> HIDE DEF last
  <2>11. \A k \in DOMAIN answers : k \in pm.cmds /\ Len(answers[k]) = 0 =>
           /\ Len(replies'[k]) = 1
           /\ \E j \in DOMAIN moves' :
                /\ moves'[j].note = n /\ moves'[j].seq = replies'[k][1].seq
                /\ moves'[j].cmd = pm.last /\ moves'[j].to = pm.to
                /\ moves'[j].conn = pm.conn
    BY <2>2, <2>6, <2>7, <2>10
  <2> QED BY <2>2, <2>4, <2>5, <2>8, <2>9, <2>10, <2>11
<1> QED BY <1>1, <1>2 DEF Decides

\* A command that comes in is the last of those received.
LEMMA ReceivedGrows ==
  ASSUME TypeOK, NEW c \in Conns, NEW n \in Notes, NEW to \in Places \cup {OutOfRange},
         Receive(c, n, to)
  PROVE  /\ Len(received) \in Nat /\ DOMAIN received = 1 .. Len(received)
         /\ DOMAIN received' = 1 .. Len(received) + 1
         /\ \A k \in DOMAIN received : k \in DOMAIN received' /\ received'[k] = received[k]
         /\ received'[Len(received) + 1] = [conn |-> c, note |-> n, to |-> to]
BY DEF Receive, TypeOK

LEMMA RepliesGrow ==
  ASSUME TypeOK
  PROVE  /\ DOMAIN replies = DOMAIN received
         /\ DOMAIN Append(replies, <<>>) = 1 .. Len(received) + 1
         /\ Append(replies, <<>>) \in Seq(Seq(Reply))
         /\ \A k \in DOMAIN replies : Append(replies, <<>>)[k] = replies[k]
         /\ Append(replies, <<>>)[Len(received) + 1] = <<>>
<1>1. ASSUME NEW S, NEW q \in Seq(S), NEW e \in S
      PROVE  /\ DOMAIN q = 1 .. Len(q) /\ DOMAIN Append(q, e) = 1 .. Len(q) + 1
             /\ Append(q, e) \in Seq(S)
             /\ \A k \in 1 .. Len(q) : Append(q, e)[k] = q[k]
             /\ Append(q, e)[Len(q) + 1] = e
  OBVIOUS
<1>2. <<>> \in Seq(Reply)
  OBVIOUS
<1>3. replies \in Seq(Seq(Reply)) /\ Len(replies) = Len(received)
  BY DEF TypeOK
<1>4. DOMAIN received = 1 .. Len(received)
  BY DEF TypeOK
<1> QED BY <1>1, <1>2, <1>3, <1>4

\* A move that is not applied at once joins what waits for its note.
LEMMA Queued ==
  ASSUME TypeOK, NEW c \in Conns, NEW n \in Notes, NEW to \in Places \cup {OutOfRange},
         Coalesce(c, n, to) \/ Hold(c, n, to)
  PROVE  LET k == Len(received) + 1 IN
         /\ moves' = moves /\ replies' = Append(replies, <<>>)
         /\ \A m \in Notes \ {n} : pending'[m] = pending[m]
         /\ pending'[n] \in PendingMove
         /\ pending'[n].last = k /\ pending'[n].to = to /\ pending'[n].conn = c
         /\ \/ pending[n] = NoMove /\ pending'[n].cmds = {k}
            \/ pending[n] # NoMove /\ pending'[n].cmds = pending[n].cmds \cup {k}
<1> DEFINE k == Len(received) + 1
<1>0. k \in 1 .. MaxCmds
  BY MovesAssumption DEF Coalesce, Hold, Receive, TypeOK, MovesAssumption
<1>1. CASE Coalesce(c, n, to)
  <2>1. pending[n] # NoMove /\ pending[n] \in PendingMove
    BY <1>1 DEF Coalesce, Replaces, TypeOK
  <2>2. pending'[n] = coalesce(pending[n], c, k, to)
    BY <1>1 DEF Coalesce, TypeOK
  <2>3. pending'[n] \in PendingMove
    BY <1>0, <2>1, <2>2, CoalescedType
  <2>4. \A m \in Notes \ {n} : pending'[m] = pending[m]
    BY <1>1 DEF Coalesce, TypeOK
  <2>5. moves' = moves /\ replies' = Append(replies, <<>>)
    BY <1>1 DEF Coalesce
  <2> QED BY <2>1, <2>2, <2>3, <2>4, <2>5 DEF coalesce, PendingMove
<1>2. CASE Hold(c, n, to)
  <2>1. pending[n] = NoMove /\ Interval - since[n] \in 0 .. Interval
    BY <1>2, MovesAssumption DEF Hold, Replaces, TypeOK, MovesAssumption
  <2>2. pending'[n] = [newMove(c, k, to) EXCEPT !.due = Interval - since[n]]
    BY <1>2 DEF Hold, TypeOK
  <2>3. pending'[n] \in PendingMove
    BY <1>0, <2>1, <2>2, MovesAssumption DEF newMove, PendingMove, MovesAssumption
  <2>4. \A m \in Notes \ {n} : pending'[m] = pending[m]
    BY <1>2 DEF Hold, TypeOK
  <2>5. moves' = moves /\ replies' = Append(replies, <<>>)
    BY <1>2 DEF Hold
  <2> QED BY <2>1, <2>2, <2>3, <2>4, <2>5 DEF newMove
<1> QED BY <1>1, <1>2

\* What waits is sound, and moves are what their commands asked for, in order.
Sound == TypeOK /\ PendingSound /\ MovesSound /\ MovesInOrder

\* A decision about a move that came after every move of its note.
LEMMA DecidesSound ==
  ASSUME Sound, NEW n \in Notes, NEW pm \in PendingMove,
         NEW answers \in Seq(Seq(Reply)), Decides(n, pm, answers),
         \A k \in DOMAIN received : k \in DOMAIN received' /\ received'[k] = received[k],
         pm.last \in DOMAIN received',
         received'[pm.last] = [conn |-> pm.conn, note |-> n, to |-> pm.to],
         \A j \in DOMAIN moves : moves[j].note = n => moves[j].cmd < pm.last
  PROVE  /\ MovesSound' /\ MovesInOrder'
         /\ \A j \in DOMAIN moves' : moves'[j].note # n => j \in DOMAIN moves /\ moves'[j] = moves[j]
<1>1. TypeOK /\ MovesSound /\ MovesInOrder /\ moves \in Seq(Moved)
  BY DEF Sound, TypeOK, Moved
<1>2. /\ \A j \in DOMAIN moves : j \in DOMAIN moves' /\ moves'[j] = moves[j]
      /\ \A j \in DOMAIN moves' : j \in DOMAIN moves
           \/ /\ j = Len(moves) + 1 /\ moves'[j].note = n /\ moves'[j].cmd = pm.last
              /\ moves'[j].to = pm.to /\ moves'[j].conn = pm.conn
  BY <1>1, DecidesEffect
<1>3. MovesSound'
  BY <1>1, <1>2 DEF MovesSound
<1>4. ASSUME NEW i \in DOMAIN moves', NEW j \in DOMAIN moves', i < j,
             moves'[i].note = moves'[j].note
      PROVE  moves'[i].cmd < moves'[j].cmd
  <2>1. DOMAIN moves = 1 .. Len(moves) /\ Len(moves) \in Nat
    BY <1>1
  <2>2. i \in DOMAIN moves
    BY <1>2, <1>4, <2>1
  <2>3. CASE j \in DOMAIN moves
    BY <1>1, <1>2, <1>4, <2>2, <2>3 DEF MovesInOrder
  <2>4. CASE j \notin DOMAIN moves
    BY <1>2, <1>4, <2>2, <2>4
  <2> QED BY <2>3, <2>4
<1>5. MovesInOrder'
  BY <1>4 DEF MovesInOrder
<1> QED BY <1>2, <1>3, <1>5

\* What waits, and what was moved, is what the commands asked for.
LEMMA SoundStep ==
  ASSUME Sound, TypeOK', [Next]_vars
  PROVE  Sound'
<1> USE MovesAssumption
<1>0. TypeOK /\ PendingSound /\ MovesSound /\ MovesInOrder
  BY DEF Sound
<1>1. ASSUME NEW c \in Conns, NEW n \in Notes, NEW to \in Places \cup {OutOfRange},
             Coalesce(c, n, to) \/ Hold(c, n, to)
      PROVE  Sound'
  <2> DEFINE k == Len(received) + 1
  <2>1. /\ Len(received) \in Nat /\ DOMAIN received = 1 .. Len(received)
        /\ DOMAIN received' = 1 .. k
        /\ \A i \in DOMAIN received : i \in DOMAIN received' /\ received'[i] = received[i]
        /\ received'[k] = [conn |-> c, note |-> n, to |-> to]
    BY <1>0, <1>1, ReceivedGrows DEF Coalesce, Hold
  <2>2. moves' = moves
    BY <1>0, <1>1, Queued
  <2>3. MovesSound' /\ MovesInOrder'
    BY <1>0, <2>1, <2>2 DEF MovesSound, MovesInOrder
  <2>4. \A j \in DOMAIN moves : moves[j].cmd < k
    <3>1. \A j \in DOMAIN moves : moves[j].cmd \in 1 .. Len(received)
      BY <1>0, <2>1 DEF MovesSound
    <3>2. \A i \in 1 .. Len(received) : i < k
      BY <2>1
    <3> QED BY <3>1, <3>2
  <2>5. \A m \in Notes \ {n} : pending'[m] = pending[m]
    BY <1>0, <1>1, Queued
  <2>6. /\ pending'[n].last = k /\ pending'[n].to = to /\ pending'[n].conn = c
        /\ pending'[n].cmds = {k} \/ (pending[n] # NoMove /\ pending'[n].cmds = pending[n].cmds \cup {k})
    BY <1>0, <1>1, Queued
  <2> HIDE DEF k
  <2>7. ASSUME NEW m \in Notes, pending'[m] # NoMove
        PROVE  /\ pending'[m].last \in pending'[m].cmds /\ pending'[m].last \in DOMAIN received'
               /\ \A i \in pending'[m].cmds :
                    i \in DOMAIN received' /\ i <= pending'[m].last /\ received'[i].note = m
               /\ received'[pending'[m].last].to = pending'[m].to
               /\ received'[pending'[m].last].conn = pending'[m].conn
               /\ \A j \in DOMAIN moves' : moves'[j].note = m => moves'[j].cmd < pending'[m].last
    <3>1. CASE m # n
      BY <1>0, <2>1, <2>2, <2>5, <2>7, <3>1 DEF PendingSound
    <3>2. CASE m = n
      <4>1. k \in DOMAIN received' /\ k <= k
        BY <2>1 DEF k
      <4>2. ASSUME NEW i \in pending'[n].cmds
            PROVE  i \in DOMAIN received' /\ i <= k /\ received'[i].note = n
        <5>1. CASE i = k
          BY <2>1, <4>1, <5>1
        <5>2. CASE i # k
          <6>1. pending[n] # NoMove /\ i \in pending[n].cmds
            BY <2>6, <4>2, <5>2
          <6>2. i \in DOMAIN received /\ received[i].note = n
            BY <1>0, <6>1 DEF PendingSound
          <6> QED BY <2>1, <6>2 DEF k
        <5> QED BY <5>1, <5>2
      <4> QED BY <2>1, <2>2, <2>4, <2>6, <3>2, <4>1, <4>2
    <3> QED BY <3>1, <3>2
  <2>8. PendingSound'
    BY <2>7 DEF PendingSound
  <2> QED BY <2>3, <2>8 DEF Sound
<1>2. ASSUME NEW c \in Conns, NEW n \in Notes, NEW to \in Places \cup {OutOfRange},
             MoveNow(c, n, to)
      PROVE  Sound'
  <2> DEFINE k == Len(received) + 1
             pm == newMove(c, k, to)
  <2>1. /\ Len(received) \in Nat /\ DOMAIN received = 1 .. Len(received)
        /\ DOMAIN received' = 1 .. k
        /\ \A i \in DOMAIN received : i \in DOMAIN received' /\ received'[i] = received[i]
        /\ received'[k] = [conn |-> c, note |-> n, to |-> to]
    BY <1>0, <1>2, ReceivedGrows DEF MoveNow
  <2>2. \A j \in DOMAIN moves : moves[j].cmd < k
    <3>1. \A j \in DOMAIN moves : moves[j].cmd \in 1 .. Len(received)
      BY <1>0, <2>1 DEF MovesSound
    <3>2. \A i \in 1 .. Len(received) : i < k
      BY <2>1
    <3> QED BY <3>1, <3>2
  <2>3. pm \in PendingMove /\ pm.last = k /\ pm.conn = c /\ pm.to = to
    BY <1>2 DEF newMove, PendingMove, MoveNow, Receive, TypeOK, Sound
  <2>4. Decides(n, pm, Append(replies, <<>>))
    BY <1>0, <1>2, ApplyDecides DEF MoveNow, TypeOK
  <2>5. Append(replies, <<>>) \in Seq(Seq(Reply))
    BY <1>0, RepliesGrow
  <2>6. pending' = pending /\ pending[n] = NoMove
    BY <1>2 DEF MoveNow, Replaces
  <2>7. k \in 1 .. k
    BY <2>1
  <2> HIDE DEF pm, k
  <2>8. /\ MovesSound' /\ MovesInOrder'
        /\ \A j \in DOMAIN moves' : moves'[j].note # n => j \in DOMAIN moves /\ moves'[j] = moves[j]
    BY <2>1, <2>2, <2>3, <2>4, <2>5, <2>7, DecidesSound
  <2>9. PendingSound'
    BY <1>0, <2>1, <2>6, <2>8 DEF PendingSound
  <2> QED BY <2>8, <2>9 DEF Sound
<1>3. ASSUME NEW n \in Notes, TimerMove(n)
      PROVE  Sound'
  <2>1. pending[n] \in PendingMove /\ pending[n] # NoMove
    BY <1>0, <1>3 DEF TimerMove, Due, TypeOK
  <2>2. received' = received /\ replies \in Seq(Seq(Reply))
    BY <1>0, <1>3 DEF TimerMove, TypeOK
  <2>3. Decides(n, pending[n], replies)
    BY <1>0, <1>3, ApplyDecides DEF TimerMove, TypeOK
  <2>4. /\ pending[n].last \in DOMAIN received
        /\ received[pending[n].last].note = n
        /\ received[pending[n].last].to = pending[n].to
        /\ received[pending[n].last].conn = pending[n].conn
        /\ \A j \in DOMAIN moves : moves[j].note = n => moves[j].cmd < pending[n].last
    BY <1>0, <2>1 DEF PendingSound
  <2>5. received[pending[n].last] = [conn |-> pending[n].conn, note |-> n, to |-> pending[n].to]
    <3>1. received \in Seq(Received)
      BY <1>0 DEF TypeOK, Received
    <3>2. received[pending[n].last] \in Received
      BY <2>4, <3>1
    <3>3. ASSUME NEW r \in Received
          PROVE  r = [conn |-> r.conn, note |-> r.note, to |-> r.to]
      BY DEF Received
    <3> QED BY <2>4, <3>2, <3>3
  <2>6. /\ MovesSound' /\ MovesInOrder'
        /\ \A j \in DOMAIN moves' : moves'[j].note # n => j \in DOMAIN moves /\ moves'[j] = moves[j]
    BY <2>1, <2>2, <2>3, <2>4, <2>5, DecidesSound
  <2>7. pending' = [pending EXCEPT ![n] = NoMove]
    BY <1>3 DEF TimerMove
  <2>8. \A m \in Notes : pending'[m] # NoMove => m # n /\ pending'[m] = pending[m]
    BY <1>0, <2>7 DEF TypeOK
  <2>9. PendingSound'
    BY <1>0, <2>2, <2>6, <2>8 DEF PendingSound
  <2> QED BY <2>6, <2>9 DEF Sound
<1>4. CASE Tick
  <2>1. received' = received /\ moves' = moves
    BY <1>4 DEF Tick
  <2>2. ASSUME NEW n \in Notes
        PROVE  \/ pending'[n] = pending[n]
               \/ /\ pending[n] # NoMove
                  /\ pending'[n].last = pending[n].last /\ pending'[n].cmds = pending[n].cmds
                  /\ pending'[n].to = pending[n].to /\ pending'[n].conn = pending[n].conn
    <3>1. pending[n] \in PendingMove \cup {NoMove}
      BY <1>0 DEF TypeOK
    <3>2. ASSUME NEW p \in PendingMove
          PROVE  LET q == [p EXCEPT !.due = @ - 1]
                 IN q.last = p.last /\ q.cmds = p.cmds /\ q.to = p.to /\ q.conn = p.conn
      BY DEF PendingMove
    <3>3. pending'[n] = IF pending[n] = NoMove \/ pending[n].due = 0 THEN pending[n]
                        ELSE [pending[n] EXCEPT !.due = @ - 1]
      BY <1>4 DEF Tick
    <3> QED BY <3>1, <3>2, <3>3
  <2>3. PendingSound'
    BY <1>0, <2>1, <2>2 DEF PendingSound
  <2> QED BY <1>0, <2>1, <2>3 DEF Sound, MovesSound, MovesInOrder
<1>5. CASE \E c \in Conns, n \in Notes : DeleteNote(c, n)
  <2>1. pending' = pending /\ received' = received /\ moves' = moves
    BY <1>5 DEF DeleteNote, history
  <2> QED BY <1>0, <2>1 DEF Sound, PendingSound, MovesSound, MovesInOrder
<1>6. CASE Elsewhere
  <2>1. pending' = pending /\ received' = received /\ moves' = moves
    BY <1>6 DEF Elsewhere, timing, history
  <2> QED BY <1>0, <2>1 DEF Sound, PendingSound, MovesSound, MovesInOrder
<1> QED BY <1>1, <1>2, <1>3, <1>4, <1>5, <1>6, StepKinds

THEOREM AlwaysSound == Spec => []Sound
<1>1. Init => PendingSound /\ MovesSound /\ MovesInOrder
  BY DEF Init, PendingSound, MovesSound, MovesInOrder
<1>2. Sound /\ TypeOK' /\ [Next]_vars => Sound'
  BY SoundStep
<1>3. TypeOK /\ PendingSound /\ MovesSound /\ MovesInOrder => Sound
  BY DEF Sound
<1> QED BY <1>1, <1>2, <1>3, TypeCorrect, PTL DEF Spec

\* Moves of a note are applied in the order in which they came.
THEOREM MovesKeepOrder == Spec => []MovesInOrder
<1>1. Sound => MovesInOrder
  BY DEF Sound
<1> QED BY <1>1, AlwaysSound, PTL
---------------------------------------------------------------------------
(* Answers *)

Answers == AnsweredOnce /\ AcksNameTheMove

\* The answer to one command, in the terms of both properties.
WellAnswered(k) ==
  /\ Len(replies[k]) = IF Waiting(k) THEN 0 ELSE 1
  /\ \A n \in Notes : pending[n] # NoMove /\ k \in pending[n].cmds => received[k].note = n
  /\ \A i \in DOMAIN replies[k] : replies[k][i].type = "ack" =>
       \E j \in DOMAIN moves :
         /\ moves[j].note = received[k].note /\ moves[j].seq = replies[k][i].seq
         /\ moves[j].cmd >= k /\ moves[j].to = received[moves[j].cmd].to
         /\ moves[j].conn = received[moves[j].cmd].conn

LEMMA AnswersMeans == Answers <=> \A k \in DOMAIN received : WellAnswered(k)
BY DEF Answers, AnsweredOnce, AcksNameTheMove, WellAnswered

\* Nothing that concerns command k changes, apart from other moves.
LEMMA KeepsAnswer ==
  ASSUME Sound, NEW k \in DOMAIN received, WellAnswered(k),
         \A i \in DOMAIN received : i \in DOMAIN received' /\ received'[i] = received[i],
         replies'[k] = replies[k],
         Waiting(k)' <=> Waiting(k),
         \A n \in Notes : pending'[n] # NoMove /\ k \in pending'[n].cmds => received[k].note = n,
         \A j \in DOMAIN moves : j \in DOMAIN moves' /\ moves'[j] = moves[j]
  PROVE  WellAnswered(k)'
<1>1. \A j \in DOMAIN moves : moves[j].cmd \in DOMAIN received
  BY DEF Sound, MovesSound
<1>2. ASSUME NEW i \in DOMAIN replies'[k], replies'[k][i].type = "ack"
      PROVE  \E j \in DOMAIN moves' :
         /\ moves'[j].note = received'[k].note /\ moves'[j].seq = replies'[k][i].seq
         /\ moves'[j].cmd >= k /\ moves'[j].to = received'[moves'[j].cmd].to
         /\ moves'[j].conn = received'[moves'[j].cmd].conn
  <2>1. PICK j \in DOMAIN moves :
         /\ moves[j].note = received[k].note /\ moves[j].seq = replies[k][i].seq
         /\ moves[j].cmd >= k /\ moves[j].to = received[moves[j].cmd].to
         /\ moves[j].conn = received[moves[j].cmd].conn
    BY <1>2 DEF WellAnswered
  <2> QED BY <1>1, <2>1
<1> QED BY <1>2 DEF WellAnswered

\* A command that waited, or just came, and is answered with move pm.
LEMMA GetsAnswer ==
  ASSUME Sound, NEW n \in Notes, NEW pm \in PendingMove, NEW answers \in Seq(Seq(Reply)),
         Decides(n, pm, answers), NEW k \in pm.cmds, k \in DOMAIN answers, Len(answers[k]) = 0,
         k <= pm.last, k \in DOMAIN received', received'[k].note = n,
         pm.last \in DOMAIN received', received'[pm.last].to = pm.to,
         received'[pm.last].conn = pm.conn,
         \A m \in Notes : pending'[m] # NoMove => k \notin pending'[m].cmds
  PROVE  WellAnswered(k)'
<1>1. /\ Len(replies'[k]) = 1 /\ DOMAIN replies' = DOMAIN answers
      /\ replies'[k][1].type = "ack" =>
           \E j \in DOMAIN moves' :
             /\ moves'[j].note = n /\ moves'[j].seq = replies'[k][1].seq
             /\ moves'[j].cmd = pm.last /\ moves'[j].to = pm.to
             /\ moves'[j].conn = pm.conn
  BY DecidesEffect DEF Sound
<1>2. ~Waiting(k)'
  BY DEF Waiting
<1>3. replies' \in Seq(Seq(Reply))
  <2>1. HistoryType
    BY DEF Sound, TypeOK, HistoryType, Received, Moved
  <2> QED BY <2>1, DecidesType, MovesAssumption
<1>4. DOMAIN replies'[k] = {1}
  <2>1. replies'[k] \in Seq(Reply)
    BY <1>1, <1>3
  <2> QED BY <1>1, <2>1
<1>5. pm.last \in Int /\ pm.last >= k
  BY DEF PendingMove
<1> QED BY <1>1, <1>2, <1>4, <1>5 DEF WellAnswered

LEMMA AnswersStep ==
  ASSUME Sound, Sound', Answers, [Next]_vars
  PROVE  Answers'
<1> USE MovesAssumption
<1>0. TypeOK /\ PendingSound /\ \A k \in DOMAIN received : WellAnswered(k)
  BY AnswersMeans DEF Sound
<1>a. SUFFICES \A k \in DOMAIN received' : WellAnswered(k)'
  BY DEF Answers, AnsweredOnce, AcksNameTheMove, WellAnswered
<1>1. ASSUME NEW c \in Conns, NEW n \in Notes, NEW to \in Places \cup {OutOfRange},
             Coalesce(c, n, to) \/ Hold(c, n, to), NEW k \in DOMAIN received'
      PROVE  WellAnswered(k)'
  <2> DEFINE new == Len(received) + 1
  <2>1. /\ Len(received) \in Nat /\ DOMAIN received = 1 .. Len(received)
        /\ DOMAIN received' = 1 .. new
        /\ \A i \in DOMAIN received : i \in DOMAIN received' /\ received'[i] = received[i]
        /\ received'[new] = [conn |-> c, note |-> n, to |-> to]
    BY <1>0, <1>1, ReceivedGrows DEF Coalesce, Hold
  <2>2. /\ moves' = moves /\ replies' = Append(replies, <<>>)
        /\ \A m \in Notes \ {n} : pending'[m] = pending[m]
        /\ pending'[n] \in PendingMove
        /\ \/ pending[n] = NoMove /\ pending'[n].cmds = {new}
           \/ pending[n] # NoMove /\ pending'[n].cmds = pending[n].cmds \cup {new}
    BY <1>0, <1>1, Queued
  <2>3. pending'[n] # NoMove
    BY <2>2 DEF MovesAssumption
  <2>4. /\ DOMAIN replies = DOMAIN received
        /\ \A i \in DOMAIN replies : Append(replies, <<>>)[i] = replies[i]
        /\ Append(replies, <<>>)[new] = <<>>
    BY <1>0, RepliesGrow
  <2> HIDE DEF new
  <2>5. CASE k = new
    <3>1. Waiting(k)'
      BY <2>2, <2>3, <2>5 DEF Waiting
    <3>2. replies'[k] = <<>>
      BY <2>2, <2>4, <2>5
    <3>3. ASSUME NEW m \in Notes, pending'[m] # NoMove, k \in pending'[m].cmds
          PROVE  m = n
      <4>1. SUFFICES ASSUME m # n PROVE FALSE
        OBVIOUS
      <4>2. k \in DOMAIN received
        BY <1>0, <2>2, <3>3, <4>1 DEF PendingSound
      <4> QED BY <2>1, <2>5, <4>2 DEF new
    <3> QED BY <2>1, <2>5, <3>1, <3>2, <3>3 DEF WellAnswered
  <2>6. CASE k # new
    <3>1. k \in DOMAIN received
      BY <2>1, <2>6 DEF new
    <3>2. \A m \in Notes : (pending'[m] # NoMove /\ k \in pending'[m].cmds)
                             <=> (pending[m] # NoMove /\ k \in pending[m].cmds)
      BY <2>2, <2>3, <2>6
    <3>3. Waiting(k)' <=> Waiting(k)
      BY <3>2 DEF Waiting
    <3>4. WellAnswered(k)
      BY <1>0, <3>1
    <3>5. replies'[k] = replies[k]
      BY <2>2, <2>4, <3>1
    <3>6. \A m \in Notes : pending'[m] # NoMove /\ k \in pending'[m].cmds => received[k].note = m
      BY <3>2, <3>4 DEF WellAnswered
    <3> QED BY <2>1, <2>2, <3>1, <3>3, <3>4, <3>5, <3>6, KeepsAnswer
  <2> QED BY <2>5, <2>6
<1>2. ASSUME NEW c \in Conns, NEW n \in Notes, NEW to \in Places \cup {OutOfRange},
             MoveNow(c, n, to), NEW k \in DOMAIN received'
      PROVE  WellAnswered(k)'
  <2>a. PICK new, pm, answers :
          /\ new = Len(received) + 1 /\ pm = newMove(c, new, to)
          /\ answers = Append(replies, <<>>)
    OBVIOUS
  <2>1. /\ Len(received) \in Nat /\ DOMAIN received = 1 .. Len(received)
        /\ DOMAIN received' = 1 .. new
        /\ \A i \in DOMAIN received : i \in DOMAIN received' /\ received'[i] = received[i]
        /\ received'[new] = [conn |-> c, note |-> n, to |-> to]
    BY <1>0, <1>2, <2>a, ReceivedGrows DEF MoveNow
  <2>2. /\ DOMAIN replies = DOMAIN received /\ DOMAIN answers = 1 .. new
        /\ answers \in Seq(Seq(Reply))
        /\ \A i \in DOMAIN replies : answers[i] = replies[i]
        /\ answers[new] = <<>>
    BY <1>0, <2>a, RepliesGrow
  <2>3. /\ pm \in PendingMove /\ pm.cmds = {new} /\ pm.last = new /\ pm.conn = c /\ pm.to = to
    BY <1>2, <2>a DEF newMove, PendingMove, MoveNow, Receive, TypeOK, Sound
  <2>4. Decides(n, pm, answers)
    BY <1>0, <1>2, <2>a, ApplyDecides DEF MoveNow, TypeOK
  <2>5. pending' = pending
    BY <1>2 DEF MoveNow
  <2>6. new \in 1 .. new /\ new <= new /\ Len(<<>>) = 0
    BY <2>1, <2>a
  <2>7. /\ \A j \in DOMAIN moves : j \in DOMAIN moves' /\ moves'[j] = moves[j]
        /\ \A i \in DOMAIN answers : i \notin pm.cmds => replies'[i] = answers[i]
    <3>1. TypeOK /\ pm \in PendingMove /\ answers \in Seq(Seq(Reply))
      BY <1>0, <2>2, <2>3
    <3> QED BY <2>4, <3>1, DecidesEffect
  <2>8. CASE k = new
    <3>1. \A m \in Notes : pending'[m] # NoMove => new \notin pending'[m].cmds
      <4>1. new \notin DOMAIN received
        BY <2>1, <2>a
      <4> QED BY <1>0, <2>5, <4>1 DEF PendingSound
    <3>2. /\ new \in pm.cmds /\ new \in DOMAIN answers /\ Len(answers[new]) = 0 /\ new <= pm.last
          /\ new \in DOMAIN received' /\ received'[new].note = n
          /\ pm.last \in DOMAIN received' /\ received'[pm.last].to = pm.to
          /\ received'[pm.last].conn = pm.conn
      BY <2>1, <2>2, <2>3, <2>6
    <3>3. WellAnswered(new)'
      BY <2>2, <2>3, <2>4, <3>1, <3>2, GetsAnswer
    <3> QED BY <2>8, <3>3
  <2>9. CASE k # new
    <3>1. k \in DOMAIN received
      BY <2>1, <2>9, <2>a
    <3>2. WellAnswered(k) /\ (Waiting(k)' <=> Waiting(k))
      BY <1>0, <2>5, <3>1 DEF Waiting
    <3>3. replies'[k] = replies[k]
      BY <2>1, <2>2, <2>3, <2>7, <2>9, <3>1
    <3>4. \A m \in Notes : pending'[m] # NoMove /\ k \in pending'[m].cmds => received[k].note = m
      BY <2>5, <3>2 DEF WellAnswered
    <3> QED BY <2>1, <2>7, <3>1, <3>2, <3>3, <3>4, KeepsAnswer
  <2> QED BY <2>8, <2>9
<1>3. ASSUME NEW n \in Notes, TimerMove(n), NEW k \in DOMAIN received'
      PROVE  WellAnswered(k)'
  <2>1. pending[n] \in PendingMove /\ pending[n] # NoMove
    BY <1>0, <1>3 DEF TimerMove, Due, TypeOK
  <2>2. received' = received /\ replies \in Seq(Seq(Reply)) /\ DOMAIN replies = DOMAIN received
    BY <1>0, <1>3 DEF TimerMove, TypeOK
  <2>3. Decides(n, pending[n], replies)
    BY <1>0, <1>3, ApplyDecides DEF TimerMove, TypeOK
  <2>4. pending' = [pending EXCEPT ![n] = NoMove]
    BY <1>3 DEF TimerMove
  <2>5. \A m \in Notes : IF m = n THEN pending'[m] = NoMove ELSE pending'[m] = pending[m]
    BY <1>0, <2>4 DEF TypeOK
  <2>6. /\ \A j \in DOMAIN moves : j \in DOMAIN moves' /\ moves'[j] = moves[j]
        /\ \A i \in DOMAIN replies : i \notin pending[n].cmds => replies'[i] = replies[i]
    BY <1>0, <2>1, <2>2, <2>3, DecidesEffect
  <2>7. WellAnswered(k)
    BY <1>0, <2>2
  <2>8. CASE k \in pending[n].cmds
    <3>1. Waiting(k)
      BY <2>1, <2>8 DEF Waiting
    <3>2. Len(replies[k]) = 0
      BY <2>7, <3>1 DEF WellAnswered
    <3>3. /\ k <= pending[n].last /\ received[k].note = n /\ pending[n].last \in DOMAIN received
          /\ received[pending[n].last].to = pending[n].to
          /\ received[pending[n].last].conn = pending[n].conn
      BY <1>0, <2>1, <2>8 DEF PendingSound
    <3>4. \A m \in Notes : pending'[m] # NoMove => k \notin pending'[m].cmds
      BY <2>5, <2>7, <3>3 DEF WellAnswered
    <3> QED BY <2>1, <2>2, <2>3, <2>8, <3>2, <3>3, <3>4, GetsAnswer
  <2>9. CASE k \notin pending[n].cmds
    <3>1. Waiting(k)' <=> Waiting(k)
      BY <2>5, <2>9 DEF Waiting
    <3>2. replies'[k] = replies[k]
      BY <2>2, <2>6, <2>9
    <3>3. \A m \in Notes : pending'[m] # NoMove /\ k \in pending'[m].cmds => received[k].note = m
      BY <2>5, <2>7 DEF WellAnswered
    <3> QED BY <2>2, <2>6, <2>7, <3>1, <3>2, <3>3, KeepsAnswer
  <2> QED BY <2>8, <2>9
<1>4. ASSUME Tick, NEW k \in DOMAIN received' PROVE WellAnswered(k)'
  <2>1. received' = received /\ moves' = moves /\ replies' = replies
    BY <1>4 DEF Tick
  <2>2. ASSUME NEW n \in Notes
        PROVE  (pending'[n] # NoMove /\ k \in pending'[n].cmds)
                 <=> (pending[n] # NoMove /\ k \in pending[n].cmds)
    <3>1. pending[n] \in PendingMove \cup {NoMove}
      BY <1>0 DEF TypeOK
    <3>2. ASSUME NEW p \in PendingMove, p.due # 0
          PROVE  LET q == [p EXCEPT !.due = @ - 1] IN q \in PendingMove /\ q.cmds = p.cmds
      BY <3>2 DEF PendingMove, MovesAssumption
    <3>3. pending'[n] = IF pending[n] = NoMove \/ pending[n].due = 0 THEN pending[n]
                        ELSE [pending[n] EXCEPT !.due = @ - 1]
      BY <1>4 DEF Tick
    <3> QED BY <3>1, <3>2, <3>3 DEF MovesAssumption
  <2>3. WellAnswered(k) /\ (Waiting(k)' <=> Waiting(k))
    BY <1>0, <2>1, <2>2 DEF Waiting
  <2> QED BY <2>1, <2>2, <2>3, KeepsAnswer DEF WellAnswered
<1>5. ASSUME (\E c \in Conns, n \in Notes : DeleteNote(c, n)) \/ Elsewhere
      PROVE  \A k \in DOMAIN received' : WellAnswered(k)'
  <2>1. pending' = pending /\ received' = received /\ moves' = moves /\ replies' = replies
    BY <1>5 DEF DeleteNote, Elsewhere, timing, history
  <2> QED BY <1>0, <2>1 DEF WellAnswered, Waiting
<1> QED BY <1>1, <1>2, <1>3, <1>4, <1>5, StepKinds

THEOREM AlwaysAnswers == Spec => []Answers
<1>1. Init => Answers
  BY DEF Init, Answers, AnsweredOnce, AcksNameTheMove
<1>2. Sound /\ Sound' /\ Answers /\ [Next]_vars => Answers'
  BY AnswersStep
<1> QED BY <1>1, <1>2, AlwaysSound, PTL DEF Spec

\* Every move_note is answered once, or waits with exactly one pending move.
THEOREM OneAnswerEach == Spec => []AnsweredOnce
<1>1. Answers => AnsweredOnce
  BY DEF Answers
<1> QED BY <1>1, AlwaysAnswers, PTL

\* An ack carries the seq of the move that was applied for its command.
THEOREM AcksAreTrue == Spec => []AcksNameTheMove
<1>1. Answers => AcksNameTheMove
  BY DEF Answers
<1> QED BY <1>1, AlwaysAnswers, PTL
---------------------------------------------------------------------------
(* Distance and permission *)

\* A note that moves exists, and has not moved for an interval.
LEMMA DecidesPlace ==
  ASSUME TypeOK, NEW n \in Notes, NEW pm \in PendingMove, NEW answers, Decides(n, pm, answers)
  PROVE  /\ \A m \in Notes : quiet'[m] = IF m = n /\ moves' # moves THEN 0 ELSE quiet[m]
         /\ \A m \in Notes : (place'[m] # OutOfRange) <=> Exists(m)
         /\ moves' # moves => /\ moves'[Len(moves')].note = n
                              /\ moves'[Len(moves')].conn = pm.conn
                              /\ Exists(n)
         /\ moves' = moves \/ Len(moves') = Len(moves) + 1
<1>0. moves \in Seq(Moved) /\ Len(moves) \in Nat
  BY DEF TypeOK, Moved
<1>1. CASE /\ replies' = answered(answers, pm.cmds, [type |-> "error"])
           /\ UNCHANGED <<place, seq, moves, quiet>>
  BY <1>1 DEF Exists
<1>2. CASE \E s \in Nat :
       /\ Exists(n) /\ pm.to # OutOfRange /\ seq' = s
       /\ replies' = answered(answers, pm.cmds, [type |-> "ack", seq |-> s])
       /\ moves' = Append(moves, [note |-> n, conn |-> pm.conn, cmd |-> pm.last,
                                  to |-> pm.to, seq |-> s])
       /\ place' = [place EXCEPT ![n] = pm.to]
       /\ quiet' = [quiet EXCEPT ![n] = 0]
  <2>1. PICK s \in Nat : moves' = Append(moves, [note |-> n, conn |-> pm.conn, cmd |-> pm.last,
                                                 to |-> pm.to, seq |-> s])
    BY <1>2
  <2> DEFINE last == [note |-> n, conn |-> pm.conn, cmd |-> pm.last, to |-> pm.to, seq |-> s]
  <2>2. Len(moves') = Len(moves) + 1 /\ moves'[Len(moves')] = last
    BY <1>0, <2>1
  <2>3. moves' # moves
    BY <1>0, <2>2
  <2>4. \A m \in Notes : (place'[m] # OutOfRange) <=> Exists(m)
    BY <1>2 DEF Exists, TypeOK
  <2>5. \A m \in Notes : quiet'[m] = IF m = n THEN 0 ELSE quiet[m]
    BY <1>2 DEF TypeOK
  <2> QED BY <1>2, <2>2, <2>3, <2>4, <2>5
<1> QED BY <1>1, <1>2 DEF Decides

LEMMA TimersStep ==
  ASSUME TypeOK, TypeOK', TimersSound, [Next]_vars
  PROVE  TimersSound'
<1> USE MovesAssumption
<1>1. ASSUME NEW c \in Conns, NEW n \in Notes, NEW to \in Places \cup {OutOfRange}, Coalesce(c, n, to)
      PROVE  TimersSound'
  <2>1. place' = place /\ since' = since /\ quiet' = quiet
    BY <1>1 DEF Coalesce, tables
  <2>2. pending[n] # NoMove /\ pending[n] \in PendingMove
    BY <1>1 DEF Coalesce, Replaces, TypeOK
  <2>3. pending'[n] = coalesce(pending[n], c, Len(received) + 1, to)
    BY <1>1 DEF Coalesce, TypeOK
  <2>4. pending'[n].due = pending[n].due
    BY <2>2, <2>3 DEF coalesce, PendingMove
  <2>5. \A m \in Notes \ {n} : pending'[m] = pending[m]
    BY <1>1, Queued
  <2> QED BY <2>1, <2>2, <2>4, <2>5 DEF TimersSound, Exists
<1>2. ASSUME NEW c \in Conns, NEW n \in Notes, NEW to \in Places \cup {OutOfRange}, Hold(c, n, to)
      PROVE  TimersSound'
  <2>1. place' = place /\ since' = since /\ quiet' = quiet
    BY <1>2 DEF Hold, tables
  <2>2. pending'[n].due = Interval - since[n]
    BY <1>2 DEF Hold, newMove, TypeOK
  <2>3. \A m \in Notes \ {n} : pending'[m] = pending[m]
    BY <1>2, Queued
  <2>4. since[n] \in Int /\ quiet[n] \in Int /\ Interval \in Int
    BY DEF TypeOK, MovesAssumption
  <2> QED BY <2>1, <2>2, <2>3, <2>4 DEF TimersSound, Exists
<1>3. ASSUME NEW c \in Conns, NEW n \in Notes, NEW to \in Places \cup {OutOfRange}, MoveNow(c, n, to)
      PROVE  TimersSound'
  <2>a. PICK pm, answers : pm = newMove(c, Len(received) + 1, to) /\ answers = Append(replies, <<>>)
    OBVIOUS
  <2>1. since' = [since EXCEPT ![n] = 0] /\ Decides(n, pm, answers)
    BY <1>3, <2>a, ApplyDecides DEF MoveNow, TypeOK
  <2>2. pm \in PendingMove
    BY <1>3, <2>a DEF newMove, PendingMove, MoveNow, Receive, TypeOK, MovesAssumption
  <2>3. pending' = pending /\ pending[n] = NoMove
    BY <1>3 DEF MoveNow, Replaces
  <2>4. /\ \A m \in Notes \ {n} : quiet'[m] = quiet[m] /\ since'[m] = since[m]
        /\ \A m \in Notes : Exists(m)' <=> Exists(m)
    BY <2>1, <2>2, DecidesPlace DEF TypeOK, Exists
  <2>5. since'[n] = 0 /\ quiet'[n] \in 0 .. Interval
    BY <2>1 DEF TypeOK
  <2> QED BY <2>3, <2>4, <2>5 DEF TimersSound
<1>4. ASSUME NEW n \in Notes, TimerMove(n) PROVE TimersSound'
  <2>1. since' = [since EXCEPT ![n] = 0] /\ Decides(n, pending[n], replies)
    BY <1>4, ApplyDecides DEF TimerMove, TypeOK
  <2>2. pending[n] \in PendingMove
    BY <1>4 DEF TimerMove, Due, TypeOK
  <2>3. pending'[n] = NoMove /\ \A m \in Notes \ {n} : pending'[m] = pending[m]
    BY <1>4 DEF TimerMove, TypeOK
  <2>4. /\ \A m \in Notes \ {n} : quiet'[m] = quiet[m] /\ since'[m] = since[m]
        /\ \A m \in Notes : Exists(m)' <=> Exists(m)
    BY <2>1, <2>2, DecidesPlace DEF TypeOK, Exists
  <2>5. since'[n] = 0 /\ quiet'[n] \in 0 .. Interval
    BY <2>1 DEF TypeOK
  <2> QED BY <2>3, <2>4, <2>5 DEF TimersSound
<1>5. ASSUME Tick PROVE TimersSound'
  <2> SUFFICES ASSUME NEW n \in Notes, Exists(n)'
               PROVE  /\ since'[n] <= quiet'[n]
                      /\ pending'[n] # NoMove => quiet'[n] + pending'[n].due >= Interval
    BY DEF TimersSound
  <2>1. /\ since'[n] = IF since[n] < Interval THEN since[n] + 1 ELSE since[n]
        /\ quiet'[n] = IF quiet[n] < Interval THEN quiet[n] + 1 ELSE quiet[n]
        /\ Exists(n)
    BY <1>5 DEF Tick, tables, Exists
  <2>2. since[n] \in 0 .. Interval /\ quiet[n] \in 0 .. Interval /\ Interval \in Nat
    BY DEF TypeOK, MovesAssumption
  <2>3. since[n] <= quiet[n] /\ (pending[n] # NoMove => quiet[n] + pending[n].due >= Interval)
    BY <2>1 DEF TimersSound
  <2>4. ASSUME pending'[n] # NoMove PROVE quiet'[n] + pending'[n].due >= Interval
    <3>1. pending'[n] = IF pending[n] = NoMove \/ pending[n].due = 0 THEN pending[n]
                        ELSE [pending[n] EXCEPT !.due = @ - 1]
      BY <1>5 DEF Tick
    <3>2. pending[n] # NoMove /\ pending[n] \in PendingMove /\ pending[n].due \in Nat
      BY <2>4, <3>1 DEF TypeOK, PendingMove
    <3>3. CASE pending[n].due = 0
      BY <2>1, <2>2, <2>3, <3>1, <3>2, <3>3
    <3>4. CASE pending[n].due # 0
      <4>1. pending'[n].due = pending[n].due - 1
        BY <3>1, <3>2, <3>4 DEF PendingMove
      <4> QED BY <2>1, <2>2, <2>3, <3>2, <3>4, <4>1
    <3> QED BY <3>3, <3>4
  <2> QED BY <2>1, <2>2, <2>3, <2>4
<1>6. ASSUME NEW c \in Conns, NEW n \in Notes, DeleteNote(c, n) PROVE TimersSound'
  <2>1. /\ pending' = pending /\ quiet' = quiet
        /\ \A m \in Notes : Exists(m)' => m # n /\ Exists(m) /\ since'[m] = since[m]
    BY <1>6 DEF DeleteNote, history, TypeOK, Exists
  <2> QED BY <2>1 DEF TimersSound
<1>7. ASSUME Elsewhere PROVE TimersSound'
  BY <1>7 DEF Elsewhere, timing, history, TimersSound, Exists
<1> QED BY <1>1, <1>2, <1>3, <1>4, <1>5, <1>6, <1>7, StepKinds

\* Which note moves in a step, and who moves it.
LEMMA WhoMoves ==
  ASSUME TypeOK, [Next]_vars, Len(moves') > Len(moves)
  PROVE  \/ \E c \in Conns, n \in Notes, to \in Places \cup {OutOfRange} :
              /\ MoveNow(c, n, to) /\ Exists(n)
              /\ moves'[Len(moves')].note = n /\ moves'[Len(moves')].conn = c
         \/ \E n \in Notes :
              /\ TimerMove(n) /\ Exists(n)
              /\ moves'[Len(moves')].note = n /\ moves'[Len(moves')].conn = pending[n].conn
<1> USE MovesAssumption
<1>0. Len(moves) \in Nat
  BY DEF TypeOK
<1>1. moves' # moves
  BY <1>0
<1>2. ASSUME NEW c \in Conns, NEW n \in Notes, NEW to \in Places \cup {OutOfRange}, MoveNow(c, n, to)
      PROVE  /\ Exists(n)
             /\ moves'[Len(moves')].note = n /\ moves'[Len(moves')].conn = c
  <2>a. PICK pm, answers : pm = newMove(c, Len(received) + 1, to) /\ answers = Append(replies, <<>>)
    OBVIOUS
  <2>1. Decides(n, pm, answers)
    BY <1>2, <2>a, ApplyDecides DEF MoveNow, TypeOK
  <2>2. pm \in PendingMove /\ pm.conn = c
    BY <1>2, <2>a DEF newMove, PendingMove, MoveNow, Receive, TypeOK, MovesAssumption
  <2> QED BY <1>1, <2>1, <2>2, DecidesPlace
<1>3. ASSUME NEW n \in Notes, TimerMove(n)
      PROVE  /\ Exists(n)
             /\ moves'[Len(moves')].note = n /\ moves'[Len(moves')].conn = pending[n].conn
  <2>1. Decides(n, pending[n], replies)
    BY <1>3, ApplyDecides DEF TimerMove, TypeOK
  <2>2. pending[n] \in PendingMove
    BY <1>3 DEF TimerMove, Due, TypeOK
  <2> QED BY <1>1, <2>1, <2>2, DecidesPlace
<1>4. ~ \/ \E c \in Conns, n \in Notes, to \in Places \cup {OutOfRange} :
              Coalesce(c, n, to) \/ Hold(c, n, to)
        \/ Tick
        \/ \E c \in Conns, n \in Notes : DeleteNote(c, n)
        \/ Elsewhere
  BY <1>1 DEF Coalesce, Hold, Tick, DeleteNote, Elsewhere, history
<1> QED BY <1>2, <1>3, <1>4, StepKinds

\* A note that moves has not moved for a whole interval.
THEOREM MovesStaySpaced == Spec => MovesSpaced
<1> USE MovesAssumption
<1>1. Init => TimersSound
  BY DEF Init, TimersSound, MovesAssumption
<1>2. Spec => []TimersSound
  <2>1. TypeOK /\ TypeOK' /\ TimersSound /\ [Next]_vars => TimersSound'
    BY TimersStep
  <2> QED BY <1>1, <2>1, TypeCorrect, PTL DEF Spec
<1>3. TypeOK /\ TimersSound /\ [Next]_vars =>
        [\A n \in Notes : quiet'[n] = 0 /\ Len(moves') > Len(moves)
            /\ moves'[Len(moves')].note = n => quiet[n] = Interval]_vars
  <2> SUFFICES ASSUME TypeOK, TimersSound, [Next]_vars, NEW n \in Notes, Len(moves') > Len(moves),
                      moves'[Len(moves')].note = n
               PROVE  quiet[n] = Interval
    OBVIOUS
  <2>1. quiet[n] \in 0 .. Interval /\ Interval \in Nat
    BY DEF TypeOK, MovesAssumption
  <2>2. CASE \E c \in Conns, to \in Places \cup {OutOfRange} : MoveNow(c, n, to) /\ Exists(n)
    BY <2>1, <2>2 DEF TimersSound, MoveNow
  <2>3. CASE TimerMove(n) /\ Exists(n)
    BY <2>1, <2>3 DEF TimersSound, TimerMove, Due
  <2> QED BY <2>2, <2>3, WhoMoves
<1> QED BY <1>2, <1>3, TypeCorrect, PTL DEF Spec, MovesSpaced

LEMMA RolesStep ==
  ASSUME TypeOK, RolesFresh, [Next]_vars
  PROVE  RolesFresh'
<1> USE MovesAssumption DEF RolesFresh
<1>1. ASSUME NEW c \in Conns, Register(c) \/ Unregister(c) PROVE RolesFresh'
  <2>1. clients \subseteq Conns /\ connRole \in [Conns -> Roles]
    BY DEF TypeOK
  <2>2. CASE Register(c)
    <3>1. /\ clients' = clients \cup {c} /\ role' = role
          /\ connRole' = [connRole EXCEPT ![c] = role[UserOf[c]]]
      BY <2>2 DEF Register, tables
    <3>2. \A d \in clients' : connRole'[d] = IF d = c THEN role[UserOf[d]] ELSE connRole[d]
      BY <2>1, <3>1
    <3> QED BY <3>1, <3>2
  <2>3. CASE Unregister(c)
    BY <2>3 DEF Unregister, tables
  <2> QED BY <1>1, <2>2, <2>3
<1>2. ASSUME NEW u \in Users, NEW r \in Roles, RoleBecomes(u, r) PROVE RolesFresh'
  BY <1>2 DEF RoleBecomes, refreshRole, TypeOK, MovesAssumption
<1>3. ASSUME UNCHANGED <<role, conns>> PROVE RolesFresh'
  BY <1>3 DEF conns
<1>4. "organizer" \in Roles
  BY DEF Roles, Staff
<1> QED
  BY <1>1, <1>2, <1>3, <1>4
  DEF Next, SetRole, LoginAsOrganizer, SetLifecycle, DeleteNote, Coalesce, Hold, MoveNow,
      TimerMove, Tick, tables, vars

\* No move is applied once the event is over, and during setup a mover who is
\* still connected belongs to the staff.
THEOREM MoversMayInteract == Spec => MoverMayInteract
<1> USE MovesAssumption
<1>1. Init => RolesFresh
  BY DEF Init, RolesFresh
<1>2. Spec => []RolesFresh
  <2>1. TypeOK /\ RolesFresh /\ [Next]_vars => RolesFresh'
    BY RolesStep
  <2> QED BY <1>1, <2>1, TypeCorrect, PTL DEF Spec
<1>3. TypeOK /\ RolesFresh /\ [Next]_vars =>
        [Len(moves') > Len(moves) =>
           LET c == moves'[Len(moves')].conn IN
             /\ lifecycle # "done"
             /\ lifecycle = "setup" /\ c \in clients => role[UserOf[c]] \in Staff]_vars
  <2> SUFFICES ASSUME TypeOK, RolesFresh, [Next]_vars, Len(moves') > Len(moves)
               PROVE  /\ lifecycle # "done"
                      /\ lifecycle = "setup" /\ moves'[Len(moves')].conn \in clients
                           => role[UserOf[moves'[Len(moves')].conn]] \in Staff
    OBVIOUS
  <2>0. moves' # moves
    BY DEF TypeOK
  <2>1. ASSUME NEW c \in Conns, NEW n \in Notes, NEW to \in Places \cup {OutOfRange},
               MoveNow(c, n, to), moves'[Len(moves')].conn = c
        PROVE  lifecycle # "done" /\ (lifecycle = "setup" /\ c \in clients => role[UserOf[c]] \in Staff)
    <3>1. CheckInteract(connRole[c])
      BY <2>0, <2>1 DEF MoveNow, applyMove, Accepts
    <3> QED BY <3>1 DEF CheckInteract, RolesFresh
  <2>2. ASSUME NEW n \in Notes, TimerMove(n), moves'[Len(moves')].conn = pending[n].conn
        PROVE  lifecycle # "done" /\ (lifecycle = "setup" /\ pending[n].conn \in clients
                                        => role[UserOf[pending[n].conn]] \in Staff)
    <3>1. CheckInteract(connRole[pending[n].conn])
      BY <2>0, <2>2 DEF TimerMove, applyMove, Accepts
    <3> QED BY <3>1 DEF CheckInteract, RolesFresh
  <2> QED BY <2>1, <2>2, WhoMoves
<1> QED BY <1>2, <1>3, TypeCorrect, PTL DEF Spec, MoverMayInteract

\* Every coalesced command has one reply, and acks are true.
THEOREM RepliesAreSound == Spec => []RepliesSound
<1>1. AnsweredOnce /\ AcksNameTheMove => RepliesSound
  BY DEF RepliesSound
<1> QED BY <1>1, OneAnswerEach, AcksAreTrue, PTL
=============================================================================

---------------------------- MODULE ConnLife_proofs ----------------------------
(***************************************************************************)
(* For any number of connections, requests and posters and any capacities: *)
(* a client receives the hub's frames without a hole, and a connection     *)
(* that joined leaves Hub.clients when its handler is gone.                *)
(***************************************************************************)
EXTENDS ConnLife, TLAPS

\* The operations of one connection.
Registers(o, c) == o # NoOp /\ o.kind = "register" /\ o.by = c
Unregisters(o, c) == o # NoOp /\ o.kind = "unregister" /\ o.by = c

---------------------------------------------------------------------------
(* Joining and leaving *)

\* Register is called once: before the handler posts it there is none, there is
\* never a second one, and it is completed once.
OneRegister(c) ==
  /\ handler[c] \in {"none", "callRegister"} =>
       /\ c \notin finished /\ ~Registers(op, c)
       /\ \A i \in 1 .. Len(ops) : ~Registers(ops[i], c)
  /\ \A i \in 1 .. Len(ops) : Registers(ops[i], c) =>
       /\ c \notin finished /\ ~Registers(op, c)
       /\ \A j \in 1 .. Len(ops) : Registers(ops[j], c) => j = i
  /\ Registers(op, c) => c \notin finished

\* Joined connections have had their Register completed, so no later one can
\* bring them back; and once the handler has returned, an Unregister is on its
\* way unless the connection has left.
Leaving(c) ==
  joined[c] =>
    /\ c \in finished
    /\ handler[c] \in {"read", "submit", "kill", "unregister", "returned"}
    /\ handler[c] = "returned" /\ hub = "running" /\ c \in clients =>
         \E i \in 1 .. Len(ops) : Unregisters(ops[i], c)

JoinInv == \A c \in Conns : OneRegister(c) /\ Leaving(c)

---------------------------------------------------------------------------
(* The frames of one connection *)

\* The last of the hub's frames that has left the buffer, and the last that can
\* be in it: one the hub has just dropped is not.
Base(c) == IF writer[c] = "writing" /\ held[c] # Reply THEN held[c] ELSE got[c]
Top(c)  == IF c \in slow THEN sent[c] - 1 ELSE sent[c]

\* The buffer holds the frames after Base up to Top, in order, and replies.
Rising(c) == \A i, j \in 1 .. Len(buf[c]) :
               i < j /\ buf[c][i] # Reply /\ buf[c][j] # Reply => buf[c][i] < buf[c][j]
Within(c) == \A i \in 1 .. Len(buf[c]) : buf[c][i] # Reply => Base(c) < buf[c][i] /\ buf[c][i] <= Top(c)
Complete(c) == \A v \in Base(c) + 1 .. Top(c) : \E i \in 1 .. Len(buf[c]) : buf[c][i] = v

\* A killed connection may have lost frames, and so has one whose writer took a
\* frame too late; but neither begins another write.
Streams(c) ==
  /\ Base(c) <= Top(c)
  /\ writer[c] = "writing" /\ held[c] # Reply => held[c] = got[c] + 1
  /\ ~killed[c] /\ writer[c] \notin {"doomed", "returned"} => Rising(c) /\ Within(c) /\ Complete(c)

StreamInv ==
  /\ \A c, d \in slow : c = d
  /\ \A c \in Conns : Streams(c) /\ (handler[c] = "none" => writer[c] = "none")

---------------------------------------------------------------------------
(* Types *)

\* Lengths and elements of a sequence of operations, or of frames, that grows
\* at its end or shrinks at its head.
LEMMA Appended ==
  ASSUME NEW S, NEW q \in Seq(S), NEW e \in S
  PROVE  /\ Append(q, e) \in Seq(S) /\ Len(q) \in Nat /\ Len(Append(q, e)) = Len(q) + 1
         /\ \A i \in 1 .. Len(q) : Append(q, e)[i] = q[i]
         /\ Append(q, e)[Len(q) + 1] = e
OBVIOUS

LEMMA Taken ==
  ASSUME NEW S, NEW q \in Seq(S), q # <<>>
  PROVE  /\ Head(q) \in S /\ Head(q) = q[1] /\ Tail(q) \in Seq(S)
         /\ Len(q) \in Nat \ {0} /\ Len(Tail(q)) = Len(q) - 1
         /\ \A i \in 1 .. Len(q) - 1 : Tail(q)[i] = q[i + 1]
OBVIOUS

\* The hub's own variables, and those of its queue, keep their types.
HubType ==
  /\ ops \in Seq(Ops) /\ Len(ops) <= QueueCap
  /\ op \in Ops \cup {NoOp} /\ owed \in [Conns -> 0 .. 2] /\ slow \subseteq Conns
  /\ hub \in {"running", "stopped"}
  /\ clients \subseteq Conns /\ finished \subseteq Conns \cup Callers

ConnType ==
  /\ handler \in [Conns -> {"none", "callRegister", "awaitRegister", "read", "submit", "kill",
                            "unregister", "returned"}]
  /\ writer \in [Conns -> {"none", "select", "writing", "doomed", "returned"}]
  /\ killed \in [Conns -> BOOLEAN] /\ broken \in [Conns -> BOOLEAN]
  /\ held \in [Conns -> Nat] /\ sent \in [Conns -> Nat] /\ got \in [Conns -> Nat]
  /\ buf \in [Conns -> Seq(Nat)] /\ \A c \in Conns : Len(buf[c]) <= SendBuffer
  /\ cmds \in 0 .. MaxCmds /\ joined \in [Conns -> BOOLEAN]

OthersType ==
  /\ shut \in BOOLEAN
  /\ caller \in [Callers -> {"idle", "await", "returned"}]
  /\ poster \in [Posters -> {"idle", "returned"}]

LEMMA TypeParts == TypeOK <=> HubType /\ ConnType /\ OthersType
BY DEF TypeOK, HubType, ConnType, OthersType

\* post adds an operation, or the hub has stopped; the queue is all it changes.
LEMMA PostType ==
  ASSUME ConnLifeAssumption, HubType, NEW kind, NEW by, [kind |-> kind, by |-> by] \in Ops,
         Posted(kind, by) \/ Stopped
  PROVE  HubType'
<1>1. CASE Stopped
  BY <1>1 DEF Stopped, hubVars, HubType
<1>2. CASE Posted(kind, by)
  <2>1. ops' \in Seq(Ops) /\ Len(ops') <= QueueCap
    BY <1>2, Appended DEF Posted, HubType, ConnLifeAssumption
  <2> QED BY <1>2, <2>1 DEF Posted, HubType
<1> QED BY <1>1, <1>2

\* What enters or leaves a buffer keeps it one.
LEMMA QueueType ==
  ASSUME ConnLifeAssumption, ConnType, NEW c \in Conns, NEW frame \in Nat,
         queue(c, frame) \/ drop(c)
  PROVE  buf' \in [Conns -> Seq(Nat)] /\ \A d \in Conns : Len(buf'[d]) <= SendBuffer
<1>1. CASE drop(c)
  BY <1>1 DEF drop, ConnType
<1>2. CASE queue(c, frame)
  <2>1. buf[c] \in Seq(Nat) /\ Len(buf[c]) <= SendBuffer /\ Len(buf[c]) # SendBuffer
    BY <1>2 DEF queue, Full, ConnType
  <2>2. Append(buf[c], frame) \in Seq(Nat) /\ Len(Append(buf[c], frame)) <= SendBuffer
    BY <2>1, Appended DEF ConnLifeAssumption
  <2> QED BY <1>2, <2>2 DEF queue, ConnType
<1> QED BY <1>1, <1>2

LEMMA TakeOpType ==
  ASSUME ConnLifeAssumption, HubType, TakeOp
  PROVE  HubType'
<1>1. ops # <<>> /\ op' = Head(ops) /\ ops' = Tail(ops) /\ UNCHANGED <<slow, hub, finished>>
  BY DEF TakeOp
<1>2. Head(ops) \in Ops /\ ops' \in Seq(Ops) /\ Len(ops') <= QueueCap
  BY <1>1, Taken DEF HubType, ConnLifeAssumption
<1>3. PICK o \in Ops : o = Head(ops)
  BY <1>2
<1>4. o.kind \in {"register", "unregister", "command"} => o.by \in Conns
  BY DEF Ops
<1> DEFINE event == [c \in Conns |-> IF c \in clients THEN 1 ELSE 0]
<1>5. event \in [Conns -> 0 .. 1]
  OBVIOUS
<1>6. \/ /\ o.kind = "register"
         /\ clients' = clients \cup {o.by} /\ owed' = [owed EXCEPT ![o.by] = 2]
      \/ /\ UNCHANGED owed
         /\ clients' = clients \/ clients' = clients \ {o.by}
      \/ /\ o.kind = "command" /\ UNCHANGED clients
         /\ owed' = [owed EXCEPT ![o.by] = 1] \/ owed' = [event EXCEPT ![o.by] = @ + 1]
      \/ owed' = event /\ UNCHANGED clients
  BY <1>3 DEF TakeOp
<1> HIDE DEF event
<1>7. owed' \in [Conns -> 0 .. 2]
  BY <1>4, <1>5, <1>6 DEF HubType
<1>8. clients' \subseteq Conns
  BY <1>4, <1>6 DEF HubType
<1> QED BY <1>1, <1>2, <1>7, <1>8 DEF HubType

LEMMA HubStepType ==
  ASSUME ConnLifeAssumption, TypeOK, HubStep
  PROVE  TypeOK'
<1>0. HubType /\ ConnType /\ OthersType
  BY TypeParts
<1>1. CASE TakeOp
  <2>1. ConnType' /\ OthersType'
    BY <1>0, <1>1 DEF TakeOp, connVars, othersVars, ConnType, OthersType
  <2> QED BY <1>0, <1>1, <2>1, TakeOpType, TypeParts DEF TypeOK, HubType, ConnType, OthersType
<1>2. CASE FinishOp
  <2>1. op \in Ops /\ op.kind \in {"register", "login"} => op.by \in Conns \cup Callers
    BY DEF Ops
  <2>2. HubType'
    BY <1>0, <1>2, <2>1 DEF FinishOp, HubType
  <2>3. ConnType' /\ OthersType'
    BY <1>0, <1>2 DEF FinishOp, connVars, othersVars, ConnType, OthersType
  <2> QED BY <2>2, <2>3 DEF TypeOK, HubType, ConnType, OthersType
<1>3. CASE HubEnds
  <2>1. HubType' /\ ConnType' /\ OthersType'
    BY <1>0, <1>3 DEF HubEnds, HubType, othersVars, ConnType, OthersType
  <2> QED BY <2>1 DEF TypeOK, HubType, ConnType, OthersType
<1>4. ASSUME NEW c \in Conns, HubEnqueue(c)
      PROVE  TypeOK'
  <2>1. buf' \in [Conns -> Seq(Nat)] /\ \A d \in Conns : Len(buf'[d]) <= SendBuffer
    <3>1. sent[c] + 1 \in Nat
      BY <1>0 DEF ConnType
    <3> QED BY <1>0, <1>4, <3>1, QueueType DEF HubEnqueue
  <2>2. HubType'
    BY <1>0, <1>4 DEF HubEnqueue, HubType
  <2>3. ConnType'
    <3>1. sent' \in [Conns -> Nat]
      BY <1>0, <1>4 DEF HubEnqueue, ConnType
    <3> QED BY <1>0, <1>4, <2>1, <3>1 DEF HubEnqueue, ConnType
  <2>4. OthersType'
    BY <1>0, <1>4 DEF HubEnqueue, othersVars, OthersType
  <2> QED BY <2>2, <2>3, <2>4 DEF TypeOK, HubType, ConnType, OthersType
<1>5. ASSUME NEW c \in Conns, HubKills(c)
      PROVE  TypeOK'
  <2>1. HubType' /\ ConnType' /\ OthersType'
    BY <1>0, <1>5 DEF HubKills, kill, HubType, othersVars, ConnType, OthersType
  <2> QED BY <2>1 DEF TypeOK, HubType, ConnType, OthersType
<1> QED BY <1>1, <1>2, <1>3, <1>4, <1>5 DEF HubStep

\* A step that leaves the hub and its queue alone.
LEMMA AloneType ==
  ASSUME TypeOK, ConnType', UNCHANGED <<hubVars, shut, othersVars>>
  PROVE  TypeOK'
BY DEF hubVars, othersVars, TypeOK, HubType, ConnType, OthersType

\* A step of a handler that may post.
LEMMA PostsType ==
  ASSUME ConnLifeAssumption, TypeOK, NEW kind, NEW by, [kind |-> kind, by |-> by] \in Ops,
         Posted(kind, by) \/ Stopped \/ UNCHANGED hubVars, ConnType', OthersType'
  PROVE  TypeOK'
<1>1. HubType'
  <2>1. CASE UNCHANGED hubVars
    BY <2>1, TypeParts DEF hubVars, HubType
  <2> QED BY <2>1, PostType, TypeParts
<1> QED BY <1>1 DEF TypeOK, HubType, ConnType, OthersType

LEMMA HandlerType ==
  ASSUME ConnLifeAssumption, TypeOK, NEW c \in Conns,
         Accept(c) \/ ReadFrame(c) \/ ReadEnds(c) \/ Break(c) \/ HandlerStep(c)
  PROVE  TypeOK'
<1>0. HubType /\ ConnType /\ OthersType
  BY TypeParts
<1>1. \A kind \in {"register", "unregister", "command"} : [kind |-> kind, by |-> c] \in Ops
  BY DEF Ops
<1>2. CASE Accept(c)
  <2>1. ConnType'
    BY <1>0, <1>2 DEF Accept, ConnType
  <2> QED BY <1>2, <2>1, AloneType DEF Accept
<1>3. CASE CallRegister(c)
  <2>1. ConnType' /\ OthersType'
    BY <1>0, <1>3 DEF CallRegister, Return, kill, othersVars, ConnType, OthersType
  <2> QED BY <1>1, <1>3, <2>1, PostsType DEF CallRegister
<1>4. CASE AwaitRegister(c)
  <2>1. ConnType'
    BY <1>0, <1>4 DEF AwaitRegister, Return, kill, ConnType
  <2> QED BY <1>4, <2>1, AloneType DEF AwaitRegister
<1>5. CASE ReadFrame(c)
  <2>1. buf' \in [Conns -> Seq(Nat)] /\ \A d \in Conns : Len(buf'[d]) <= SendBuffer
    <3>1. Reply \in Nat
      BY DEF Reply
    <3>2. queue(c, Reply) \/ drop(c) \/ UNCHANGED buf
      BY <1>5 DEF ReadFrame
    <3> QED BY <1>0, <3>1, <3>2, QueueType DEF ConnType
  <2>2. handler' \in [Conns -> {"none", "callRegister", "awaitRegister", "read", "submit", "kill",
                            "unregister", "returned"}]
    BY <1>0, <1>5 DEF ReadFrame, ConnType
  <2>3. cmds' \in 0 .. MaxCmds
    BY <1>0, <1>5 DEF ReadFrame, ConnType, ConnLifeAssumption
  <2>4. ConnType'
    BY <1>0, <1>5, <2>1, <2>2, <2>3 DEF ReadFrame, ConnType
  <2> QED BY <1>5, <2>4, AloneType DEF ReadFrame
<1>6. CASE ReaderKills(c)
  <2>1. ConnType'
    BY <1>0, <1>6 DEF ReaderKills, kill, ConnType
  <2> QED BY <1>6, <2>1, AloneType DEF ReaderKills
<1>7. CASE Submit(c)
  <2>1. ConnType' /\ OthersType'
    BY <1>0, <1>7 DEF Submit, othersVars, ConnType, OthersType
  <2> QED BY <1>1, <1>7, <2>1, PostsType DEF Submit
<1>8. CASE ReadEnds(c)
  <2>1. cmds' \in 0 .. MaxCmds
    BY <1>0, <1>8 DEF ReadEnds, ConnType, ConnLifeAssumption
  <2>2. killed' \in [Conns -> BOOLEAN]
    BY <1>0, <1>8 DEF ReadEnds, kill, ConnType
  <2>3. ConnType'
    BY <1>0, <1>8, <2>1, <2>2 DEF ReadEnds, ConnType
  <2> QED BY <1>8, <2>3, AloneType DEF ReadEnds
<1>9. CASE Unregister(c)
  <2>1. ConnType' /\ OthersType'
    BY <1>0, <1>9 DEF Unregister, Return, kill, othersVars, ConnType, OthersType
  <2> QED BY <1>1, <1>9, <2>1, PostsType DEF Unregister
<1>10. CASE Break(c)
  <2>1. ConnType'
    BY <1>0, <1>10 DEF Break, ConnType
  <2> QED BY <1>10, <2>1, AloneType DEF Break
<1> QED BY <1>2, <1>3, <1>4, <1>5, <1>6, <1>7, <1>8, <1>9, <1>10 DEF HandlerStep

LEMMA WriterType ==
  ASSUME ConnLifeAssumption, TypeOK, NEW c \in Conns, WriterStep(c)
  PROVE  TypeOK'
<1>0. ConnType
  BY TypeParts
<1>1. CASE TakeFrame(c)
  <2>1. buf[c] \in Seq(Nat) /\ buf[c] # <<>> /\ Len(buf[c]) <= SendBuffer
    BY <1>0, <1>1 DEF TakeFrame, ConnType
  <2>2. Head(buf[c]) \in Nat /\ Tail(buf[c]) \in Seq(Nat) /\ Len(Tail(buf[c])) <= SendBuffer
    BY <2>1, Taken DEF ConnLifeAssumption
  <2>3. buf' \in [Conns -> Seq(Nat)] /\ \A d \in Conns : Len(buf'[d]) <= SendBuffer
    BY <1>0, <1>1, <2>2 DEF TakeFrame, ConnType
  <2>4. held' \in [Conns -> Nat]
        /\ writer' \in [Conns -> {"none", "select", "writing", "doomed", "returned"}]
    BY <1>0, <1>1, <2>2 DEF TakeFrame, ConnType
  <2>5. ConnType'
    BY <1>0, <1>1, <2>3, <2>4 DEF TakeFrame, ConnType
  <2> QED BY <1>1, <2>5, AloneType DEF TakeFrame
<1>2. CASE WriteDone(c)
  <2>1. ConnType'
    BY <1>0, <1>2 DEF WriteDone, ConnType
  <2> QED BY <1>2, <2>1, AloneType DEF WriteDone
<1>3. CASE WriteFails(c)
  <2>1. ConnType'
    BY <1>0, <1>3 DEF WriteFails, kill, ConnType
  <2> QED BY <1>3, <2>1, AloneType DEF WriteFails
<1>4. CASE WriterEnds(c)
  <2>1. ConnType'
    BY <1>0, <1>4 DEF WriterEnds, ConnType
  <2> QED BY <1>4, <2>1, AloneType DEF WriterEnds
<1> QED BY <1>1, <1>2, <1>3, <1>4 DEF WriterStep

LEMMA StepType ==
  ASSUME ConnLifeAssumption, TypeOK, [Next]_vars
  PROVE  TypeOK'
<1>0. HubType /\ ConnType /\ OthersType
  BY TypeParts
<1>1. ASSUME NEW l \in Callers, CallLogin(l)
      PROVE  TypeOK'
  <2>1. ConnType' /\ OthersType'
    BY <1>0, <1>1 DEF CallLogin, connVars, ConnType, OthersType
  <2>2. [kind |-> "login", by |-> l] \in Ops
    BY DEF Ops
  <2> QED BY <1>1, <2>1, <2>2, PostsType DEF CallLogin
<1>2. ASSUME NEW l \in Callers, AwaitLogin(l)
      PROVE  TypeOK'
  <2>1. HubType' /\ ConnType' /\ OthersType'
    BY <1>0, <1>2 DEF AwaitLogin, connVars, hubVars, HubType, ConnType, OthersType
  <2> QED BY <2>1 DEF TypeOK, HubType, ConnType, OthersType
<1>3. ASSUME NEW p \in Posters, Post(p)
      PROVE  TypeOK'
  <2>1. ConnType' /\ OthersType'
    BY <1>0, <1>3 DEF Post, connVars, ConnType, OthersType
  <2>2. [kind |-> "posted", by |-> p] \in Ops
    BY DEF Ops
  <2> QED BY <1>3, <2>1, <2>2, PostsType DEF Post
<1>4. CASE Shutdown
  <2>1. HubType' /\ ConnType' /\ OthersType'
    BY <1>0, <1>4 DEF Shutdown, connVars, hubVars, othersVars, HubType, ConnType, OthersType
  <2> QED BY <2>1 DEF TypeOK, HubType, ConnType, OthersType
<1>5. CASE UNCHANGED vars
  <2>1. HubType' /\ ConnType' /\ OthersType'
    BY <1>0, <1>5 DEF vars, connVars, hubVars, othersVars, HubType, ConnType, OthersType
  <2> QED BY <2>1 DEF TypeOK, HubType, ConnType, OthersType
<1> QED BY <1>1, <1>2, <1>3, <1>4, <1>5, HubStepType, HandlerType, WriterType DEF Next

\* The variables are what TypeOK says: the queue and the buffers never hold more
\* than their capacities, and no connection is owed more than two frames.
THEOREM TypeCorrect == Spec => []TypeOK
<1>1. Init => TypeOK
  <2>1. <<>> \in Seq(Ops) /\ Len(<<>>) = 0 /\ <<>> \in Seq(Nat)
    OBVIOUS
  <2>2. Init => HubType
    BY <2>1, ConnLifeAssumption DEF Init, HubType, ConnLifeAssumption
  <2>3. ASSUME Init PROVE ConnType
    <3>1. buf \in [Conns -> Seq(Nat)] /\ \A c \in Conns : Len(buf[c]) <= SendBuffer
      BY <2>1, <2>3, ConnLifeAssumption DEF Init, ConnLifeAssumption
    <3> QED BY <2>3, <3>1, ConnLifeAssumption DEF Init, ConnType, ConnLifeAssumption
  <2>4. ASSUME Init PROVE OthersType
    <3>1. shut = FALSE /\ caller = [l \in Callers |-> "idle"] /\ poster = [p \in Posters |-> "idle"]
      BY <2>4 DEF Init
    <3> QED BY <3>1 DEF OthersType
  <2> QED BY <2>2, <2>3, <2>4, TypeParts
<1>2. TypeOK /\ [Next]_vars => TypeOK'
  BY ConnLifeAssumption, StepType
<1> QED BY <1>1, <1>2, PTL DEF Spec

---------------------------------------------------------------------------
(* Joining and leaving *)

Early == {"none", "callRegister"}
After == {"read", "submit", "kill", "unregister", "returned"}

\* A step that neither adds nor takes an operation, nor lets a handler of a
\* joined connection return while the hub runs.
LEMMA SameQueue ==
  ASSUME NEW c \in Conns, OneRegister(c), Leaving(c),
         UNCHANGED <<ops, op, clients, finished>>, hub' = hub \/ hub' = "stopped",
         handler'[c] \in Early => handler[c] \in Early,
         joined'[c] => /\ joined[c] \/ c \in finished
                       /\ handler'[c] \in After
                       /\ handler'[c] = "returned" =>
                            hub' = "stopped" \/ (joined[c] /\ handler[c] = "returned")
  PROVE  OneRegister(c)' /\ Leaving(c)'
<1>1. OneRegister(c)'
  BY DEF OneRegister, Registers, Early
<1>2. Leaving(c)'
  BY DEF Leaving, Unregisters, After
<1> QED BY <1>1, <1>2

\* A step that posts an operation: the Register of a connection by its handler,
\* whose Unregister is what lets it return.
LEMMA LongerQueue ==
  ASSUME TypeOK, NEW o \in Ops, ops' = Append(ops, o),
         UNCHANGED <<op, hub, clients, finished, joined>>,
         NEW c \in Conns, OneRegister(c), Leaving(c),
         handler'[c] \in Early => handler[c] \in Early /\ ~Registers(o, c),
         Registers(o, c) => handler[c] \in Early,
         joined[c] => /\ handler'[c] \in After
                      /\ handler'[c] = "returned" => handler[c] = "returned" \/ Unregisters(o, c)
  PROVE  OneRegister(c)' /\ Leaving(c)'
<1>1. /\ Len(ops) \in Nat /\ Len(ops') = Len(ops) + 1
      /\ \A i \in 1 .. Len(ops) : ops'[i] = ops[i]
      /\ ops'[Len(ops) + 1] = o
  BY Appended DEF TypeOK
<1>2. OneRegister(c)'
  <2>1. ASSUME handler'[c] \in Early
        PROVE  /\ c \notin finished /\ ~Registers(op, c)
               /\ \A i \in 1 .. Len(ops') : ~Registers(ops'[i], c)
    <3>1. \A i \in 1 .. Len(ops) : ~Registers(ops[i], c)
      BY <2>1 DEF OneRegister, Early
    <3> QED BY <1>1, <2>1, <3>1 DEF OneRegister, Early
  <2>2. ASSUME NEW i \in 1 .. Len(ops'), Registers(ops'[i], c)
        PROVE  /\ c \notin finished /\ ~Registers(op, c)
               /\ \A j \in 1 .. Len(ops') : Registers(ops'[j], c) => j = i
    <3>1. CASE Registers(o, c)
      <4>1. /\ c \notin finished /\ ~Registers(op, c)
            /\ \A j \in 1 .. Len(ops) : ~Registers(ops[j], c)
        BY <3>1 DEF OneRegister, Early
      <4>2. \A j \in 1 .. Len(ops') : Registers(ops'[j], c) => j = Len(ops) + 1
        BY <1>1, <4>1
      <4> QED BY <2>2, <4>1, <4>2
    <3>2. CASE ~Registers(o, c)
      <4>1. i \in 1 .. Len(ops) /\ Registers(ops[i], c)
        BY <1>1, <2>2, <3>2
      <4>2. /\ c \notin finished /\ ~Registers(op, c)
            /\ \A j \in 1 .. Len(ops) : Registers(ops[j], c) => j = i
        BY <4>1 DEF OneRegister
      <4>3. \A j \in 1 .. Len(ops') : Registers(ops'[j], c) => j \in 1 .. Len(ops) /\ Registers(ops[j], c)
        BY <1>1, <3>2
      <4> QED BY <4>2, <4>3
    <3> QED BY <3>1, <3>2
  <2>3. Registers(op, c) => c \notin finished
    BY DEF OneRegister
  <2>4. /\ handler'[c] \in {"none", "callRegister"} =>
             /\ c \notin finished /\ ~Registers(op, c)
             /\ \A i \in 1 .. Len(ops') : ~Registers(ops'[i], c)
        /\ \A i \in 1 .. Len(ops') : Registers(ops'[i], c) =>
             /\ c \notin finished /\ ~Registers(op, c)
             /\ \A j \in 1 .. Len(ops') : Registers(ops'[j], c) => j = i
        /\ Registers(op, c) => c \notin finished
    BY <2>1, <2>2, <2>3 DEF Early
  <2> QED BY <2>4 DEF OneRegister, Registers
<1>3. ASSUME joined[c]
      PROVE  /\ c \in finished /\ handler'[c] \in After
             /\ handler'[c] = "returned" /\ hub = "running" /\ c \in clients =>
                  \E i \in 1 .. Len(ops') : Unregisters(ops'[i], c)
  <2>1. ASSUME handler'[c] = "returned", hub = "running", c \in clients
        PROVE  \E i \in 1 .. Len(ops') : Unregisters(ops'[i], c)
    <3>1. CASE Unregisters(o, c)
      BY <1>1, <3>1
    <3>2. CASE handler[c] = "returned"
      <4>1. PICK i \in 1 .. Len(ops) : Unregisters(ops[i], c)
        BY <1>3, <2>1, <3>2 DEF Leaving
      <4> QED BY <1>1, <4>1
    <3> QED BY <1>3, <2>1, <3>1, <3>2
  <2> QED BY <1>3, <2>1 DEF Leaving
<1> QED BY <1>2, <1>3 DEF Leaving, Unregisters, After

LEMMA TakeOpJoin ==
  ASSUME TypeOK, TakeOp, NEW c \in Conns, OneRegister(c), Leaving(c)
  PROVE  OneRegister(c)' /\ Leaving(c)'
<1>1. /\ ops # <<>> /\ op' = ops[1] /\ ops' = Tail(ops)
      /\ UNCHANGED <<hub, finished, handler, joined>>
  BY DEF TakeOp, connVars, TypeOK
<1>2. /\ Len(ops) \in Nat \ {0} /\ Len(ops') = Len(ops) - 1
      /\ \A i \in 1 .. Len(ops) - 1 : ops'[i] = ops[i + 1]
      /\ ops[1] \in Ops
  BY <1>1, Taken DEF TypeOK
<1>3. OneRegister(c)'
  <2>1. ASSUME handler[c] \in Early
        PROVE  /\ c \notin finished /\ ~Registers(ops[1], c)
               /\ \A i \in 1 .. Len(ops') : ~Registers(ops'[i], c)
    <3>1. c \notin finished /\ \A i \in 1 .. Len(ops) : ~Registers(ops[i], c)
      BY <2>1 DEF OneRegister, Early
    <3> QED BY <1>2, <3>1
  <2>2. ASSUME NEW i \in 1 .. Len(ops'), Registers(ops'[i], c)
        PROVE  /\ c \notin finished /\ ~Registers(ops[1], c)
               /\ \A j \in 1 .. Len(ops') : Registers(ops'[j], c) => j = i
    <3>1. i + 1 \in 1 .. Len(ops) /\ Registers(ops[i + 1], c)
      BY <1>2, <2>2
    <3>2. c \notin finished /\ \A j \in 1 .. Len(ops) : Registers(ops[j], c) => j = i + 1
      BY <3>1 DEF OneRegister
    <3>3. ~Registers(ops[1], c)
      BY <1>2, <3>2
    <3>4. ASSUME NEW j \in 1 .. Len(ops'), Registers(ops'[j], c)
          PROVE  j = i
      <4>1. j + 1 \in 1 .. Len(ops) /\ Registers(ops[j + 1], c)
        BY <1>2, <3>4
      <4>2. j + 1 = i + 1
        BY <3>2, <4>1
      <4> QED BY <4>2, <1>2
    <3> QED BY <3>2, <3>3, <3>4
  <2>3. Registers(ops[1], c) => c \notin finished
    BY <1>2 DEF OneRegister
  <2>4. /\ handler'[c] \in {"none", "callRegister"} =>
             /\ c \notin finished' /\ ~Registers(op', c)
             /\ \A i \in 1 .. Len(ops') : ~Registers(ops'[i], c)
        /\ \A i \in 1 .. Len(ops') : Registers(ops'[i], c) =>
             /\ c \notin finished' /\ ~Registers(op', c)
             /\ \A j \in 1 .. Len(ops') : Registers(ops'[j], c) => j = i
        /\ Registers(op', c) => c \notin finished'
    BY <1>1, <2>1, <2>2, <2>3 DEF Early
  <2> QED BY <2>4 DEF OneRegister, Registers
<1>4. ASSUME joined[c], handler[c] = "returned", hub = "running", c \in clients'
      PROVE  \E i \in 1 .. Len(ops') : Unregisters(ops'[i], c)
  <2>1. ~Registers(ops[1], c)
    BY <1>2, <1>4 DEF Leaving, OneRegister
  <2>2. ops[1] # NoOp
    BY <1>2, ConnLifeAssumption DEF ConnLifeAssumption
  <2>3. c \in clients /\ ~Unregisters(ops[1], c)
    <3>1. \/ ops[1].kind = "register" /\ clients' = clients \cup {ops[1].by}
          \/ ops[1].kind = "unregister" /\ clients' = clients \ {ops[1].by}
          \/ ops[1].kind # "unregister" /\ clients' = clients
      BY <1>1, Taken DEF TakeOp, TypeOK
    <3> QED BY <1>4, <2>1, <2>2, <3>1 DEF Registers, Unregisters
  <2>4. PICK i \in 1 .. Len(ops) : Unregisters(ops[i], c)
    BY <1>4, <2>3 DEF Leaving
  <2>5. i - 1 \in 1 .. Len(ops') /\ ops'[i - 1] = ops[i]
    BY <1>2, <2>3, <2>4
  <2> QED BY <2>4, <2>5
<1>5. Leaving(c)'
  BY <1>1, <1>4 DEF Leaving, Unregisters
<1> QED BY <1>3, <1>5

LEMMA FinishOpJoin ==
  ASSUME TypeOK, FinishOp, NEW c \in Conns, OneRegister(c), Leaving(c)
  PROVE  OneRegister(c)' /\ Leaving(c)'
<1>1. /\ op # NoOp /\ op' = NoOp /\ UNCHANGED <<ops, hub, clients, handler, joined>>
      /\ finished' = IF op.kind \in {"register", "login"} THEN finished \cup {op.by} ELSE finished
  BY DEF FinishOp, connVars
<1>2. op.kind = "login" => op.by # c
  BY <1>1, ConnLifeAssumption DEF ConnLifeAssumption, TypeOK, Ops
<1>3. c \in finished' => c \in finished \/ Registers(op, c)
  BY <1>1, <1>2 DEF Registers
<1>4. ~Registers(op', c)
  BY <1>1 DEF Registers
<1>5. finished \subseteq finished'
  BY <1>1
<1>6. OneRegister(c)'
  BY <1>1, <1>3, <1>4 DEF OneRegister, Registers
<1>7. Leaving(c)'
  BY <1>1, <1>5 DEF Leaving, Unregisters
<1> QED BY <1>6, <1>7

\* A call of post that enters the queue, by a handler or by somebody else.
LEMMA HandlerPosts ==
  ASSUME TypeOK, JoinInv, NEW d \in Conns, NEW kind \in {"register", "unregister", "command"},
         Posted(kind, d), UNCHANGED joined,
         NEW h, handler' = [handler EXCEPT ![d] = h],
         kind = "register" => handler[d] \in Early /\ ~joined[d],
         h \in After \/ (~joined[d] /\ h \notin Early),
         h = "returned" => kind = "unregister"
  PROVE  JoinInv'
<1>1. PICK o \in Ops : o = [kind |-> kind, by |-> d]
  BY DEF Ops
<1>2. ops' = Append(ops, o) /\ UNCHANGED <<op, hub, clients, finished>>
  BY <1>1 DEF Posted
<1>3. o # NoOp
  BY ConnLifeAssumption DEF ConnLifeAssumption
<1>4. ASSUME NEW c \in Conns
      PROVE  OneRegister(c)' /\ Leaving(c)'
  <2>1. OneRegister(c) /\ Leaving(c)
    BY DEF JoinInv
  <2>2. handler'[c] = IF c = d THEN h ELSE handler[c]
    BY DEF TypeOK
  <2>3. /\ Registers(o, c) <=> c = d /\ kind = "register"
        /\ Unregisters(o, c) <=> c = d /\ kind = "unregister"
    BY <1>1, <1>3 DEF Registers, Unregisters
  <2>4. handler'[c] \in Early => handler[c] \in Early /\ ~Registers(o, c)
    BY <2>2, <2>3 DEF Early, After
  <2>5. joined[c] => /\ handler'[c] \in After
                     /\ handler'[c] = "returned" => handler[c] = "returned" \/ Unregisters(o, c)
    BY <2>1, <2>2, <2>3 DEF Leaving, After
  <2> QED BY <1>2, <2>1, <2>3, <2>4, <2>5, LongerQueue
<1> QED BY <1>4 DEF JoinInv

LEMMA OthersPost ==
  ASSUME TypeOK, JoinInv, NEW o \in Ops, o.kind \in {"login", "posted"}, ops' = Append(ops, o),
         UNCHANGED <<op, hub, clients, finished, joined, handler>>
  PROVE  JoinInv'
<1>1. ASSUME NEW c \in Conns
      PROVE  OneRegister(c)' /\ Leaving(c)'
  <2>1. OneRegister(c) /\ Leaving(c)
    BY DEF JoinInv
  <2>2. ~Registers(o, c)
    BY DEF Registers
  <2>3. joined[c] => handler'[c] \in After /\ handler'[c] = handler[c]
    BY <2>1 DEF Leaving, After
  <2> QED BY <2>1, <2>2, <2>3, LongerQueue
<1> QED BY <1>1 DEF JoinInv

\* A step that does not touch the queue, and moves at most one handler: not into
\* its early states, and to its end only if the connection has not joined or the
\* hub is stopped.
LEMMA QuietStep ==
  ASSUME TypeOK, JoinInv, UNCHANGED <<ops, op, clients, finished>>, hub' = hub \/ hub' = "stopped",
         NEW d \in Conns, NEW h, handler' = [handler EXCEPT ![d] = h],
         h \in Early => handler[d] \in Early,
         joined' = joined \/ (d \in finished /\ joined' = [joined EXCEPT ![d] = TRUE]),
         joined'[d] => h \in After /\ (h = "returned" => hub' = "stopped" \/ (joined[d] /\ handler[d] = h))
  PROVE  JoinInv'
<1>1. ASSUME NEW c \in Conns
      PROVE  OneRegister(c)' /\ Leaving(c)'
  <2>1. OneRegister(c) /\ Leaving(c)
    BY DEF JoinInv
  <2>2. handler'[c] = IF c = d THEN h ELSE handler[c]
    BY DEF TypeOK
  <2>3. joined'[c] => joined[c] \/ (c = d /\ c \in finished)
    BY DEF TypeOK
  <2>4. handler'[c] \in Early => handler[c] \in Early
    BY <2>2
  <2>5. joined'[c] => /\ joined[c] \/ c \in finished
                      /\ handler'[c] \in After
                      /\ handler'[c] = "returned" =>
                            hub' = "stopped" \/ (joined[c] /\ handler[c] = "returned")
    BY <2>1, <2>2, <2>3 DEF Leaving, After
  <2> QED BY <2>1, <2>4, <2>5, SameQueue
<1> QED BY <1>1 DEF JoinInv

LEMMA SameHandlers ==
  ASSUME TypeOK, JoinInv, UNCHANGED <<ops, op, clients, finished, handler, joined>>,
         hub' = hub \/ hub' = "stopped"
  PROVE  JoinInv'
<1>1. ASSUME NEW c \in Conns
      PROVE  OneRegister(c)' /\ Leaving(c)'
  BY SameQueue DEF JoinInv, Leaving, After
<1> QED BY <1>1 DEF JoinInv

LEMMA HandlerJoin ==
  ASSUME TypeOK, JoinInv, NEW c \in Conns,
         Accept(c) \/ ReadFrame(c) \/ ReadEnds(c) \/ HandlerStep(c)
  PROVE  JoinInv'
<1>0. joined[c] => handler[c] \in After
  BY DEF JoinInv, Leaving, After
<1>1. CASE Accept(c)
  BY <1>0, <1>1, QuietStep DEF Accept, hubVars, Early, After
<1>2. CASE CallRegister(c)
  <2>1. CASE Stopped /\ Return(c)
    BY <1>0, <1>2, <2>1, QuietStep DEF CallRegister, Stopped, Return, hubVars, Early, After
  <2>2. CASE Posted("register", c) /\ handler' = [handler EXCEPT ![c] = "awaitRegister"]
    BY <1>0, <1>2, <2>2, HandlerPosts DEF CallRegister, Early, After
  <2> QED BY <1>2, <2>1, <2>2 DEF CallRegister
<1>3. CASE AwaitRegister(c)
  <2>1. UNCHANGED hubVars /\ handler[c] = "awaitRegister" /\ ~joined[c]
    BY <1>0, <1>3 DEF AwaitRegister, After
  <2>2. CASE Return(c) /\ UNCHANGED joined
    BY <2>1, <2>2, QuietStep DEF Return, hubVars, Early, After
  <2>3. CASE /\ c \in finished /\ handler' = [handler EXCEPT ![c] = "read"]
             /\ joined' = [joined EXCEPT ![c] = TRUE]
    BY <2>1, <2>3, QuietStep DEF hubVars, Early, After
  <2> QED BY <1>3, <2>2, <2>3 DEF AwaitRegister
<1>4. CASE ReadFrame(c)
  <2>1. PICK h \in {"submit", "read", "kill"} : handler' = [handler EXCEPT ![c] = h]
    BY <1>4 DEF ReadFrame, TypeOK
  <2> QED BY <1>4, <2>1, QuietStep DEF ReadFrame, hubVars, Early, After
<1>5. CASE ReaderKills(c)
  BY <1>5, QuietStep DEF ReaderKills, hubVars, Early, After
<1>6. CASE Submit(c)
  <2>1. CASE Stopped
    BY <1>6, <2>1, QuietStep DEF Submit, Stopped, hubVars, Early, After
  <2>2. CASE Posted("command", c)
    BY <1>6, <2>2, HandlerPosts DEF Submit, Early, After
  <2> QED BY <1>6, <2>1, <2>2 DEF Submit
<1>7. CASE ReadEnds(c)
  BY <1>7, QuietStep DEF ReadEnds, hubVars, Early, After
<1>8. CASE Unregister(c)
  <2>1. CASE Stopped
    BY <1>8, <2>1, QuietStep DEF Unregister, Return, Stopped, hubVars, Early, After
  <2>2. CASE Posted("unregister", c)
    BY <1>8, <2>2, HandlerPosts DEF Unregister, Return, Early, After
  <2> QED BY <1>8, <2>1, <2>2 DEF Unregister
<1> QED BY <1>1, <1>2, <1>3, <1>4, <1>5, <1>6, <1>7, <1>8 DEF HandlerStep

LEMMA StepJoin ==
  ASSUME TypeOK, JoinInv, [Next]_vars
  PROVE  JoinInv'
<1>1. CASE TakeOp
  BY <1>1, TakeOpJoin DEF JoinInv
<1>2. CASE FinishOp
  BY <1>2, FinishOpJoin DEF JoinInv
<1>3. CASE HubEnds
  BY <1>3, SameHandlers DEF HubEnds
<1>4. ASSUME NEW c \in Conns, HubEnqueue(c) \/ HubKills(c)
      PROVE  JoinInv'
  BY <1>4, SameHandlers DEF HubEnqueue, HubKills
<1>5. ASSUME NEW c \in Conns, WriterStep(c) \/ Break(c)
      PROVE  JoinInv'
  BY <1>5, SameHandlers DEF WriterStep, TakeFrame, WriteDone, WriteFails, WriterEnds, Break, hubVars
<1>6. ASSUME NEW l \in Callers, CallLogin(l)
      PROVE  JoinInv'
  <2>1. [kind |-> "login", by |-> l] \in Ops
    BY DEF Ops
  <2>2. UNCHANGED connVars
    BY <1>6 DEF CallLogin
  <2>3. CASE Stopped
    BY <2>2, <2>3, SameHandlers DEF Stopped, hubVars, connVars
  <2>4. CASE Posted("login", l)
    BY <2>1, <2>2, <2>4, OthersPost DEF Posted, connVars
  <2> QED BY <1>6, <2>3, <2>4 DEF CallLogin
<1>7. ASSUME NEW p \in Posters, Post(p)
      PROVE  JoinInv'
  <2>1. [kind |-> "posted", by |-> p] \in Ops
    BY DEF Ops
  <2>2. UNCHANGED connVars
    BY <1>7 DEF Post
  <2>3. CASE Stopped
    BY <2>2, <2>3, SameHandlers DEF Stopped, hubVars, connVars
  <2>4. CASE Posted("posted", p)
    BY <2>1, <2>2, <2>4, OthersPost DEF Posted, connVars
  <2> QED BY <1>7, <2>3, <2>4 DEF Post
<1>8. ASSUME NEW l \in Callers, AwaitLogin(l)
      PROVE  JoinInv'
  BY <1>8, SameHandlers DEF AwaitLogin, hubVars, connVars
<1>9. CASE Shutdown \/ UNCHANGED vars
  BY <1>9, SameHandlers DEF Shutdown, vars, hubVars, connVars
<1> QED BY <1>1, <1>2, <1>3, <1>4, <1>5, <1>6, <1>7, <1>8, <1>9, HandlerJoin DEF Next, HubStep

\* A connection whose Register succeeded has left Hub.clients once its handler
\* is gone and the hub has completed the operations it posted.
THEOREM JoinedLeavesAlways == Spec => []JoinedLeaves
<1>1. Init => JoinInv
  <2>1. ASSUME Init, NEW c \in Conns
        PROVE  OneRegister(c) /\ Leaving(c)
    BY <2>1 DEF Init, OneRegister, Registers, Leaving
  <2> QED BY <2>1 DEF JoinInv
<1>2. TypeOK /\ JoinInv /\ [Next]_vars => JoinInv'
  BY StepJoin
<1>3. TypeOK /\ JoinInv => JoinedLeaves
  <2>1. ASSUME NEW c \in Conns, Leaving(c), hub = "running", joined[c], Gone(c)
        PROVE  c \notin clients
    BY <2>1 DEF Leaving, Gone, Outstanding, Unregisters
  <2> QED BY <2>1 DEF JoinedLeaves, JoinInv
<1> QED BY <1>1, <1>2, <1>3, TypeCorrect, PTL DEF Spec

---------------------------------------------------------------------------
(* The frames of one connection *)

Held(c) == writer[c] = "writing" /\ held[c] # Reply => held[c] = got[c] + 1
Flows(c) == ~killed[c] /\ writer[c] \notin {"doomed", "returned"} => Rising(c) /\ Within(c) /\ Complete(c)

\* A step that does not concern c's frames, except that it may kill it.
LEMMA FramesAside ==
  ASSUME NEW c \in Conns, Streams(c), Top(c)' = Top(c),
         got'[c] = got[c], held'[c] = held[c], buf'[c] = buf[c], writer'[c] = writer[c],
         killed[c] => killed'[c]
  PROVE  Streams(c)'
<1>1. Base(c)' = Base(c)
  BY DEF Base
<1>2. Flows(c)'
  BY <1>1 DEF Streams, Flows, Rising, Within, Complete
<1> QED BY <1>1, <1>2 DEF Streams, Flows

\* A frame enters the buffer: a reply, or the hub's next one.
LEMMA FrameEnters ==
  ASSUME TypeOK, NEW c \in Conns, Streams(c), NEW frame \in Nat, Top(c) \in Nat,
         buf'[c] = Append(buf[c], frame),
         got'[c] = got[c], held'[c] = held[c], writer'[c] = writer[c], killed'[c] = killed[c],
         \/ frame = Reply /\ Top(c)' = Top(c)
         \/ frame = Top(c) + 1 /\ Top(c)' = Top(c) + 1
  PROVE  Streams(c)'
<1>1. Base(c)' = Base(c) /\ Base(c) \in Nat
  BY DEF Base, TypeOK
<1>2. /\ Len(buf[c]) \in Nat /\ Len(buf'[c]) = Len(buf[c]) + 1
      /\ \A i \in 1 .. Len(buf[c]) : buf'[c][i] = buf[c][i] /\ buf[c][i] \in Nat
      /\ buf'[c][Len(buf[c]) + 1] = frame
  BY Appended DEF TypeOK
<1>3. Base(c) <= Top(c) /\ Top(c) <= Top(c)'
  BY DEF Streams
<1>4. ASSUME Rising(c), Within(c), Complete(c)
      PROVE  Rising(c)' /\ Within(c)' /\ Complete(c)'
  <2>1. Rising(c)'
    <3>1. SUFFICES ASSUME NEW i \in 1 .. Len(buf'[c]), NEW j \in 1 .. Len(buf'[c]), i < j,
                          buf'[c][i] # Reply, buf'[c][j] # Reply
                   PROVE  buf'[c][i] < buf'[c][j]
      BY DEF Rising
    <3>2. i \in 1 .. Len(buf[c])
      BY <1>2, <3>1
    <3>3. CASE j \in 1 .. Len(buf[c])
      BY <1>2, <1>4, <3>1, <3>2, <3>3 DEF Rising
    <3>4. CASE j = Len(buf[c]) + 1
      <4>1. frame = Top(c) + 1 /\ buf'[c][i] <= Top(c)
        BY <1>2, <1>4, <3>1, <3>2, <3>4 DEF Within
      <4> QED BY <1>2, <3>2, <3>4, <4>1
    <3> QED BY <1>2, <3>3, <3>4
  <2>2. Within(c)'
    <3>1. SUFFICES ASSUME NEW i \in 1 .. Len(buf'[c]), buf'[c][i] # Reply
                   PROVE  Base(c) < buf'[c][i] /\ buf'[c][i] <= Top(c)'
      BY <1>1 DEF Within
    <3>2. CASE i \in 1 .. Len(buf[c])
      <4>1. Base(c) < buf[c][i] /\ buf[c][i] <= Top(c) /\ buf'[c][i] = buf[c][i] /\ buf[c][i] \in Nat
        BY <1>2, <1>4, <3>1, <3>2 DEF Within
      <4> QED BY <4>1
    <3>3. CASE i = Len(buf[c]) + 1
      BY <1>1, <1>2, <1>3, <3>1, <3>3
    <3> QED BY <1>2, <3>2, <3>3
  <2>3. Complete(c)'
    <3>1. SUFFICES ASSUME NEW v \in Base(c) + 1 .. Top(c)'
                   PROVE  \E i \in 1 .. Len(buf'[c]) : buf'[c][i] = v
      BY <1>1 DEF Complete
    <3>2. CASE v \in Base(c) + 1 .. Top(c)
      <4>1. PICK i \in 1 .. Len(buf[c]) : buf[c][i] = v
        BY <1>4, <3>2 DEF Complete
      <4> QED BY <1>2, <4>1
    <3>3. CASE v \notin Base(c) + 1 .. Top(c)
      <4>1. v = frame
        BY <1>1, <3>1, <3>3
      <4> QED BY <1>2, <4>1
    <3> QED BY <3>2, <3>3
  <2> QED BY <2>1, <2>2, <2>3
<1>5. Base(c)' <= Top(c)'
  BY <1>1, <1>3
<1> QED BY <1>4, <1>5 DEF Streams

\* The writer takes the head of the buffer, in time: it is a reply, or the hub's
\* frame after the last one delivered.
LEMMA FrameLeaves ==
  ASSUME TypeOK, NEW c \in Conns, Streams(c), TakeFrame(c), ~Cancelled(c),
         Top(c) \in Nat, Top(c)' = Top(c)
  PROVE  Streams(c)'
<1> DEFINE b == buf[c]
<1>1. /\ writer[c] = "select" /\ b # <<>> /\ got' = got /\ killed' = killed /\ ~killed[c]
      /\ held'[c] = Head(b) /\ buf'[c] = Tail(b) /\ writer'[c] = "writing"
  BY DEF TakeFrame, TypeOK, Cancelled
<1>2. /\ held'[c] = b[1] /\ b[1] \in Nat /\ Len(b) \in Nat \ {0} /\ Len(buf'[c]) = Len(b) - 1
      /\ \A i \in 1 .. Len(b) - 1 : buf'[c][i] = b[i + 1]
      /\ \A i \in 1 .. Len(b) : b[i] \in Nat
  BY <1>1, Taken DEF TypeOK
<1>3. Rising(c) /\ Within(c) /\ Complete(c) /\ Base(c) = got[c] /\ got[c] \in Nat
  BY <1>1 DEF Streams, Base, TypeOK
<1> HIDE DEF b
<1>4. b[1] # Reply => b[1] = got[c] + 1
  <2>1. SUFFICES ASSUME b[1] # Reply PROVE b[1] = got[c] + 1
    OBVIOUS
  <2>2. got[c] < b[1] /\ b[1] <= Top(c)
    BY <1>2, <1>3, <2>1 DEF Within, b
  <2>3. PICK i \in 1 .. Len(b) : b[i] = got[c] + 1
    <3>1. got[c] + 1 \in got[c] + 1 .. Top(c)
      BY <1>2, <1>3, <2>2
    <3> QED BY <1>3, <3>1 DEF Complete, b
  <2>4. ASSUME i # 1 PROVE FALSE
    <3>1. 1 \in 1 .. Len(b) /\ 1 < i /\ b[i] # Reply
      BY <1>2, <1>3, <2>3, <2>4 DEF Reply
    <3>2. b[1] < b[i]
      BY <1>3, <2>1, <3>1 DEF Rising, b
    <3> QED BY <1>2, <1>3, <2>2, <2>3, <3>2
  <2> QED BY <2>3, <2>4
<1>5. Base(c)' = IF b[1] = Reply THEN got[c] ELSE b[1]
  BY <1>1, <1>2 DEF Base
<1>6. Rising(c)'
  <2>1. SUFFICES ASSUME NEW i \in 1 .. Len(buf'[c]), NEW j \in 1 .. Len(buf'[c]), i < j,
                        buf'[c][i] # Reply, buf'[c][j] # Reply
                 PROVE  buf'[c][i] < buf'[c][j]
    BY DEF Rising
  <2>2. i + 1 \in 1 .. Len(b) /\ j + 1 \in 1 .. Len(b) /\ i + 1 < j + 1
        /\ buf'[c][i] = b[i + 1] /\ buf'[c][j] = b[j + 1]
    BY <1>2, <2>1
  <2> QED BY <1>3, <2>1, <2>2 DEF Rising, b
<1>7. Within(c)'
  <2>1. SUFFICES ASSUME NEW i \in 1 .. Len(buf'[c]), buf'[c][i] # Reply
                 PROVE  Base(c)' < buf'[c][i] /\ buf'[c][i] <= Top(c)
    BY DEF Within
  <2>2. i + 1 \in 1 .. Len(b) /\ 1 < i + 1 /\ 1 \in 1 .. Len(b) /\ buf'[c][i] = b[i + 1]
    BY <1>2, <2>1
  <2>3. got[c] < b[i + 1] /\ b[i + 1] <= Top(c)
    BY <1>3, <2>1, <2>2 DEF Within, b
  <2>4. b[1] # Reply => b[1] < b[i + 1]
    BY <1>3, <2>1, <2>2 DEF Rising, b
  <2> QED BY <1>5, <2>2, <2>3, <2>4
<1>8. Complete(c)'
  <2>1. SUFFICES ASSUME NEW v \in Base(c)' + 1 .. Top(c)
                 PROVE  \E i \in 1 .. Len(buf'[c]) : buf'[c][i] = v
    BY DEF Complete
  <2>2. v \in got[c] + 1 .. Top(c) /\ v # b[1]
    BY <1>2, <1>3, <1>4, <1>5, <2>1 DEF Reply
  <2>3. PICK i \in 1 .. Len(b) : b[i] = v
    BY <1>3, <2>2 DEF Complete, b
  <2>4. i - 1 \in 1 .. Len(buf'[c]) /\ buf'[c][i - 1] = b[i]
    BY <1>2, <2>2, <2>3
  <2> QED BY <2>3, <2>4
<1>9. Held(c)'
  BY <1>1, <1>2, <1>4 DEF Held
<1>10. Base(c)' <= Top(c)
  BY <1>2, <1>3, <1>5 DEF Streams, Within, b
<1> QED BY <1>6, <1>7, <1>8, <1>9, <1>10 DEF Streams, Held

\* A step of the hub and the handlers that puts no frame in any buffer and
\* starts no writer.
LEMMA StreamAside ==
  ASSUME TypeOK, StreamInv, UNCHANGED <<slow, sent, got, held, buf, writer>>,
         \A c \in Conns : killed[c] => killed'[c],
         \A c \in Conns : handler'[c] = "none" => handler[c] = "none"
  PROVE  StreamInv'
<1>1. ASSUME NEW c \in Conns
      PROVE  Streams(c)' /\ (handler'[c] = "none" => writer'[c] = "none")
  <2>1. Top(c)' = Top(c)
    BY DEF Top
  <2> QED BY <2>1, FramesAside DEF StreamInv
<1> QED BY <1>1 DEF StreamInv

LEMMA TopType ==
  ASSUME TypeOK, NEW c \in Conns, Streams(c)
  PROVE  Top(c) \in Nat
<1>1. Base(c) \in Nat /\ Base(c) <= Top(c) /\ Top(c) \in Int
  BY DEF Base, Top, Streams, TypeOK
<1> QED BY <1>1

LEMMA HubStepStream ==
  ASSUME TypeOK, StreamInv, HubStep
  PROVE  StreamInv'
<1>1. CASE TakeOp \/ FinishOp
  BY <1>1, StreamAside DEF TakeOp, FinishOp, connVars
<1>2. CASE HubEnds
  <2>1. \A c \in Conns : killed[c] => killed'[c]
    BY <1>2 DEF HubEnds
  <2> QED BY <1>2, <2>1, StreamAside DEF HubEnds
<1>3. ASSUME NEW d \in Conns, HubEnqueue(d)
      PROVE  StreamInv'
  <2>1. /\ slow = {} /\ UNCHANGED <<handler, writer, held, killed, got>>
        /\ \A c \in Conns : sent'[c] = IF c = d THEN sent[c] + 1 ELSE sent[c]
        /\ \/ queue(d, sent[d] + 1) /\ slow' = {}
           \/ buf' = buf /\ slow' = {d}
    BY <1>3 DEF HubEnqueue, drop, TypeOK
  <2>2. ASSUME NEW c \in Conns, c # d
        PROVE  Streams(c)'
    <3>1. buf'[c] = buf[c]
      BY <2>1, <2>2 DEF queue, TypeOK
    <3>2. Top(c)' = Top(c)
      BY <2>1, <2>2 DEF Top
    <3> QED BY <2>1, <3>1, <3>2, FramesAside DEF StreamInv
  <2>3. Streams(d)'
    <3>1. CASE queue(d, sent[d] + 1) /\ slow' = {}
      <4>1. Top(d) = sent[d] /\ Top(d)' = sent[d] + 1 /\ sent[d] \in Nat /\ sent[d] + 1 \in Nat
        BY <2>1, <3>1 DEF Top, TypeOK
      <4>2. buf'[d] = Append(buf[d], sent[d] + 1)
        BY <3>1 DEF queue, TypeOK
      <4> QED BY <2>1, <4>1, <4>2, FrameEnters DEF StreamInv
    <3>2. CASE buf' = buf /\ slow' = {d}
      <4>1. sent[d] \in Nat /\ sent'[d] = sent[d] + 1 /\ d \notin slow /\ d \in slow'
        BY <2>1, <3>2 DEF TypeOK
      <4>2. Top(d)' = Top(d)
        BY <4>1 DEF Top
      <4> QED BY <2>1, <3>2, <4>2, FramesAside DEF StreamInv
    <3> QED BY <2>1, <3>1, <3>2
  <2>4. \A c, e \in slow' : c = e
    BY <2>1
  <2> QED BY <2>1, <2>2, <2>3, <2>4 DEF StreamInv
<1>4. ASSUME NEW d \in Conns, HubKills(d)
      PROVE  StreamInv'
  <2>1. /\ d \in slow /\ slow' = {} /\ UNCHANGED <<handler, writer, held, sent, buf, got>>
        /\ \A c \in Conns : killed'[c] = IF c = d THEN TRUE ELSE killed[c]
    BY <1>4 DEF HubKills, kill, TypeOK
  <2>2. ASSUME NEW c \in Conns, c # d
        PROVE  Streams(c)'
    <3>1. c \notin slow
      BY <2>1, <2>2 DEF StreamInv
    <3>2. Top(c)' = Top(c)
      BY <2>1, <3>1 DEF Top
    <3> QED BY <2>1, <2>2, <3>2, FramesAside DEF StreamInv
  <2>3. Streams(d)'
    <3>1. Base(d)' = Base(d) /\ Base(d) \in Nat /\ Top(d) <= Top(d)' /\ Top(d) \in Int /\ Top(d)' \in Int
      BY <2>1 DEF Base, Top, TypeOK
    <3>2. Base(d)' <= Top(d)'
      BY <3>1 DEF StreamInv, Streams
    <3> QED BY <2>1, <3>2 DEF StreamInv, Streams
  <2> QED BY <2>1, <2>2, <2>3 DEF StreamInv
<1> QED BY <1>1, <1>2, <1>3, <1>4 DEF HubStep

LEMMA HandlerStream ==
  ASSUME TypeOK, StreamInv, NEW d \in Conns,
         Accept(d) \/ ReadFrame(d) \/ ReadEnds(d) \/ Break(d) \/ HandlerStep(d)
  PROVE  StreamInv'
<1>1. CASE Accept(d)
  <2>1. /\ UNCHANGED <<slow, sent, got, held, buf, killed>> /\ handler[d] = "none"
        /\ writer'[d] = "select" /\ handler'[d] = "callRegister"
        /\ \A c \in Conns : c # d => writer'[c] = writer[c] /\ handler'[c] = handler[c]
    <3>1. /\ UNCHANGED <<slow, sent, got, held, buf, killed>> /\ handler[d] = "none"
          /\ writer' = [writer EXCEPT ![d] = "select"]
          /\ handler' = [handler EXCEPT ![d] = "callRegister"]
      BY <1>1 DEF Accept, hubVars
    <3> QED BY <3>1 DEF TypeOK
  <2>2. ASSUME NEW c \in Conns
        PROVE  Streams(c)' /\ (handler'[c] = "none" => writer'[c] = "none")
    <3>1. Top(c)' = Top(c)
      BY <2>1 DEF Top
    <3>2. CASE c = d
      <4>1. writer[c] = "none" /\ writer'[c] = "select" /\ Base(c)' = Base(c)
        BY <2>1, <3>2 DEF StreamInv, Base
      <4>2. /\ Rising(c) => Rising(c)'
            /\ Within(c) => Within(c)'
            /\ Complete(c) => Complete(c)'
        BY <2>1, <3>1, <4>1 DEF Rising, Within, Complete
      <4>3. Streams(c) /\ killed' = killed
        BY <2>1 DEF StreamInv
      <4>4. Streams(c)'
        BY <3>1, <4>1, <4>2, <4>3 DEF Streams
      <4> QED BY <2>1, <3>2, <4>4
    <3>3. CASE c # d
      BY <2>1, <3>1, <3>3, FramesAside DEF StreamInv
    <3> QED BY <3>2, <3>3
  <2> QED BY <2>1, <2>2 DEF StreamInv
<1>2. CASE ReadFrame(d)
  <2>1. UNCHANGED <<slow, sent, got, held, writer, killed>>
        /\ \A c \in Conns : handler'[c] = "none" => handler[c] = "none"
    BY <1>2 DEF ReadFrame, hubVars, TypeOK
  <2>2. CASE buf' = buf
    BY <2>1, <2>2, StreamAside
  <2>3. CASE queue(d, Reply)
    <3>1. ASSUME NEW c \in Conns
          PROVE  Streams(c)'
      <4>1. Top(c)' = Top(c) /\ Top(c) \in Nat
        BY <2>1, TopType DEF Top, StreamInv
      <4>2. buf'[c] = IF c = d THEN Append(buf[c], Reply) ELSE buf[c]
        BY <2>3 DEF queue, TypeOK
      <4>3. CASE c = d
        <5>1. Reply \in Nat
          BY DEF Reply
        <5> QED BY <2>1, <4>1, <4>2, <4>3, <5>1, FrameEnters DEF StreamInv
      <4>4. CASE c # d
        BY <2>1, <4>1, <4>2, <4>4, FramesAside DEF StreamInv
      <4> QED BY <4>3, <4>4
    <3> QED BY <2>1, <3>1 DEF StreamInv
  <2> QED BY <1>2, <2>2, <2>3 DEF ReadFrame, drop
<1>3. CASE CallRegister(d)
  BY <1>3, StreamAside DEF CallRegister, Return, kill, Posted, Stopped, hubVars, TypeOK
<1>4. CASE AwaitRegister(d)
  BY <1>4, StreamAside DEF AwaitRegister, Return, kill, hubVars, TypeOK
<1>5. CASE ReadEnds(d)
  BY <1>5, StreamAside DEF ReadEnds, kill, hubVars, TypeOK
<1>6. CASE ReaderKills(d)
  BY <1>6, StreamAside DEF ReaderKills, kill, hubVars, TypeOK
<1>7. CASE Submit(d)
  BY <1>7, StreamAside DEF Submit, Posted, Stopped, hubVars, TypeOK
<1>8. CASE Unregister(d)
  BY <1>8, StreamAside DEF Unregister, Return, kill, Posted, Stopped, hubVars, TypeOK
<1>9. CASE Break(d)
  BY <1>9, StreamAside DEF Break, hubVars
<1> QED BY <1>1, <1>2, <1>3, <1>4, <1>5, <1>6, <1>7, <1>8, <1>9 DEF HandlerStep

LEMMA WriterStream ==
  ASSUME TypeOK, StreamInv, NEW d \in Conns, WriterStep(d)
  PROVE  StreamInv'
<1>1. /\ UNCHANGED <<slow, sent, handler>> /\ writer[d] # "none"
      /\ \A c \in Conns : c # d => /\ got'[c] = got[c] /\ held'[c] = held[c] /\ buf'[c] = buf[c]
                                   /\ writer'[c] = writer[c] /\ killed'[c] = killed[c]
  BY DEF WriterStep, TakeFrame, WriteDone, WriteFails, WriterEnds, kill, hubVars, TypeOK
<1>2. \A c \in Conns : Top(c)' = Top(c)
  BY <1>1 DEF Top
<1>3. ASSUME NEW c \in Conns, c # d
      PROVE  Streams(c)'
  BY <1>1, <1>2, <1>3, FramesAside DEF StreamInv
<1>4. Streams(d)'
  <2>0. Streams(d) /\ Top(d) \in Nat /\ Top(d)' = Top(d) /\ got[d] \in Nat /\ held[d] \in Nat
    BY <1>2, TopType DEF StreamInv, TypeOK
  <2>1. CASE TakeFrame(d) /\ ~Cancelled(d)
    BY <2>0, <2>1, FrameLeaves
  <2>2. CASE TakeFrame(d) /\ Cancelled(d)
    <3>1. writer[d] = "select" /\ writer'[d] = "doomed" /\ got'[d] = got[d]
      BY <2>2 DEF TakeFrame, TypeOK
    <3>2. Base(d) = got[d] /\ Base(d)' = got[d]
      BY <3>1 DEF Base
    <3> QED BY <2>0, <3>1, <3>2 DEF Streams
  <2>3. CASE WriteDone(d)
    <3>1. /\ writer[d] = "writing" /\ writer'[d] = "select" /\ buf' = buf /\ killed' = killed
          /\ got'[d] = IF held[d] = Reply THEN got[d] ELSE held[d]
      BY <2>3 DEF WriteDone, TypeOK
    <3>2. Base(d)' = Base(d)
      BY <3>1 DEF Base
    <3>3. /\ Rising(d) => Rising(d)'
          /\ Within(d) => Within(d)'
          /\ Complete(d) => Complete(d)'
      BY <2>0, <3>1, <3>2 DEF Rising, Within, Complete
    <3> QED BY <2>0, <3>1, <3>2, <3>3 DEF Streams
  <2>4. CASE WriteFails(d) \/ WriterEnds(d)
    <3>1. writer'[d] = "returned" /\ got'[d] = got[d]
      BY <2>4 DEF WriteFails, WriterEnds, TypeOK
    <3>2. Base(d)' <= Base(d) /\ Base(d)' \in Nat /\ Base(d) \in Nat
      BY <2>0, <3>1 DEF Base, Streams
    <3>3. Base(d)' <= Top(d)'
      BY <2>0, <3>2 DEF Streams
    <3> QED BY <3>1, <3>3 DEF Streams
  <2> QED BY <2>1, <2>2, <2>3, <2>4 DEF WriterStep
<1> QED BY <1>1, <1>3, <1>4 DEF StreamInv

LEMMA StepStream ==
  ASSUME TypeOK, StreamInv, [Next]_vars
  PROVE  StreamInv'
<1>1. ASSUME NEW l \in Callers, CallLogin(l) \/ AwaitLogin(l)
      PROVE  StreamInv'
  BY <1>1, StreamAside DEF CallLogin, AwaitLogin, Posted, Stopped, hubVars, connVars
<1>2. ASSUME NEW p \in Posters, Post(p)
      PROVE  StreamInv'
  BY <1>2, StreamAside DEF Post, Posted, Stopped, hubVars, connVars
<1>3. CASE Shutdown \/ UNCHANGED vars
  BY <1>3, StreamAside DEF Shutdown, vars, hubVars, connVars
<1> QED BY <1>1, <1>2, <1>3, HubStepStream, HandlerStream, WriterStream DEF Next

\* Only a write that completes delivers a frame.
LEMMA OnlyWrites ==
  ASSUME TypeOK, [Next]_vars, NEW c \in Conns, got'[c] # got[c]
  PROVE  WriteDone(c)
<1>1. CASE HubStep
  BY <1>1 DEF HubStep, TakeOp, FinishOp, HubEnds, HubEnqueue, HubKills, connVars
<1>2. ASSUME NEW d \in Conns,
             Accept(d) \/ ReadFrame(d) \/ ReadEnds(d) \/ Break(d) \/ HandlerStep(d)
      PROVE  FALSE
  BY <1>2 DEF HandlerStep, Accept, ReadFrame, ReadEnds, Break, CallRegister, AwaitRegister, Submit,
              ReaderKills, Unregister
<1>3. ASSUME NEW d \in Conns, WriterStep(d)
      PROVE  WriteDone(c)
  BY <1>3 DEF WriterStep, TakeFrame, WriteDone, WriteFails, WriterEnds, TypeOK
<1>4. ASSUME NEW l \in Callers, CallLogin(l) \/ AwaitLogin(l)
      PROVE  FALSE
  BY <1>4 DEF CallLogin, AwaitLogin, connVars
<1>5. ASSUME NEW p \in Posters, Post(p)
      PROVE  FALSE
  BY <1>5 DEF Post, connVars
<1>6. CASE Shutdown \/ UNCHANGED vars
  BY <1>6 DEF Shutdown, vars, connVars
<1> QED BY <1>1, <1>2, <1>3, <1>4, <1>5, <1>6 DEF Next

\* A client receives the hub's frames one after the other without a hole.
THEOREM DeliversPrefixAlways == Spec => DeliversPrefix
<1>1. Init => StreamInv
  <2>1. ASSUME Init, NEW c \in Conns
        PROVE  Streams(c) /\ writer[c] = "none"
    <3>1. /\ got[c] = 0 /\ sent[c] = 0 /\ slow = {} /\ buf[c] = <<>> /\ writer[c] = "none"
      BY <2>1 DEF Init
    <3>2. Base(c) = 0 /\ Top(c) = 0 /\ Len(buf[c]) = 0
      BY <3>1 DEF Base, Top
    <3>3. Rising(c) /\ Within(c) /\ Complete(c)
      BY <3>2 DEF Rising, Within, Complete
    <3> QED BY <3>1, <3>2, <3>3 DEF Streams
  <2>2. Init => slow = {}
    BY DEF Init
  <2> QED BY <2>1, <2>2 DEF StreamInv
<1>2. TypeOK /\ StreamInv /\ [Next]_vars => StreamInv'
  BY StepStream
<1>3. TypeOK /\ StreamInv /\ [Next]_vars => [\A c \in Conns : got'[c] # got[c] => got'[c] = got[c] + 1]_vars
  <2>1. ASSUME TypeOK, StreamInv, [Next]_vars, NEW c \in Conns, got'[c] # got[c]
        PROVE  got'[c] = got[c] + 1
    <3>1. WriteDone(c)
      BY <2>1, OnlyWrites
    <3> QED BY <2>1, <3>1 DEF WriteDone, StreamInv, Streams, TypeOK
  <2> QED BY <2>1
<1> QED BY <1>1, <1>2, <1>3, TypeCorrect, PTL DEF Spec, DeliversPrefix
=============================================================================

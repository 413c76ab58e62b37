-------------------------------- MODULE ConnLife --------------------------------
(***************************************************************************)
(* The goroutines around the hub: for each WebSocket the handler that      *)
(* becomes its reader (handleWS, readLoop) and its writer (writeLoop), the *)
(* HTTP handlers that wait for the hub (Login), and the timers and the     *)
(* calendar goroutine that only post to it.  They meet at the hub's queue  *)
(* of operations, at a connection's send buffer and at the contexts that   *)
(* cancel them (internal/server/hub.go, ws.go, server.go).                 *)
(*                                                                         *)
(* An operation is known by its kind and by the connection or caller it is *)
(* for; what it changes on the board does not matter here, only how many   *)
(* frames it queues and for whom.  The hub's frames are numbered per       *)
(* connection in the order in which they are handed to enqueue, dropped    *)
(* ones included; what the reader answers on its own is Reply.             *)
(***************************************************************************)
EXTENDS Integers, Sequences, FiniteSets

CONSTANTS Conns,        \* WebSocket connections, one lifetime each
          Callers,      \* requests that call the hub and wait (Login)
          Posters,      \* goroutines that post once: move timers, createMeetings
          QueueCap,     \* capacity of Hub.ops (256)
          SendBuffer,   \* frames a connection queues
          MaxCmds,      \* bound on the frames the clients send
          NoOp

VARIABLES
  ops, op, owed,            \* Hub.ops, the running operation and the frames it still queues
  slow,                     \* the connection whose frame the hub has just dropped
  hub, shut,                \* "running" or "stopped"; the server's context is cancelled
  clients,                  \* Hub.clients
  finished,                 \* the calls whose `finished' is closed
  handler, writer, held,    \* program counters; the frame the writer has in hand
  killed, broken,           \* conn.cancel was called; the network or the peer is gone
  sent, buf, got,           \* the hub's frames so far, conn.send, the last of them delivered
  cmds, joined,             \* frames read so far; Register returned nil (history)
  caller, poster

hubVars    == <<ops, op, owed, slow, hub, clients, finished>>
connVars   == <<handler, writer, held, killed, broken, sent, buf, got, cmds, joined>>
othersVars == <<caller, poster>>
vars       == <<hubVars, shut, connVars, othersVars>>

Reply == 0
Ops == [kind : {"register", "unregister", "command"}, by : Conns]
         \cup [kind : {"login"}, by : Callers] \cup [kind : {"posted"}, by : Posters]

ASSUME ConnLifeAssumption ==
  /\ Conns \cap Callers = {} /\ NoOp \notin Ops
  /\ QueueCap \in Nat /\ SendBuffer \in Nat /\ MaxCmds \in Nat

\* A connection's context: done once the connection is killed or the server is.
Cancelled(c) == killed[c] \/ shut

Init ==
  /\ ops = <<>> /\ op = NoOp /\ owed = [c \in Conns |-> 0] /\ slow = {}
  /\ hub = "running" /\ shut = FALSE
  /\ clients = {} /\ finished = {}
  /\ handler = [c \in Conns |-> "none"]
  /\ writer = [c \in Conns |-> "none"] /\ held = [c \in Conns |-> 0]
  /\ killed = [c \in Conns |-> FALSE] /\ broken = [c \in Conns |-> FALSE]
  /\ sent = [c \in Conns |-> 0] /\ buf = [c \in Conns |-> <<>>] /\ got = [c \in Conns |-> 0]
  /\ cmds = 0 /\ joined = [c \in Conns |-> FALSE]
  /\ caller = [l \in Callers |-> "idle"] /\ poster = [p \in Posters |-> "idle"]

---------------------------------------------------------------------------
(* enqueue and kill *)

kill(c) == killed' = [killed EXCEPT ![c] = TRUE]

Full(c) == Len(buf[c]) = SendBuffer

\* The two outcomes of enqueue's select, which never blocks: the frame is
\* queued, or it is lost, and then its sender goes on to kill the connection.
queue(c, frame) == ~Full(c) /\ buf' = [buf EXCEPT ![c] = Append(@, frame)]
drop(c) == Full(c) /\ UNCHANGED buf

---------------------------------------------------------------------------
(* post and call *)

\* post: the operation enters the queue, or the hub has stopped.  With room
\* in the queue of a stopped hub, select may choose either.
Posted(kind, by) ==
  /\ Len(ops) < QueueCap
  /\ ops' = Append(ops, [kind |-> kind, by |-> by])
  /\ UNCHANGED <<op, owed, slow, hub, clients, finished>>
Stopped == hub = "stopped" /\ UNCHANGED hubVars

---------------------------------------------------------------------------
(* handleWS and readLoop *)

\* The upgrade succeeded: the writer starts and Register is called.
Accept(c) ==
  /\ handler[c] = "none"
  /\ handler' = [handler EXCEPT ![c] = "callRegister"]
  /\ writer' = [writer EXCEPT ![c] = "select"]
  /\ UNCHANGED <<hubVars, shut, held, killed, broken, sent, buf, got, cmds, joined, othersVars>>

\* handleWS returns: its deferred kill runs.
Return(c) == handler' = [handler EXCEPT ![c] = "returned"] /\ kill(c)

CallRegister(c) ==
  /\ handler[c] = "callRegister"
  /\ \/ /\ Posted("register", c)
        /\ handler' = [handler EXCEPT ![c] = "awaitRegister"]
        /\ UNCHANGED killed
     \/ Stopped /\ Return(c)
  /\ UNCHANGED <<shut, writer, held, broken, sent, buf, got, cmds, joined, othersVars>>

\* The select in call: the operation is finished, the hub stopped, or the
\* context is done.  After an error handleWS returns before its deferred
\* Unregister is in place; so it does when Register could not load the user.
AwaitRegister(c) ==
  /\ handler[c] = "awaitRegister"
  /\ \/ /\ c \in finished
        /\ \/ /\ c \in clients
              /\ handler' = [handler EXCEPT ![c] = "read"] /\ UNCHANGED killed
              /\ joined' = [joined EXCEPT ![c] = TRUE]
           \/ c \notin clients /\ Return(c) /\ UNCHANGED joined
     \/ /\ hub = "stopped" \/ Cancelled(c)
        /\ Return(c) /\ UNCHANGED joined
  /\ UNCHANGED <<hubVars, shut, writer, held, broken, sent, buf, got, cmds, othersVars>>

\* A frame from the client: a command to submit, or one answered on the spot
\* (a ping, a malformed frame, a rate limit warning).
ReadFrame(c) ==
  /\ handler[c] = "read" /\ ~Cancelled(c) /\ ~broken[c]
  /\ cmds < MaxCmds /\ cmds' = cmds + 1
  /\ \/ handler' = [handler EXCEPT ![c] = "submit"] /\ UNCHANGED buf
     \/ queue(c, Reply) /\ UNCHANGED handler
     \/ drop(c) /\ handler' = [handler EXCEPT ![c] = "kill"]
  /\ UNCHANGED <<hubVars, shut, writer, held, killed, broken, sent, got, joined, othersVars>>

\* ... and its answer did not fit.
ReaderKills(c) ==
  /\ handler[c] = "kill" /\ kill(c)
  /\ handler' = [handler EXCEPT ![c] = "read"]
  /\ UNCHANGED <<hubVars, shut, writer, held, broken, sent, buf, got, cmds, joined, othersVars>>

\* Submit ignores that the hub has stopped.
Submit(c) ==
  /\ handler[c] = "submit"
  /\ Posted("command", c) \/ Stopped
  /\ handler' = [handler EXCEPT ![c] = "read"]
  /\ UNCHANGED <<shut, writer, held, killed, broken, sent, buf, got, cmds, joined, othersVars>>

\* Read fails, or the client sent too many frames and is killed for it.
ReadEnds(c) ==
  /\ handler[c] = "read"
  /\ \/ (Cancelled(c) \/ broken[c]) /\ UNCHANGED <<cmds, killed>>
     \/ cmds < MaxCmds /\ cmds' = cmds + 1 /\ kill(c)
  /\ handler' = [handler EXCEPT ![c] = "unregister"]
  /\ UNCHANGED <<hubVars, shut, writer, held, broken, sent, buf, got, joined, othersVars>>

UnregisterOrSkip(c) ==                                \* mutant: a send that never blocks
  /\ handler[c] = "unregister"
  /\ Posted("unregister", c) \/ Stopped \/ (Len(ops) = QueueCap /\ UNCHANGED hubVars)
  /\ Return(c)
  /\ UNCHANGED <<shut, writer, held, broken, sent, buf, got, cmds, joined, othersVars>>

UnregisterBlocks(c) ==                                 \* mutant: post without h.done
  /\ handler[c] = "unregister"
  /\ Posted("unregister", c)
  /\ Return(c)
  /\ UNCHANGED <<shut, writer, held, broken, sent, buf, got, cmds, joined, othersVars>>

\* The deferred Unregister, then the deferred kill.
Unregister(c) ==
  /\ handler[c] = "unregister"
  /\ Posted("unregister", c) \/ Stopped
  /\ Return(c)
  /\ UNCHANGED <<shut, writer, held, broken, sent, buf, got, cmds, joined, othersVars>>

---------------------------------------------------------------------------
(* writeLoop *)

\* select took a frame, maybe with the context already done.  Write checks
\* the context first: a frame taken too late is never sent ("doomed").
TakeFrame(c) ==
  /\ writer[c] = "select" /\ buf[c] # <<>>
  /\ held' = [held EXCEPT ![c] = Head(buf[c])]
  /\ buf' = [buf EXCEPT ![c] = Tail(@)]
  /\ writer' = [writer EXCEPT ![c] = IF Cancelled(c) THEN "doomed" ELSE "writing"]
  /\ UNCHANGED <<hubVars, shut, handler, killed, broken, sent, got, cmds, joined, othersVars>>

WriteDone(c) ==
  /\ writer[c] = "writing" /\ ~broken[c]
  /\ got' = [got EXCEPT ![c] = IF held[c] = Reply THEN @ ELSE held[c]]
  /\ held' = [held EXCEPT ![c] = 0]
  /\ writer' = [writer EXCEPT ![c] = "select"]
  /\ UNCHANGED <<hubVars, shut, handler, killed, broken, sent, buf, cmds, joined, othersVars>>

\* A write or a ping fails, on a broken socket (which includes a peer so slow
\* that writeTimeout passes) or because the context is done.
WriteFails(c) ==
  /\ \/ writer[c] = "doomed"
     \/ writer[c] = "writing" /\ (broken[c] \/ Cancelled(c))
     \/ writer[c] = "select" /\ broken[c]
  /\ kill(c)
  /\ held' = [held EXCEPT ![c] = 0]
  /\ writer' = [writer EXCEPT ![c] = "returned"]
  /\ UNCHANGED <<hubVars, shut, handler, broken, sent, buf, got, cmds, joined, othersVars>>

\* <-ctx.Done()
WriterEnds(c) ==
  /\ writer[c] = "select" /\ Cancelled(c)
  /\ writer' = [writer EXCEPT ![c] = "returned"]
  /\ UNCHANGED <<hubVars, shut, handler, held, killed, broken, sent, buf, got, cmds, joined, othersVars>>

---------------------------------------------------------------------------
(* Those who wait for the hub, and those who only post *)

CallLogin(l) ==
  /\ caller[l] = "idle"
  /\ \/ Posted("login", l) /\ caller' = [caller EXCEPT ![l] = "await"]
     \/ Stopped /\ caller' = [caller EXCEPT ![l] = "returned"]
  /\ UNCHANGED <<shut, connVars, poster>>

AwaitLoginFinished(l) ==                              \* mutant: call without h.done
  /\ caller[l] = "await" /\ l \in finished
  /\ caller' = [caller EXCEPT ![l] = "returned"]
  /\ UNCHANGED <<hubVars, shut, connVars, poster>>

\* Login's answer, or the hub stopped.  That the request is abandoned, which
\* also ends the wait, is left out: it is not certain to happen.
AwaitLogin(l) ==
  /\ caller[l] = "await" /\ (l \in finished \/ hub = "stopped")
  /\ caller' = [caller EXCEPT ![l] = "returned"]
  /\ UNCHANGED <<hubVars, shut, connVars, poster>>

Post(p) ==
  /\ poster[p] = "idle"
  /\ Posted("posted", p) \/ Stopped
  /\ poster' = [poster EXCEPT ![p] = "returned"]
  /\ UNCHANGED <<shut, connVars, caller>>

---------------------------------------------------------------------------
(* Hub.run *)

\* What the operation will enqueue: Register a hello and a snapshot, a commit
\* one event for every client, a command also its answer.  Nothing is
\* committed, and nobody registered, once the hub's context is done: every
\* query fails.
TakeOp ==
  /\ hub = "running" /\ op = NoOp /\ ops # <<>>
  /\ op' = Head(ops) /\ ops' = Tail(ops)
  /\ LET o == Head(ops)
         event == [c \in Conns |-> IF c \in clients THEN 1 ELSE 0]
     IN  \/ /\ o.kind = "register" /\ ~shut
            /\ clients' = clients \cup {o.by}
            /\ owed' = [owed EXCEPT ![o.by] = 2]
         \/ /\ o.kind = "register" /\ shut
            /\ UNCHANGED <<clients, owed>>
         \/ /\ o.kind = "unregister"
            /\ clients' = clients \ {o.by} /\ UNCHANGED owed
         \/ /\ o.kind = "command"
            /\ \/ owed' = [owed EXCEPT ![o.by] = 1]
               \/ ~shut /\ owed' = [event EXCEPT ![o.by] = @ + 1]
            /\ UNCHANGED clients
         \/ /\ o.kind \in {"login", "posted"}
            /\ UNCHANGED owed \/ (~shut /\ owed' = event)
            /\ UNCHANGED clients
  /\ UNCHANGED <<slow, hub, shut, finished, connVars, othersVars>>

\* The running operation enqueues its next frame for c.
HubEnqueue(c) ==
  /\ slow = {} /\ owed[c] > 0 /\ owed' = [owed EXCEPT ![c] = @ - 1]
  /\ sent' = [sent EXCEPT ![c] = @ + 1]
  /\ \/ queue(c, sent[c] + 1) /\ UNCHANGED slow
     \/ drop(c) /\ slow' = {c}
  /\ UNCHANGED <<ops, op, hub, shut, clients, finished, handler, writer, held, killed, broken, got, cmds, joined, othersVars>>

HubForgives(c) ==                                     \* mutant: enqueue only drops
  /\ c \in slow /\ slow' = {}
  /\ UNCHANGED <<ops, op, owed, hub, shut, clients, finished, connVars, othersVars>>

HubKills(c) ==
  /\ c \in slow /\ slow' = {}
  /\ kill(c)
  /\ UNCHANGED <<ops, op, owed, hub, shut, clients, finished, handler, writer, held, broken, sent, buf, got, cmds, joined, othersVars>>

FinishOp ==
  /\ op # NoOp /\ slow = {} /\ \A c \in Conns : owed[c] = 0
  /\ op' = NoOp
  /\ finished' = IF op.kind \in {"register", "login"} THEN finished \cup {op.by} ELSE finished
  /\ UNCHANGED <<ops, owed, slow, hub, shut, clients, connVars, othersVars>>

\* <-h.ctx.Done(): every client is killed, then done is closed.
HubEnds ==
  /\ hub = "running" /\ op = NoOp /\ shut
  /\ killed' = [c \in Conns |-> killed[c] \/ c \in clients]
  /\ hub' = "stopped"
  /\ UNCHANGED <<ops, op, owed, slow, shut, clients, finished, handler, writer, held, broken, sent, buf, got, cmds, joined, othersVars>>

---------------------------------------------------------------------------
(* The outside world *)

Break(c) ==
  /\ handler[c] # "none" /\ ~broken[c]
  /\ broken' = [broken EXCEPT ![c] = TRUE]
  /\ UNCHANGED <<hubVars, shut, handler, writer, held, killed, sent, buf, got, cmds, joined, othersVars>>

\* Server.Close.
Shutdown ==
  /\ ~shut /\ shut' = TRUE
  /\ UNCHANGED <<hubVars, connVars, othersVars>>

---------------------------------------------------------------------------
HubStep == TakeOp \/ FinishOp \/ HubEnds \/ \E c \in Conns : HubEnqueue(c) \/ HubKills(c)

\* What the handler does without waiting for its client.
HandlerStep(c) == CallRegister(c) \/ AwaitRegister(c) \/ Submit(c) \/ ReaderKills(c) \/ Unregister(c)
                  \/ (ReadEnds(c) /\ (Cancelled(c) \/ broken[c]))
WriterStep(c) == TakeFrame(c) \/ WriteDone(c) \/ WriteFails(c) \/ WriterEnds(c)

Next ==
  \/ HubStep
  \/ \E c \in Conns : \/ Accept(c) \/ ReadFrame(c) \/ ReadEnds(c) \/ Break(c)
                      \/ HandlerStep(c) \/ WriterStep(c)
  \/ \E l \in Callers : CallLogin(l) \/ AwaitLogin(l)
  \/ \E p \in Posters : Post(p)
  \/ Shutdown

Spec == Init /\ [][Next]_vars

\* Goroutines keep running, and no operation of the hub blocks (enqueue never
\* does).  Clients need not send, connect or disconnect; nobody need log in
\* or shut the server down.
Fairness ==
  /\ WF_vars(HubStep)
  /\ \A c \in Conns : WF_vars(HandlerStep(c)) /\ WF_vars(WriterStep(c))
  /\ \A l \in Callers : WF_vars(AwaitLogin(l))
  /\ \A p \in Posters : WF_vars(Post(p))

FairSpec == Spec /\ Fairness

---------------------------------------------------------------------------
(* Properties *)

TypeOK ==
  /\ ops \in Seq(Ops) /\ Len(ops) <= QueueCap
  /\ op \in Ops \cup {NoOp} /\ owed \in [Conns -> 0 .. 2] /\ slow \subseteq Conns
  /\ hub \in {"running", "stopped"} /\ shut \in BOOLEAN
  /\ clients \subseteq Conns /\ finished \subseteq Conns \cup Callers
  /\ handler \in [Conns -> {"none", "callRegister", "awaitRegister", "read", "submit", "kill",
                            "unregister", "returned"}]
  /\ writer \in [Conns -> {"none", "select", "writing", "doomed", "returned"}]
  /\ killed \in [Conns -> BOOLEAN] /\ broken \in [Conns -> BOOLEAN]
  /\ held \in [Conns -> Nat] /\ sent \in [Conns -> Nat] /\ got \in [Conns -> Nat]
  /\ buf \in [Conns -> Seq(Nat)] /\ \A c \in Conns : Len(buf[c]) <= SendBuffer
  /\ cmds \in 0 .. MaxCmds /\ joined \in [Conns -> BOOLEAN]
  /\ caller \in [Callers -> {"idle", "await", "returned"}]
  /\ poster \in [Posters -> {"idle", "returned"}]

\* A client receives the hub's frames one after the other without a hole:
\* after one that did not fit no other reaches it, although the buffer may
\* have room again before the hub kills the connection, and the reader may
\* queue and the writer send meanwhile.  This is what lets module Hub drop a
\* connection in one step.
DeliversPrefix == [][\A c \in Conns : got'[c] # got[c] => got'[c] = got[c] + 1]_vars

\* Operations for c that the hub has not completed.
Outstanding(c) == (op # NoOp /\ op.by = c) \/ \E i \in 1 .. Len(ops) : ops[i].by = c
Gone(c) == handler[c] = "returned" /\ ~Outstanding(c)

\* A connection whose Register succeeded leaves Hub.clients when its handler
\* is gone, however full the queue was and whatever killed it.
JoinedLeaves == hub = "running" => \A c \in Conns : joined[c] /\ Gone(c) => c \notin clients

\* hub.go says that the hub owns "the set of connected clients": a connection
\* whose handler has returned is in it no more.
ClientsAreConnected == hub = "running" => \A c \in Conns : Gone(c) => c \notin clients

\* A login request waiting for the hub is answered, also when the server shuts
\* down with the request still in the queue.
LoginsReturn == \A l \in Callers : caller[l] = "await" ~> caller[l] = "returned"

\* Once a connection is cancelled or broken both its goroutines end.
ConnsEnd == \A c \in Conns : handler[c] # "none" /\ (Cancelled(c) \/ broken[c])
                               ~> handler[c] = "returned" /\ writer[c] = "returned"

\* Nobody waits for ever on the hub, and nobody's goroutines outlive their
\* connection.
EverybodyReturns == LoginsReturn /\ ConnsEnd

\* Server.Close returns: the hub stops; and nobody who was using it is left
\* waiting, even in front of a full queue.
ShutdownCompletes ==
  shut ~> /\ hub = "stopped"
          /\ \A c \in Conns : handler[c] \in {"none", "returned"}
          /\ \A p \in Posters : poster[p] = "returned"
=============================================================================

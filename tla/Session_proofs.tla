--------------------------- MODULE Session_proofs ---------------------------
(***************************************************************************)
(* Proofs about Session: who may hold a socket, whose marks the board      *)
(* shows, and that answers are true, for any users and bounds.             *)
(*                                                                         *)
(* Five invariants, each inductive given the ones before it: Places says   *)
(* which requests can be under way on which page, Greetings what a socket  *)
(* has said about its user, Marked that a board is there or on its way,    *)
(* OneUser that nobody but one user has a part in a live tab, Flight that  *)
(* a command is in one place only and undecided while it is on its way.    *)
(***************************************************************************)
EXTENDS Session, TLAPS

---------------------------------------------------------------------------
(* The rate limiter, for every rate, burst and cost: what is still owed    *)
(* for the commands let through and what the bucket holds add up to Burst. *)

Balance == surplus + refilled = Burst

LimiterInv == LimiterTypeOK /\ Balance

\* What the bucket would hold with one tick more.
LEMMA OneMoreTick ==
  ASSUME NEW i \in Nat
  PROVE  /\ i * Rate \in Nat /\ (i + 1) * Rate = i * Rate + Rate
         /\ i >= MaxIdle => i * Rate >= Burst
<1>1. i * Rate \in Nat /\ MaxIdle * Rate \in Nat /\ (i + 1) * Rate = i * Rate + Rate
  BY RateAssumption
<1>2. ASSUME i >= MaxIdle PROVE i * Rate >= Burst
  <2>1. PICK d \in Nat : i = MaxIdle + d
    <3>1. i - MaxIdle \in Nat /\ i = MaxIdle + (i - MaxIdle)
      BY <1>2, RateAssumption
    <3> QED BY <3>1
  <2>2. i * Rate = MaxIdle * Rate + d * Rate /\ d * Rate \in Nat
    BY <2>1, RateAssumption
  <2> QED BY <1>1, <2>2, RateAssumption
<1> QED BY <1>1, <1>2

\* A new connection starts with a full bucket and nothing owed.
LEMMA FreshInvariant ==
  /\ FreshInit => LimiterInv
  /\ Fresh => LimiterInv'
<1>1. Burst \in Nat /\ Rate \in Nat /\ MaxIdle \in Nat /\ 0 * Rate = 0
  BY RateAssumption
<1> QED BY <1>1 DEF FreshInit, Fresh, LimiterInv, LimiterTypeOK, Balance, refilled

\* Commands, violations and the clock keep the balance.
LEMMA LimiterStep ==
  ASSUME LimiterInv, [LimiterNext]_limiter
  PROVE  LimiterInv'
<1> USE RateAssumption
<1>1. /\ tokens \in 0 .. Burst /\ idle \in 0 .. MaxIdle /\ violations \in Nat /\ surplus \in Nat
      /\ surplus + refilled = Burst
  BY DEF LimiterInv, LimiterTypeOK, Balance
<1>2. idle * Rate \in Nat /\ (idle + 1) * Rate = idle * Rate + Rate /\ 0 * Rate = 0
  BY <1>1, OneMoreTick
<1>3. refilled \in 0 .. Burst
  BY <1>1, <1>2 DEF refilled
<1>4. CASE Fresh
  BY <1>4, FreshInvariant
<1>5. CASE Allow
  <2>1. tokens' = refilled - Cost /\ tokens' \in 0 .. Burst /\ idle' = 0
    BY <1>3, <1>5 DEF Allow
  <2>2. refilled' = tokens'
    BY <2>1, <1>2 DEF refilled
  <2> QED BY <1>1, <1>3, <1>5, <2>1, <2>2 DEF Allow, LimiterInv, LimiterTypeOK, Balance
<1>6. CASE Violate
  <2>1. tokens' = refilled /\ tokens' \in 0 .. Burst /\ idle' = 0
    BY <1>3, <1>6 DEF Violate
  <2>2. refilled' = tokens'
    BY <2>1, <1>2 DEF refilled
  <2> QED BY <1>1, <1>3, <1>6, <2>1, <2>2 DEF Violate, LimiterInv, LimiterTypeOK, Balance
<1>7. CASE Elapse
  <2>1. tokens' = tokens /\ violations' = violations
        /\ surplus' = IF surplus > Rate THEN surplus - Rate ELSE 0
    BY <1>7 DEF Elapse
  <2>2. CASE tokens < Burst /\ idle < MaxIdle
    <3>1. idle' = idle + 1 /\ idle' * Rate = idle * Rate + Rate
      BY <1>1, <1>2, <1>7, <2>2 DEF Elapse
    <3>2. refilled' = IF refilled + Rate > Burst THEN Burst ELSE refilled + Rate
      BY <1>1, <1>2, <2>1, <3>1 DEF refilled
    <3> QED BY <1>1, <1>3, <2>1, <2>2, <3>1, <3>2 DEF LimiterInv, LimiterTypeOK, Balance
  <2>3. CASE ~(tokens < Burst /\ idle < MaxIdle)
    <3>1. idle' = idle
      BY <1>7, <2>3 DEF Elapse
    <3>2. refilled = Burst
      BY <1>1, <1>2, <2>3, OneMoreTick DEF refilled
    <3> QED BY <1>1, <2>1, <3>1, <3>2 DEF LimiterInv, LimiterTypeOK, Balance, refilled
  <2> QED BY <2>2, <2>3
<1>8. CASE UNCHANGED limiter
  BY <1>8, <1>1 DEF limiter, LimiterInv, LimiterTypeOK, Balance, refilled
<1> QED BY <1>4, <1>5, <1>6, <1>7, <1>8 DEF LimiterNext

\* The balance bounds what is owed.
LEMMA BalanceBounds == LimiterInv => RateLimited
<1>1. ASSUME LimiterInv PROVE surplus <= Burst
  <2>1. surplus \in Nat /\ tokens \in Nat /\ idle \in Nat /\ Burst \in Nat
    BY <1>1, RateAssumption DEF LimiterInv, LimiterTypeOK
  <2>2. refilled \in Nat
    BY <2>1, OneMoreTick DEF refilled
  <2> QED BY <1>1, <2>1, <2>2 DEF LimiterInv, Balance
<1> QED BY <1>1 DEF RateLimited

\* However commands and pauses alternate, no window of time lets more than
\* Burst and Rate per tick through.
THEOREM LimiterHolds == LimiterSpec => []RateLimited
<1>1. LimiterInit => LimiterInv
  BY FreshInvariant DEF LimiterInit
<1>2. LimiterInv /\ [LimiterNext]_limiter => LimiterInv'
  BY LimiterStep
<1> QED BY <1>1, <1>2, BalanceBounds, PTL DEF LimiterSpec

---------------------------------------------------------------------------
(* Types, in parts *)

PageTypes ==
  /\ cookie \in Users \cup {NoUser}
  /\ page \in {"loading", "unreachable", "anonymous", "ready"}
  /\ login \in Users \cup {NoUser} /\ logouts \in 0 .. MaxLogouts
  /\ live \in BOOLEAN /\ loggedOut \in BOOLEAN
  /\ session \in 0 .. MaxSessions /\ faults \in 0 .. MaxFaults

AskTypes == asks \subseteq Asks

SocketTypes ==
  /\ you \in Users \cup {NoUser} /\ marks \in Users \cup {NoUser} /\ swapped \in BOOLEAN
  /\ sock \in {"none", "dialing", "open"} /\ greeted \in BOOLEAN /\ timer \in BOOLEAN
  /\ carried \in Users \cup {NoUser}
  /\ upstream \in Seq(Commands) /\ down \in Seq(Frames) /\ mine \subseteq Commands
  /\ peer \in BOOLEAN /\ hubq \in Seq(Commands)

PromiseTypes == promise \in [Commands -> Promises] /\ fate \in [Commands -> Fates]

\* The parts make up the type invariant.
LEMMA TypeParts ==
  TypeOK <=> PageTypes /\ AskTypes /\ SocketTypes /\ PromiseTypes /\ LimiterTypeOK
  BY DEF TypeOK, PageTypes, AskTypes, SocketTypes, PromiseTypes

\* Frames the server makes.
LEMMA FrameTypes ==
  /\ \A u \in Users : Hello(u) \in Frames /\ Snapshot(u) \in Frames
  /\ \A c \in Commands, p \in Verdicts : Answer(c, p) \in Frames
  /\ "ack" \in Verdicts /\ "refused" \in Verdicts /\ "rate_limited" \in Verdicts
  BY DEF Frames, Hello, Snapshot, Answer, Verdicts

\* What is in a frame.
LEMMA FrameFields ==
  ASSUME NEW f \in Frames
  PROVE  /\ f.type \in {"hello", "snapshot", "answer"}
         /\ f.type \in {"hello", "snapshot"} => f.user \in Users
         /\ f.type = "answer" => f.cmd \in Commands /\ f.says \in Verdicts
  BY DEF Frames

\* The queues stay queues.
LEMMA QueueTypes ==
  /\ <<>> \in Seq(Frames) /\ <<>> \in Seq(Commands)
  /\ \A f \in Frames : <<f>> \in Seq(Frames) /\ \A g \in Frames : <<f, g>> \in Seq(Frames)
  /\ \A q \in Seq(Frames) : /\ q # <<>> => Head(q) \in Frames /\ Tail(q) \in Seq(Frames)
                            /\ \A f \in Frames : Append(q, f) \in Seq(Frames)
  /\ \A q \in Seq(Commands) : /\ q # <<>> => Head(q) \in Commands /\ Tail(q) \in Seq(Commands)
                              /\ \A c \in Commands : Append(q, c) \in Seq(Commands)
  OBVIOUS

\* failPending settles promises.
LEMMA FailedTypes == promise \in [Commands -> Promises] => failPending \in [Commands -> Promises]
  BY DEF failPending, Promises

---------------------------------------------------------------------------
(* Which requests can be under way on which page *)

Places ==
  /\ live => page = "ready" /\ session > 0
  /\ login # NoUser => page = "anonymous"
  /\ logouts > 0 => page \in {"ready", "anonymous"}
  /\ sock # "none" \/ timer => live
  /\ \A a \in asks : a.of = 0 => page = "loading"
  /\ \A a, b \in asks : a.of = 0 /\ b.of = 0 => a = b
  /\ login # NoUser \/ (\E a \in asks : a.of = 0) => session < MaxSessions

\* Every step keeps Places.
LEMMA PlacesStep ==
  ASSUME TypeOK, Places, [Next]_vars
  PROVE  Places'
<1> USE SessionAssumption DEF Asks
<1>1. ASSUME NEW u \in Users, SubmitLogin(u) PROVE Places'
  BY <1>1 DEF SubmitLogin, Places, TypeOK, app, store, connection, wire, server, limiter
<1>2. CASE ClickLogout
  BY <1>2 DEF ClickLogout, disconnect, stop, hangUp, Places, TypeOK, app, store, connection, wire,
     server, limiter
<1>3. ASSUME NEW c \in Commands, Send(c) PROVE Places'
  BY <1>3 DEF Send, Places, TypeOK, app, store, connection, wire, server, limiter
<1>4. ASSUME NEW a \in asks, LoadAnswered(a) PROVE Places'
  BY <1>4 DEF LoadAnswered, jarAfter, enter, open, Places, TypeOK, app, store, connection, wire,
     server, limiter
<1>5. ASSUME NEW a \in asks, AskAnswered(a) PROVE Places'
  BY <1>5 DEF AskAnswered, jarAfter, leave, disconnect, stop, hangUp, Current, Places, TypeOK, app,
     store, connection, wire, server, limiter
<1>6. CASE LoginAnswered
  BY <1>6 DEF LoginAnswered, enter, open, Places, TypeOK, app, store, connection, wire, server,
     limiter
<1>7. CASE LogoutAnswered
  BY <1>7 DEF LogoutAnswered, LogoutEnds, leave, disconnect, stop, hangUp, Places, TypeOK, app,
     store, connection, wire, server, limiter
<1>8. CASE Accept
  BY <1>8 DEF Accept, Places, TypeOK, app, store, connection, wire, server, limiter
<1>9. CASE Refuse
  BY <1>9 DEF Refuse, onclose, hangUp, Places, TypeOK, app, store, connection, wire, server, limiter
<1>10. CASE CloseSeen
  BY <1>10 DEF CloseSeen, onclose, hangUp, Places, TypeOK, app, store, connection, wire, server,
     limiter
<1>11. CASE TimerFires
  BY <1>11 DEF TimerFires, open, Places, TypeOK, app, store, connection, wire, server, limiter
<1>12. CASE ReadCommand
  BY <1>12 DEF ReadCommand, Places, TypeOK, app, store, connection, wire, server, limiter
<1>13. CASE RejectCommand
  BY <1>13 DEF RejectCommand, Places, TypeOK, app, store, connection, wire, server, limiter
<1>14. CASE KillConnection
  BY <1>14 DEF KillConnection, Places, TypeOK, app, store, connection, wire, server, limiter
<1>15. ASSUME NEW v \in {"applied", "refused"}, HandleCommand(v) PROVE Places'
  BY <1>15 DEF HandleCommand, Places, TypeOK, app, store, connection, wire, server, limiter
<1>16. CASE Deliver
  BY <1>16 DEF Deliver, hello, Places, TypeOK, app, store, connection, wire, server, limiter
<1>17. ASSUME NEW a \in asks, LoadFails(a) PROVE Places'
  BY <1>17 DEF LoadFails, Fault, Places, TypeOK, app, store, connection, wire, server, limiter
<1>18. ASSUME NEW a \in asks, AskFails(a) PROVE Places'
  BY <1>18 DEF AskFails, Fault, Current, Places, TypeOK, app, store, connection, wire, server,
     limiter
<1>19. ASSUME NEW jar \in Users \cup {NoUser}, LoginFails(jar) PROVE Places'
  BY <1>19 DEF LoginFails, Fault, Places, TypeOK, app, store, connection, wire, server, limiter
<1>20. ASSUME NEW jar \in Users \cup {NoUser}, OtherTab(jar) PROVE Places'
  BY <1>20 DEF OtherTab, Fault, Places, TypeOK, app, store, connection, wire, server, limiter
<1>21. CASE LogoutFails
  BY <1>21 DEF LogoutFails, Fault, LogoutEnds, leave, disconnect, stop, hangUp, Places, TypeOK,
     app, store, connection, wire, server, limiter
<1>22. CASE DialFails
  BY <1>22 DEF DialFails, Fault, onclose, hangUp, Places, TypeOK, app, store, connection, wire,
     server, limiter
<1>23. CASE LookupFails
  BY <1>23 DEF LookupFails, Fault, Places, TypeOK, app, store, connection, wire, server, limiter
<1>24. CASE Reload
  BY <1>24 DEF Reload, Fault, disconnect, stop, hangUp, Places, TypeOK, app, store, connection,
     wire, server, limiter
<1>25. ASSUME NEW lost \in BOOLEAN, Break(lost) PROVE Places'
  BY <1>25 DEF Break, Fault, onclose, hangUp, Places, TypeOK, app, store, connection, wire, server,
     limiter
<1>26. CASE Tick
  BY <1>26 DEF Tick, Places, TypeOK, app, store, connection, wire, server, limiter
<1>27. CASE UNCHANGED vars
  BY <1>27 DEF vars, Places, TypeOK, app, store, connection, wire, server, limiter
<1> QED BY <1>1, <1>2, <1>3, <1>4, <1>5, <1>6, <1>7, <1>8, <1>9, <1>10, <1>11, <1>12, <1>13,
   <1>14, <1>15, <1>16, <1>17, <1>18, <1>19, <1>20, <1>21, <1>22, <1>23, <1>24, <1>25, <1>26, <1>27
   DEF Next, UserStep, SystemStep, Failure

\* The page's part of the state keeps its types.
LEMMA PageStep ==
  ASSUME PageTypes, Places, [Next]_vars
  PROVE  PageTypes'
<1> USE SessionAssumption
<1>1. ASSUME NEW u \in Users, SubmitLogin(u) PROVE PageTypes'
  BY <1>1 DEF SubmitLogin, PageTypes, app, store
<1>2. CASE ClickLogout
  <2>1. live' \in BOOLEAN
    BY <1>2 DEF ClickLogout, disconnect
  <2> QED BY <1>2, <2>1 DEF ClickLogout, PageTypes
<1>3. ASSUME NEW c \in Commands, Send(c) PROVE PageTypes'
  BY <1>3 DEF Send, PageTypes, app, store
<1>4. ASSUME NEW a \in asks, LoadAnswered(a) PROVE PageTypes'
  <2>1. session + 1 \in 0 .. MaxSessions
    BY <1>4 DEF LoadAnswered, Places, PageTypes
  <2> QED BY <1>4, <2>1 DEF LoadAnswered, jarAfter, enter, connect, PageTypes, store
<1>5. ASSUME NEW a \in asks, AskAnswered(a) PROVE PageTypes'
  BY <1>5 DEF AskAnswered, jarAfter, leave, disconnect, Current, PageTypes, app, store
<1>6. CASE LoginAnswered
  <2>1. session + 1 \in 0 .. MaxSessions
    BY <1>6 DEF LoginAnswered, Places, PageTypes
  <2> QED BY <1>6, <2>1 DEF LoginAnswered, enter, connect, PageTypes
<1>7. CASE LogoutAnswered
  <2>1. live' \in BOOLEAN
    BY <1>7 DEF PageTypes, LogoutAnswered, LogoutEnds, leave, disconnect
  <2> QED BY <1>7, <2>1 DEF LogoutAnswered, LogoutEnds, leave, PageTypes
<1>8. CASE Accept
  BY <1>8 DEF Accept, PageTypes, app, store
<1>9. CASE Refuse
  BY <1>9 DEF Refuse, PageTypes, app, store
<1>10. CASE CloseSeen
  BY <1>10 DEF CloseSeen, PageTypes, app, store
<1>11. CASE TimerFires
  BY <1>11 DEF TimerFires, PageTypes, app, store
<1>12. CASE ReadCommand
  BY <1>12 DEF ReadCommand, PageTypes, app, store
<1>13. CASE RejectCommand
  BY <1>13 DEF RejectCommand, PageTypes, app, store
<1>14. CASE KillConnection
  BY <1>14 DEF KillConnection, PageTypes, app, store
<1>15. ASSUME NEW v \in {"applied", "refused"}, HandleCommand(v) PROVE PageTypes'
  BY <1>15 DEF HandleCommand, PageTypes, app, store
<1>16. CASE Deliver
  BY <1>16 DEF Deliver, hello, PageTypes, app, store
<1>17. ASSUME NEW a \in asks, LoadFails(a) PROVE PageTypes'
  BY <1>17 DEF LoadFails, Fault, PageTypes, app, store
<1>18. ASSUME NEW a \in asks, AskFails(a) PROVE PageTypes'
  BY <1>18 DEF AskFails, Fault, Current, PageTypes, app, store
<1>19. ASSUME NEW jar \in Users \cup {NoUser}, LoginFails(jar) PROVE PageTypes'
  BY <1>19 DEF LoginFails, Fault, PageTypes, app, store
<1>20. ASSUME NEW jar \in Users \cup {NoUser}, OtherTab(jar) PROVE PageTypes'
  BY <1>20 DEF OtherTab, Fault, PageTypes, app, store
<1>21. CASE LogoutFails
  <2>1. live' \in BOOLEAN
    BY <1>21 DEF PageTypes, LogoutFails, LogoutEnds, leave, disconnect
  <2> QED BY <1>21, <2>1 DEF LogoutFails, LogoutEnds, leave, Fault, PageTypes
<1>22. CASE DialFails
  BY <1>22 DEF DialFails, Fault, PageTypes, app, store
<1>23. CASE LookupFails
  BY <1>23 DEF LookupFails, Fault, PageTypes, app, store
<1>24. CASE Reload
  <2>1. live' \in BOOLEAN /\ loggedOut' \in BOOLEAN
    BY <1>24 DEF Reload, disconnect
  <2> QED BY <1>24, <2>1 DEF Reload, Fault, PageTypes
<1>25. ASSUME NEW lost \in BOOLEAN, Break(lost) PROVE PageTypes'
  BY <1>25 DEF Break, Fault, PageTypes, app, store
<1>26. CASE Tick
  BY <1>26 DEF Tick, PageTypes, app, store
<1>27. CASE UNCHANGED vars
  BY <1>27 DEF vars, PageTypes, app, store
<1> QED BY <1>1, <1>2, <1>3, <1>4, <1>5, <1>6, <1>7, <1>8, <1>9, <1>10, <1>11, <1>12, <1>13,
   <1>14, <1>15, <1>16, <1>17, <1>18, <1>19, <1>20, <1>21, <1>22, <1>23, <1>24, <1>25, <1>26, <1>27
   DEF Next, UserStep, SystemStep, Failure

\* Requests under way keep their types.
LEMMA AskStep ==
  ASSUME AskTypes, PageTypes, [Next]_vars
  PROVE  AskTypes'
<1> USE SessionAssumption DEF Asks
<1>1. ASSUME NEW u \in Users, SubmitLogin(u) PROVE AskTypes'
  BY <1>1 DEF SubmitLogin, AskTypes, PageTypes, app, store, connection, wire, server, limiter
<1>2. CASE ClickLogout
  BY <1>2 DEF ClickLogout, disconnect, stop, hangUp, AskTypes, PageTypes, app, store, connection,
     wire, server, limiter
<1>3. ASSUME NEW c \in Commands, Send(c) PROVE AskTypes'
  BY <1>3 DEF Send, AskTypes, PageTypes, app, store, connection, wire, server, limiter
<1>4. ASSUME NEW a \in asks, LoadAnswered(a) PROVE AskTypes'
  BY <1>4 DEF LoadAnswered, jarAfter, enter, open, AskTypes, PageTypes, app, store, connection,
     wire, server, limiter
<1>5. ASSUME NEW a \in asks, AskAnswered(a) PROVE AskTypes'
  BY <1>5 DEF AskAnswered, jarAfter, leave, disconnect, stop, hangUp, Current, AskTypes, PageTypes,
     app, store, connection, wire, server, limiter
<1>6. CASE LoginAnswered
  BY <1>6 DEF LoginAnswered, enter, open, AskTypes, PageTypes, app, store, connection, wire,
     server, limiter
<1>7. CASE LogoutAnswered
  BY <1>7 DEF LogoutAnswered, LogoutEnds, leave, disconnect, stop, hangUp, AskTypes, PageTypes,
     app, store, connection, wire, server, limiter
<1>8. CASE Accept
  BY <1>8 DEF Accept, AskTypes, PageTypes, app, store, connection, wire, server, limiter
<1>9. CASE Refuse
  BY <1>9 DEF Refuse, onclose, hangUp, AskTypes, PageTypes, app, store, connection, wire, server,
     limiter
<1>10. CASE CloseSeen
  BY <1>10 DEF CloseSeen, onclose, hangUp, AskTypes, PageTypes, app, store, connection, wire,
     server, limiter
<1>11. CASE TimerFires
  BY <1>11 DEF TimerFires, open, AskTypes, PageTypes, app, store, connection, wire, server, limiter
<1>12. CASE ReadCommand
  BY <1>12 DEF ReadCommand, AskTypes, PageTypes, app, store, connection, wire, server, limiter
<1>13. CASE RejectCommand
  BY <1>13 DEF RejectCommand, AskTypes, PageTypes, app, store, connection, wire, server, limiter
<1>14. CASE KillConnection
  BY <1>14 DEF KillConnection, AskTypes, PageTypes, app, store, connection, wire, server, limiter
<1>15. ASSUME NEW v \in {"applied", "refused"}, HandleCommand(v) PROVE AskTypes'
  BY <1>15 DEF HandleCommand, AskTypes, PageTypes, app, store, connection, wire, server, limiter
<1>16. CASE Deliver
  BY <1>16 DEF Deliver, hello, AskTypes, PageTypes, app, store, connection, wire, server, limiter
<1>17. ASSUME NEW a \in asks, LoadFails(a) PROVE AskTypes'
  BY <1>17 DEF LoadFails, Fault, AskTypes, PageTypes, app, store, connection, wire, server, limiter
<1>18. ASSUME NEW a \in asks, AskFails(a) PROVE AskTypes'
  BY <1>18 DEF AskFails, Fault, Current, AskTypes, PageTypes, app, store, connection, wire, server,
     limiter
<1>19. ASSUME NEW jar \in Users \cup {NoUser}, LoginFails(jar) PROVE AskTypes'
  BY <1>19 DEF LoginFails, Fault, AskTypes, PageTypes, app, store, connection, wire, server, limiter
<1>20. ASSUME NEW jar \in Users \cup {NoUser}, OtherTab(jar) PROVE AskTypes'
  BY <1>20 DEF OtherTab, Fault, AskTypes, PageTypes, app, store, connection, wire, server, limiter
<1>21. CASE LogoutFails
  BY <1>21 DEF LogoutFails, Fault, LogoutEnds, leave, disconnect, stop, hangUp, AskTypes,
     PageTypes, app, store, connection, wire, server, limiter
<1>22. CASE DialFails
  BY <1>22 DEF DialFails, Fault, onclose, hangUp, AskTypes, PageTypes, app, store, connection,
     wire, server, limiter
<1>23. CASE LookupFails
  BY <1>23 DEF LookupFails, Fault, AskTypes, PageTypes, app, store, connection, wire, server,
     limiter
<1>24. CASE Reload
  BY <1>24 DEF Reload, Fault, disconnect, stop, hangUp, AskTypes, PageTypes, app, store,
     connection, wire, server, limiter
<1>25. ASSUME NEW lost \in BOOLEAN, Break(lost) PROVE AskTypes'
  BY <1>25 DEF Break, Fault, onclose, hangUp, AskTypes, PageTypes, app, store, connection, wire,
     server, limiter
<1>26. CASE Tick
  BY <1>26 DEF Tick, AskTypes, PageTypes, app, store, connection, wire, server, limiter
<1>27. CASE UNCHANGED vars
  BY <1>27 DEF vars, AskTypes, PageTypes, app, store, connection, wire, server, limiter
<1> QED BY <1>1, <1>2, <1>3, <1>4, <1>5, <1>6, <1>7, <1>8, <1>9, <1>10, <1>11, <1>12, <1>13,
   <1>14, <1>15, <1>16, <1>17, <1>18, <1>19, <1>20, <1>21, <1>22, <1>23, <1>24, <1>25, <1>26, <1>27
   DEF Next, UserStep, SystemStep, Failure

\* The socket's part keeps its types.
LEMMA SocketStep ==
  ASSUME SocketTypes, PageTypes, AskTypes, [Next]_vars
  PROVE  SocketTypes'
<1>1. ASSUME NEW u \in Users, SubmitLogin(u) PROVE SocketTypes'
  BY <1>1, FrameTypes, QueueTypes DEF SubmitLogin, SocketTypes, PageTypes, app, store, connection,
     wire, server, limiter
<1>2. CASE ClickLogout
  BY <1>2, FrameTypes, QueueTypes DEF ClickLogout, disconnect, stop, hangUp, SocketTypes,
     PageTypes, app, store, connection, wire, server, limiter
<1>3. ASSUME NEW c \in Commands, Send(c) PROVE SocketTypes'
  BY <1>3, FrameTypes, QueueTypes DEF Send, SocketTypes, PageTypes, app, store, connection, wire,
     server, limiter
<1>4. ASSUME NEW a \in asks, LoadAnswered(a) PROVE SocketTypes'
  BY <1>4, FrameTypes, QueueTypes DEF LoadAnswered, jarAfter, enter, connect, initialBoard, open,
     SocketTypes, PageTypes, app, store, connection, wire, server, limiter
<1>5. ASSUME NEW a \in asks, AskAnswered(a) PROVE SocketTypes'
  BY <1>5, FrameTypes, QueueTypes DEF AskAnswered, jarAfter, leave, disconnect, stop, hangUp,
     Current, SocketTypes, PageTypes, app, store, connection, wire, server, limiter
<1>6. CASE LoginAnswered
  BY <1>6, FrameTypes, QueueTypes DEF LoginAnswered, enter, connect, initialBoard, open,
     SocketTypes, PageTypes, app, store, connection, wire, server, limiter
<1>7. CASE LogoutAnswered
  BY <1>7, FrameTypes, QueueTypes DEF LogoutAnswered, LogoutEnds, leave, disconnect, stop, hangUp,
     SocketTypes, PageTypes, app, store, connection, wire, server, limiter
<1>8. CASE Accept
  BY <1>8, FrameTypes, QueueTypes DEF Accept, Register, SocketTypes, PageTypes, app, store,
     connection, wire, server, limiter
<1>9. CASE Refuse
  BY <1>9, FrameTypes, QueueTypes DEF Refuse, onclose, hangUp, SocketTypes, PageTypes, app, store,
     connection, wire, server, limiter
<1>10. CASE CloseSeen
  BY <1>10, FrameTypes, QueueTypes DEF CloseSeen, onclose, hangUp, SocketTypes, PageTypes, app,
     store, connection, wire, server, limiter
<1>11. CASE TimerFires
  BY <1>11, FrameTypes, QueueTypes DEF TimerFires, open, SocketTypes, PageTypes, app, store,
     connection, wire, server, limiter
<1>12. CASE ReadCommand
  BY <1>12, FrameTypes, QueueTypes DEF ReadCommand, SocketTypes, PageTypes, app, store, connection,
     wire, server, limiter
<1>13. CASE RejectCommand
  BY <1>13, FrameTypes, QueueTypes DEF RejectCommand, SocketTypes, PageTypes, app, store,
     connection, wire, server, limiter
<1>14. CASE KillConnection
  BY <1>14, FrameTypes, QueueTypes DEF KillConnection, SocketTypes, PageTypes, app, store,
     connection, wire, server, limiter
<1>15. ASSUME NEW v \in {"applied", "refused"}, HandleCommand(v) PROVE SocketTypes'
  BY <1>15, FrameTypes, QueueTypes DEF HandleCommand, SocketTypes, PageTypes, app, store,
     connection, wire, server, limiter
<1>16. CASE Deliver
  <2>1. Head(down) \in Frames /\ Tail(down) \in Seq(Frames)
    BY <1>16, QueueTypes DEF Deliver, SocketTypes
  <2>2. Head(down).type \in {"hello", "snapshot"} => Head(down).user \in Users
    BY <2>1, FrameFields
  <2> QED BY <1>16, <2>1, <2>2 DEF Deliver, hello, snapshot, SocketTypes, server
<1>17. ASSUME NEW a \in asks, LoadFails(a) PROVE SocketTypes'
  BY <1>17, FrameTypes, QueueTypes DEF LoadFails, Fault, SocketTypes, PageTypes, app, store,
     connection, wire, server, limiter
<1>18. ASSUME NEW a \in asks, AskFails(a) PROVE SocketTypes'
  BY <1>18, FrameTypes, QueueTypes DEF AskFails, Fault, Current, SocketTypes, PageTypes, app,
     store, connection, wire, server, limiter
<1>19. ASSUME NEW jar \in Users \cup {NoUser}, LoginFails(jar) PROVE SocketTypes'
  BY <1>19, FrameTypes, QueueTypes DEF LoginFails, Fault, SocketTypes, PageTypes, app, store,
     connection, wire, server, limiter
<1>20. ASSUME NEW jar \in Users \cup {NoUser}, OtherTab(jar) PROVE SocketTypes'
  BY <1>20, FrameTypes, QueueTypes DEF OtherTab, Fault, SocketTypes, PageTypes, app, store,
     connection, wire, server, limiter
<1>21. CASE LogoutFails
  BY <1>21, FrameTypes, QueueTypes DEF LogoutFails, Fault, LogoutEnds, leave, disconnect, stop,
     hangUp, SocketTypes, PageTypes, app, store, connection, wire, server, limiter
<1>22. CASE DialFails
  BY <1>22, FrameTypes, QueueTypes DEF DialFails, Fault, onclose, hangUp, SocketTypes, PageTypes,
     app, store, connection, wire, server, limiter
<1>23. CASE LookupFails
  BY <1>23, FrameTypes, QueueTypes DEF LookupFails, Fault, SocketTypes, PageTypes, app, store,
     connection, wire, server, limiter
<1>24. CASE Reload
  BY <1>24, FrameTypes, QueueTypes DEF Reload, initialBoard, Fault, disconnect, stop, hangUp,
     SocketTypes, PageTypes, app, store, connection, wire, server, limiter
<1>25. ASSUME NEW lost \in BOOLEAN, Break(lost) PROVE SocketTypes'
  BY <1>25, FrameTypes, QueueTypes DEF Break, Fault, onclose, hangUp, SocketTypes, PageTypes, app,
     store, connection, wire, server, limiter
<1>26. CASE Tick
  BY <1>26, FrameTypes, QueueTypes DEF Tick, SocketTypes, PageTypes, app, store, connection, wire,
     server, limiter
<1>27. CASE UNCHANGED vars
  BY <1>27, FrameTypes, QueueTypes DEF vars, SocketTypes, PageTypes, app, store, connection, wire,
     server, limiter
<1> QED BY <1>1, <1>2, <1>3, <1>4, <1>5, <1>6, <1>7, <1>8, <1>9, <1>10, <1>11, <1>12, <1>13,
   <1>14, <1>15, <1>16, <1>17, <1>18, <1>19, <1>20, <1>21, <1>22, <1>23, <1>24, <1>25, <1>26, <1>27
   DEF Next, UserStep, SystemStep, Failure

\* Promises and fates keep their types.
LEMMA PromiseStep ==
  ASSUME PromiseTypes, SocketTypes, [Next]_vars
  PROVE  PromiseTypes'
<1> USE DEF Fates, Promises, Verdicts
<1>1. ASSUME NEW u \in Users, SubmitLogin(u) PROVE PromiseTypes'
  BY <1>1, QueueTypes, FailedTypes DEF SubmitLogin, PromiseTypes, SocketTypes, app, store,
     connection, wire, server, limiter
<1>2. CASE ClickLogout
  BY <1>2, QueueTypes, FailedTypes DEF ClickLogout, disconnect, stop, hangUp, PromiseTypes,
     SocketTypes, app, store, connection, wire, server, limiter
<1>3. ASSUME NEW c \in Commands, Send(c) PROVE PromiseTypes'
  BY <1>3, QueueTypes, FailedTypes DEF Send, PromiseTypes, SocketTypes, app, store, connection,
     wire, server, limiter
<1>4. ASSUME NEW a \in asks, LoadAnswered(a) PROVE PromiseTypes'
  BY <1>4, QueueTypes, FailedTypes DEF LoadAnswered, jarAfter, enter, open, PromiseTypes,
     SocketTypes, app, store, connection, wire, server, limiter
<1>5. ASSUME NEW a \in asks, AskAnswered(a) PROVE PromiseTypes'
  BY <1>5, QueueTypes, FailedTypes DEF AskAnswered, jarAfter, leave, disconnect, stop, hangUp,
     Current, PromiseTypes, SocketTypes, app, store, connection, wire, server, limiter
<1>6. CASE LoginAnswered
  BY <1>6, QueueTypes, FailedTypes DEF LoginAnswered, enter, open, PromiseTypes, SocketTypes, app,
     store, connection, wire, server, limiter
<1>7. CASE LogoutAnswered
  BY <1>7, QueueTypes, FailedTypes DEF LogoutAnswered, LogoutEnds, leave, disconnect, stop, hangUp,
     PromiseTypes, SocketTypes, app, store, connection, wire, server, limiter
<1>8. CASE Accept
  BY <1>8, QueueTypes, FailedTypes DEF Accept, PromiseTypes, SocketTypes, app, store, connection,
     wire, server, limiter
<1>9. CASE Refuse
  BY <1>9, QueueTypes, FailedTypes DEF Refuse, onclose, hangUp, PromiseTypes, SocketTypes, app,
     store, connection, wire, server, limiter
<1>10. CASE CloseSeen
  BY <1>10, QueueTypes, FailedTypes DEF CloseSeen, onclose, hangUp, PromiseTypes, SocketTypes, app,
     store, connection, wire, server, limiter
<1>11. CASE TimerFires
  BY <1>11, QueueTypes, FailedTypes DEF TimerFires, open, PromiseTypes, SocketTypes, app, store,
     connection, wire, server, limiter
<1>12. CASE ReadCommand
  BY <1>12, QueueTypes, FailedTypes DEF ReadCommand, PromiseTypes, SocketTypes, app, store,
     connection, wire, server, limiter
<1>13. CASE RejectCommand
  BY <1>13, QueueTypes, FailedTypes DEF RejectCommand, PromiseTypes, SocketTypes, app, store,
     connection, wire, server, limiter
<1>14. CASE KillConnection
  BY <1>14, QueueTypes, FailedTypes DEF KillConnection, PromiseTypes, SocketTypes, app, store,
     connection, wire, server, limiter
<1>15. ASSUME NEW v \in {"applied", "refused"}, HandleCommand(v) PROVE PromiseTypes'
  BY <1>15, QueueTypes, FailedTypes DEF HandleCommand, PromiseTypes, SocketTypes, app, store,
     connection, wire, server, limiter
<1>16. CASE Deliver
  <2>1. Head(down) \in Frames /\ Tail(down) \in Seq(Frames)
    BY <1>16, QueueTypes DEF Deliver, SocketTypes
  <2>2. Head(down).type = "answer" => Head(down).cmd \in Commands /\ Head(down).says \in Verdicts
    BY <2>1, FrameFields
  <2> QED BY <1>16, <2>1, <2>2 DEF Deliver, hello, PromiseTypes, server
<1>17. ASSUME NEW a \in asks, LoadFails(a) PROVE PromiseTypes'
  BY <1>17, QueueTypes, FailedTypes DEF LoadFails, Fault, PromiseTypes, SocketTypes, app, store,
     connection, wire, server, limiter
<1>18. ASSUME NEW a \in asks, AskFails(a) PROVE PromiseTypes'
  BY <1>18, QueueTypes, FailedTypes DEF AskFails, Fault, Current, PromiseTypes, SocketTypes, app,
     store, connection, wire, server, limiter
<1>19. ASSUME NEW jar \in Users \cup {NoUser}, LoginFails(jar) PROVE PromiseTypes'
  BY <1>19, QueueTypes, FailedTypes DEF LoginFails, Fault, PromiseTypes, SocketTypes, app, store,
     connection, wire, server, limiter
<1>20. ASSUME NEW jar \in Users \cup {NoUser}, OtherTab(jar) PROVE PromiseTypes'
  BY <1>20, QueueTypes, FailedTypes DEF OtherTab, Fault, PromiseTypes, SocketTypes, app, store,
     connection, wire, server, limiter
<1>21. CASE LogoutFails
  BY <1>21, QueueTypes, FailedTypes DEF LogoutFails, Fault, LogoutEnds, leave, disconnect, stop,
     hangUp, PromiseTypes, SocketTypes, app, store, connection, wire, server, limiter
<1>22. CASE DialFails
  BY <1>22, QueueTypes, FailedTypes DEF DialFails, Fault, onclose, hangUp, PromiseTypes,
     SocketTypes, app, store, connection, wire, server, limiter
<1>23. CASE LookupFails
  BY <1>23, QueueTypes, FailedTypes DEF LookupFails, Fault, PromiseTypes, SocketTypes, app, store,
     connection, wire, server, limiter
<1>24. CASE Reload
  BY <1>24, QueueTypes, FailedTypes DEF Reload, Fault, disconnect, stop, hangUp, PromiseTypes,
     SocketTypes, app, store, connection, wire, server, limiter
<1>25. ASSUME NEW lost \in BOOLEAN, Break(lost) PROVE PromiseTypes'
  BY <1>25, QueueTypes, FailedTypes DEF Break, Fault, onclose, hangUp, PromiseTypes, SocketTypes,
     app, store, connection, wire, server, limiter
<1>26. CASE Tick
  BY <1>26, QueueTypes, FailedTypes DEF Tick, PromiseTypes, SocketTypes, app, store, connection,
     wire, server, limiter
<1>27. CASE UNCHANGED vars
  BY <1>27, QueueTypes, FailedTypes DEF vars, PromiseTypes, SocketTypes, app, store, connection,
     wire, server, limiter
<1> QED BY <1>1, <1>2, <1>3, <1>4, <1>5, <1>6, <1>7, <1>8, <1>9, <1>10, <1>11, <1>12, <1>13,
   <1>14, <1>15, <1>16, <1>17, <1>18, <1>19, <1>20, <1>21, <1>22, <1>23, <1>24, <1>25, <1>26, <1>27
   DEF Next, UserStep, SystemStep, Failure

\* The tab drives its connection's rate limiter as RateLimit describes.
LEMMA LimiterDriven ==
  ASSUME [Next]_vars
  PROVE  [LimiterNext]_limiter
<1>1. ASSUME NEW u \in Users, SubmitLogin(u) PROVE [LimiterNext]_limiter
  BY <1>1 DEF SubmitLogin, LimiterNext, app, store, connection, wire, server, limiter
<1>2. CASE ClickLogout
  BY <1>2 DEF ClickLogout, disconnect, stop, hangUp, LimiterNext, app, store, connection, wire,
     server, limiter
<1>3. ASSUME NEW c \in Commands, Send(c) PROVE [LimiterNext]_limiter
  BY <1>3 DEF Send, LimiterNext, app, store, connection, wire, server, limiter
<1>4. ASSUME NEW a \in asks, LoadAnswered(a) PROVE [LimiterNext]_limiter
  BY <1>4 DEF LoadAnswered, jarAfter, enter, open, LimiterNext, app, store, connection, wire,
     server, limiter
<1>5. ASSUME NEW a \in asks, AskAnswered(a) PROVE [LimiterNext]_limiter
  BY <1>5 DEF AskAnswered, jarAfter, leave, disconnect, stop, hangUp, Current, LimiterNext, app,
     store, connection, wire, server, limiter
<1>6. CASE LoginAnswered
  BY <1>6 DEF LoginAnswered, enter, open, LimiterNext, app, store, connection, wire, server, limiter
<1>7. CASE LogoutAnswered
  BY <1>7 DEF LogoutAnswered, LogoutEnds, leave, disconnect, stop, hangUp, LimiterNext, app, store,
     connection, wire, server, limiter
<1>8. CASE Accept
  BY <1>8 DEF Accept, LimiterNext, app, store, connection, wire, server, limiter
<1>9. CASE Refuse
  BY <1>9 DEF Refuse, onclose, hangUp, LimiterNext, app, store, connection, wire, server, limiter
<1>10. CASE CloseSeen
  BY <1>10 DEF CloseSeen, onclose, hangUp, LimiterNext, app, store, connection, wire, server,
     limiter
<1>11. CASE TimerFires
  BY <1>11 DEF TimerFires, open, LimiterNext, app, store, connection, wire, server, limiter
<1>12. CASE ReadCommand
  BY <1>12 DEF ReadCommand, LimiterNext, app, store, connection, wire, server, limiter
<1>13. CASE RejectCommand
  BY <1>13 DEF RejectCommand, LimiterNext, app, store, connection, wire, server, limiter
<1>14. CASE KillConnection
  BY <1>14 DEF KillConnection, LimiterNext, app, store, connection, wire, server, limiter
<1>15. ASSUME NEW v \in {"applied", "refused"}, HandleCommand(v) PROVE [LimiterNext]_limiter
  BY <1>15 DEF HandleCommand, LimiterNext, app, store, connection, wire, server, limiter
<1>16. CASE Deliver
  BY <1>16 DEF Deliver, hello, LimiterNext, app, store, connection, wire, server, limiter
<1>17. ASSUME NEW a \in asks, LoadFails(a) PROVE [LimiterNext]_limiter
  BY <1>17 DEF LoadFails, Fault, LimiterNext, app, store, connection, wire, server, limiter
<1>18. ASSUME NEW a \in asks, AskFails(a) PROVE [LimiterNext]_limiter
  BY <1>18 DEF AskFails, Fault, Current, LimiterNext, app, store, connection, wire, server, limiter
<1>19. ASSUME NEW jar \in Users \cup {NoUser}, LoginFails(jar) PROVE [LimiterNext]_limiter
  BY <1>19 DEF LoginFails, Fault, LimiterNext, app, store, connection, wire, server, limiter
<1>20. ASSUME NEW jar \in Users \cup {NoUser}, OtherTab(jar) PROVE [LimiterNext]_limiter
  BY <1>20 DEF OtherTab, Fault, LimiterNext, app, store, connection, wire, server, limiter
<1>21. CASE LogoutFails
  BY <1>21 DEF LogoutFails, Fault, LogoutEnds, leave, disconnect, stop, hangUp, LimiterNext, app,
     store, connection, wire, server, limiter
<1>22. CASE DialFails
  BY <1>22 DEF DialFails, Fault, onclose, hangUp, LimiterNext, app, store, connection, wire,
     server, limiter
<1>23. CASE LookupFails
  BY <1>23 DEF LookupFails, Fault, LimiterNext, app, store, connection, wire, server, limiter
<1>24. CASE Reload
  BY <1>24 DEF Reload, Fault, disconnect, stop, hangUp, LimiterNext, app, store, connection, wire,
     server, limiter
<1>25. ASSUME NEW lost \in BOOLEAN, Break(lost) PROVE [LimiterNext]_limiter
  BY <1>25 DEF Break, Fault, onclose, hangUp, LimiterNext, app, store, connection, wire, server,
     limiter
<1>26. CASE Tick
  BY <1>26 DEF Tick, LimiterNext, app, store, connection, wire, server, limiter
<1>27. CASE UNCHANGED vars
  BY <1>27 DEF vars, LimiterNext, app, store, connection, wire, server, limiter
<1> QED BY <1>1, <1>2, <1>3, <1>4, <1>5, <1>6, <1>7, <1>8, <1>9, <1>10, <1>11, <1>12, <1>13,
   <1>14, <1>15, <1>16, <1>17, <1>18, <1>19, <1>20, <1>21, <1>22, <1>23, <1>24, <1>25, <1>26, <1>27
   DEF Next, UserStep, SystemStep, Failure

TypeInv == TypeOK /\ LimiterInv /\ Places

\* Every step keeps the types, the limiter's balance and Places.
LEMMA TypeInvStep == TypeInv /\ [Next]_vars => TypeInv'
<1> SUFFICES ASSUME TypeInv, [Next]_vars PROVE TypeInv'
  OBVIOUS
<1>1. PageTypes /\ AskTypes /\ SocketTypes /\ PromiseTypes /\ Places /\ LimiterInv /\ TypeOK
  BY TypeParts DEF TypeInv
<1>2. LimiterInv'
  BY <1>1, LimiterDriven, LimiterStep
<1>3. PageTypes' /\ AskTypes' /\ SocketTypes' /\ PromiseTypes'
  BY <1>1, PageStep, AskStep, SocketStep, PromiseStep
<1>4. TypeOK'
  BY <1>2, <1>3 DEF LimiterInv, TypeOK, PageTypes, AskTypes, SocketTypes, PromiseTypes
<1>5. Places'
  BY <1>1, PlacesStep
<1> QED BY <1>2, <1>4, <1>5 DEF TypeInv

\* They hold when the page starts to load.
LEMMA TypeInvInit == Init => TypeInv
<1> SUFFICES ASSUME Init PROVE TypeInv
  OBVIOUS
<1> USE SessionAssumption
<1>1. LimiterInv
  BY FreshInvariant DEF Init
<1>0. live \in BOOLEAN /\ loggedOut \in BOOLEAN
  BY DEF Init
<1>2. PageTypes
  BY <1>0 DEF Init, PageTypes
<1>3. AskTypes
  BY DEF Init, AskTypes, Asks
<1>6. SocketTypes
  BY QueueTypes DEF Init, SocketTypes
<1>7. PromiseTypes
  BY DEF Init, PromiseTypes, Promises, Fates
<1>4. TypeOK
  BY <1>1, <1>2, <1>3, <1>6, <1>7, TypeParts DEF LimiterInv
<1>5. Places
  BY DEF Init, Places
<1> QED BY <1>1, <1>4, <1>5 DEF TypeInv

\* Every behaviour keeps them.
LEMMA AlwaysTypeInv == Spec => []TypeInv
  BY TypeInvInit, TypeInvStep, PTL DEF Spec

\* Every variable keeps its type, for any users and bounds.
THEOREM TypeCorrect == Spec => []TypeOK
<1>1. TypeInv => TypeOK
  BY DEF TypeInv
<1> QED BY <1>1, AlwaysTypeInv, PTL

\* The read loop drives the rate limiter as RateLimit describes, a new one
\* for every connection.
THEOREM SessionDrivesLimiter == Spec => LimiterSpec
<1>1. Init => LimiterInit
  BY DEF Init, LimiterInit
<1>2. [Next]_vars => [LimiterNext]_limiter
  BY LimiterDriven
<1> QED BY <1>1, <1>2, PTL DEF Spec, LimiterSpec

\* Whatever a tab sends and however its connections come and go, no window
\* of time lets more than Burst and Rate per tick through.
THEOREM RatesHold == Spec => []RateLimited
  BY SessionDrivesLimiter, LimiterHolds, PTL

\* A tab that does not show the board holds neither a socket nor a timer.
THEOREM LeftIsQuiet == Spec => []QuietWhenLeft
<1>1. TypeInv => QuietWhenLeft
  BY DEF TypeInv, Places, QuietWhenLeft
<1> QED BY <1>1, AlwaysTypeInv, PTL

---------------------------------------------------------------------------
(* What a step can do to the socket and the commands *)

socket == <<sock, greeted, carried, upstream, down, mine, peer>>
talk   == <<promise, hubq, fate>>

Aside  == UNCHANGED <<socket, talk>> /\ (UNCHANGED <<you, marks>> \/ ~live)
Ended  == hangUp /\ promise' = failPending /\ hubq' \in {hubq, <<>>} /\ fate' = fate
Dialed == (\E jar \in Users \cup {NoUser} : open(jar)) /\ UNCHANGED talk

Kinds ==
  \/ Aside \/ Ended \/ Dialed
  \/ Accept \/ LookupFails \/ (\E c \in Commands : Send(c))
  \/ ReadCommand \/ RejectCommand \/ KillConnection
  \/ (\E v \in {"applied", "refused"} : HandleCommand(v)) \/ Deliver

\* Each step is one of these.
LEMMA StepKinds ==
  ASSUME PageTypes, AskTypes, Places, [Next]_vars
  PROVE  Kinds
<1>1. ASSUME NEW u \in Users, SubmitLogin(u) PROVE Kinds
  BY <1>1 DEF SubmitLogin, Kinds, socket, talk, Aside, Ended, Dialed, app, store, connection, wire,
     server, limiter
<1>2. CASE ClickLogout
  BY <1>2 DEF ClickLogout, disconnect, stop, Kinds, socket, talk, Aside, Ended, Dialed, app, store,
     connection, wire, server, limiter
<1>3. ASSUME NEW c \in Commands, Send(c) PROVE Kinds
  BY <1>3 DEF Send, Kinds, socket, talk, Aside, Ended, Dialed, app, store, connection, wire,
     server, limiter
<1>4. ASSUME NEW a \in asks, LoadAnswered(a) PROVE Kinds
  <2>1. CASE a.cookie = NoUser \/ loggedOut
    <3>1. ~live
      BY <1>4 DEF LoadAnswered, Places
    <3> QED BY <1>4, <2>1, <3>1 DEF LoadAnswered, enter, Kinds, socket, talk, Aside, store,
      connection, wire
  <2>2. CASE ~(a.cookie = NoUser \/ loggedOut)
    <3>1. cookie' \in Users \cup {NoUser} /\ open(cookie') /\ UNCHANGED talk
      BY <1>4, <2>2 DEF LoadAnswered, enter, jarAfter, talk, PageTypes
    <3> QED BY <3>1 DEF Kinds, Dialed
  <2> QED BY <2>1, <2>2
<1>5. ASSUME NEW a \in asks, AskAnswered(a) PROVE Kinds
  BY <1>5 DEF AskAnswered, jarAfter, leave, disconnect, stop, Current, Kinds, socket, talk, Aside,
     Ended, Dialed, app, store, connection, wire, server, limiter
<1>6. CASE LoginAnswered
  <2>1. CASE loggedOut
    <3>1. ~live
      BY <1>6 DEF LoginAnswered, Places
    <3> QED BY <1>6, <2>1, <3>1 DEF LoginAnswered, enter, Kinds, socket, talk, Aside, connection,
      wire
  <2>2. CASE ~loggedOut
    <3>1. login \in Users \cup {NoUser} /\ open(login) /\ UNCHANGED talk
      BY <1>6, <2>2 DEF LoginAnswered, enter, talk, PageTypes
    <3> QED BY <3>1 DEF Kinds, Dialed
  <2> QED BY <2>1, <2>2
<1>7. CASE LogoutAnswered
  BY <1>7 DEF LogoutAnswered, LogoutEnds, leave, disconnect, stop, Kinds, socket, talk, Aside,
     Ended, Dialed, app, store, connection, wire, server, limiter
<1>8. CASE Accept
  BY <1>8 DEF Accept, Kinds, socket, talk, Aside, Ended, Dialed, app, store, connection, wire,
     server, limiter
<1>9. CASE Refuse
  BY <1>9 DEF Refuse, onclose, Kinds, socket, talk, Aside, Ended, Dialed, app, store, connection,
     wire, server, limiter
<1>10. CASE CloseSeen
  BY <1>10 DEF CloseSeen, onclose, Kinds, socket, talk, Aside, Ended, Dialed, app, store,
     connection, wire, server, limiter
<1>11. CASE TimerFires
  <2>1. cookie \in Users \cup {NoUser} /\ open(cookie) /\ UNCHANGED talk
    BY <1>11 DEF TimerFires, talk, PageTypes
  <2> QED BY <2>1 DEF Kinds, Dialed
<1>12. CASE ReadCommand
  BY <1>12 DEF ReadCommand, Kinds, socket, talk, Aside, Ended, Dialed, app, store, connection,
     wire, server, limiter
<1>13. CASE RejectCommand
  BY <1>13 DEF RejectCommand, Kinds, socket, talk, Aside, Ended, Dialed, app, store, connection,
     wire, server, limiter
<1>14. CASE KillConnection
  BY <1>14 DEF KillConnection, Kinds, socket, talk, Aside, Ended, Dialed, app, store, connection,
     wire, server, limiter
<1>15. ASSUME NEW v \in {"applied", "refused"}, HandleCommand(v) PROVE Kinds
  BY <1>15 DEF HandleCommand, Kinds, socket, talk, Aside, Ended, Dialed, app, store, connection,
     wire, server, limiter
<1>16. CASE Deliver
  BY <1>16 DEF Deliver, hello, Kinds, socket, talk, Aside, Ended, Dialed, app, store, connection,
     wire, server, limiter
<1>17. ASSUME NEW a \in asks, LoadFails(a) PROVE Kinds
  BY <1>17 DEF LoadFails, Fault, Kinds, socket, talk, Aside, Ended, Dialed, app, store, connection,
     wire, server, limiter
<1>18. ASSUME NEW a \in asks, AskFails(a) PROVE Kinds
  BY <1>18 DEF AskFails, Fault, Current, Kinds, socket, talk, Aside, Ended, Dialed, app, store,
     connection, wire, server, limiter
<1>19. ASSUME NEW jar \in Users \cup {NoUser}, LoginFails(jar) PROVE Kinds
  BY <1>19 DEF LoginFails, Fault, Kinds, socket, talk, Aside, Ended, Dialed, app, store,
     connection, wire, server, limiter
<1>20. ASSUME NEW jar \in Users \cup {NoUser}, OtherTab(jar) PROVE Kinds
  BY <1>20 DEF OtherTab, Fault, Kinds, socket, talk, Aside, Ended, Dialed, app, store, connection,
     wire, server, limiter
<1>21. CASE LogoutFails
  BY <1>21 DEF LogoutFails, Fault, LogoutEnds, leave, disconnect, stop, Kinds, socket, talk, Aside,
     Ended, Dialed, app, store, connection, wire, server, limiter
<1>22. CASE DialFails
  BY <1>22 DEF DialFails, Fault, onclose, Kinds, socket, talk, Aside, Ended, Dialed, app, store,
     connection, wire, server, limiter
<1>23. CASE LookupFails
  BY <1>23 DEF LookupFails, Fault, Kinds, socket, talk, Aside, Ended, Dialed, app, store,
     connection, wire, server, limiter
<1>24. CASE Reload
  BY <1>24 DEF Reload, Fault, disconnect, stop, Kinds, socket, talk, Aside, Ended, Dialed, app,
     store, connection, wire, server, limiter
<1>25. ASSUME NEW lost \in BOOLEAN, Break(lost) PROVE Kinds
  BY <1>25 DEF Break, Fault, onclose, Kinds, socket, talk, Aside, Ended, Dialed, app, store,
     connection, wire, server, limiter
<1>26. CASE Tick
  BY <1>26 DEF Tick, Kinds, socket, talk, Aside, Ended, Dialed, app, store, connection, wire,
     server, limiter
<1>27. CASE UNCHANGED vars
  BY <1>27 DEF vars, Kinds, socket, talk, Aside, Ended, Dialed, app, store, connection, wire,
     server, limiter
<1> QED BY <1>1, <1>2, <1>3, <1>4, <1>5, <1>6, <1>7, <1>8, <1>9, <1>10, <1>11, <1>12, <1>13,
   <1>14, <1>15, <1>16, <1>17, <1>18, <1>19, <1>20, <1>21, <1>22, <1>23, <1>24, <1>25, <1>26, <1>27
   DEF Next, UserStep, SystemStep, Failure

---------------------------------------------------------------------------
(* What a socket has said about its user *)

Greets(q, u) == \A i \in DOMAIN q : q[i].type \in {"hello", "snapshot"} => q[i].user = u

\* The server's end is open only while the tab's is.
PeerOpen == peer => sock = "open"

Greetings ==
  /\ sock # "open" => ~greeted /\ down = <<>>
  /\ Greets(down, carried)
  /\ greeted => you = carried

\* Frames that come and go greet the same user.
LEMMA GreetsQueue ==
  ASSUME NEW u
  PROVE  /\ Greets(<<>>, u) /\ Greets(<<Hello(u)>>, u) /\ Greets(<<Hello(u), Snapshot(u)>>, u)
         /\ \A q \in Seq(Frames) : Greets(q, u) /\ q # <<>>
              => Greets(Tail(q), u) /\ (Head(q).type \in {"hello", "snapshot"} => Head(q).user = u)
         /\ \A q \in Seq(Frames) : \A c, p : Greets(q, u) => Greets(Append(q, Answer(c, p)), u)
<1>1. Greets(<<>>, u) /\ Greets(<<Hello(u)>>, u) /\ Greets(<<Hello(u), Snapshot(u)>>, u)
  BY DEF Greets, Hello, Snapshot
<1>2. ASSUME NEW q \in Seq(Frames), Greets(q, u), q # <<>>
      PROVE  Greets(Tail(q), u) /\ (Head(q).type \in {"hello", "snapshot"} => Head(q).user = u)
  BY <1>2 DEF Greets
<1>3. ASSUME NEW q \in Seq(Frames), NEW c, NEW p, Greets(q, u)
      PROVE  Greets(Append(q, Answer(c, p)), u)
  BY <1>3 DEF Greets, Answer
<1> QED BY <1>1, <1>2, <1>3

\* Every step keeps PeerOpen.
LEMMA PeerOpenStep == ASSUME PeerOpen, Kinds PROVE PeerOpen'
<1>1. CASE Aside
  BY <1>1 DEF Aside, socket, PeerOpen
<1>2. CASE Ended
  BY <1>2 DEF Ended, hangUp, PeerOpen
<1>3. CASE Dialed
  BY <1>3 DEF Dialed, open, PeerOpen
<1>4. CASE Accept
  BY <1>4 DEF Accept, PeerOpen
<1>5. CASE LookupFails
  BY <1>5 DEF LookupFails, connection, server, PeerOpen
<1>6. ASSUME NEW c \in Commands, Send(c) PROVE PeerOpen'
  BY <1>6 DEF Send, server, PeerOpen
<1>7. CASE ReadCommand \/ RejectCommand \/ KillConnection
  BY <1>7 DEF ReadCommand, RejectCommand, KillConnection, connection, PeerOpen
<1>8. ASSUME NEW v \in {"applied", "refused"}, HandleCommand(v) PROVE PeerOpen'
  BY <1>8 DEF HandleCommand, connection, PeerOpen
<1>9. CASE Deliver
  BY <1>9 DEF Deliver, server, PeerOpen
<1> QED BY <1>1, <1>2, <1>3, <1>4, <1>5, <1>6, <1>7, <1>8, <1>9 DEF Kinds

\* Every step keeps what a socket says of its user.
LEMMA GreetingsStep ==
  ASSUME SocketTypes, Places, PeerOpen, Greetings, Kinds
  PROVE  Greetings'
<1>1. CASE Aside
  <2>1. sock' = sock /\ greeted' = greeted /\ carried' = carried /\ down' = down
    BY <1>1 DEF Aside, socket
  <2>2. greeted => you' = you
    BY <1>1 DEF Aside, Greetings, Places
  <2> QED BY <2>1, <2>2 DEF Greetings, Greets
<1>2. CASE Ended
  BY <1>2, GreetsQueue DEF Ended, hangUp, Greetings
<1>3. CASE Dialed
  <2>1. sock' = "dialing" /\ ~greeted' /\ down' = <<>>
    BY <1>3 DEF Dialed, open
  <2> QED BY <2>1, GreetsQueue DEF Greetings
<1>4. CASE Accept
  BY <1>4, GreetsQueue DEF Accept, Register, Greetings, store
<1>5. CASE LookupFails
  <2>1. CASE carried' = carried
    BY <1>5, <2>1 DEF LookupFails, Greetings, Greets, connection, store
  <2>2. CASE carried' # carried
    <3>1. sock = "dialing" /\ down' = <<>> /\ ~greeted' /\ sock' = sock
      BY <1>5, <2>2 DEF LookupFails, Greetings, connection
    <3> QED BY <3>1, GreetsQueue DEF Greetings
  <2> QED BY <2>1, <2>2
<1>6. ASSUME NEW c \in Commands, Send(c) PROVE Greetings'
  BY <1>6 DEF Send, Greetings, Greets, store
<1>7. CASE ReadCommand
  BY <1>7 DEF ReadCommand, Greetings, Greets, store, connection
<1>8. CASE RejectCommand
  <2>1. /\ sock' = sock /\ greeted' = greeted /\ carried' = carried /\ you' = you
        /\ down' = Append(down, Answer(Head(upstream), "rate_limited"))
    BY <1>8 DEF RejectCommand, store, connection
  <2>2. sock = "open"
    BY <1>8 DEF RejectCommand, PeerOpen
  <2>3. Greets(down', carried)
    BY <2>1, GreetsQueue DEF Greetings, SocketTypes
  <2> QED BY <2>1, <2>2, <2>3 DEF Greetings
<1>9. CASE KillConnection
  BY <1>9 DEF KillConnection, Greetings, Greets, store, connection
<1>10. ASSUME NEW v \in {"applied", "refused"}, HandleCommand(v) PROVE Greetings'
  <2>1. sock' = sock /\ greeted' = greeted /\ carried' = carried /\ you' = you
    BY <1>10 DEF HandleCommand, store, connection
  <2>2. \/ down' = down
        \/ peer /\ \E s : down' = Append(down, Answer(Head(hubq), s))
    BY <1>10 DEF HandleCommand
  <2>3. CASE down' = down
    BY <2>1, <2>3 DEF Greetings, Greets
  <2>4. ASSUME peer, NEW s, down' = Append(down, Answer(Head(hubq), s)) PROVE Greetings'
    <3>1. sock = "open"
      BY <2>4 DEF PeerOpen
    <3>2. Greets(down', carried)
      BY <2>4, GreetsQueue DEF Greetings, SocketTypes
    <3> QED BY <2>1, <3>1, <3>2 DEF Greetings
  <2> QED BY <2>2, <2>3, <2>4
<1>11. CASE Deliver
  <2>1. /\ sock = "open" /\ sock' = sock /\ carried' = carried /\ down # <<>> /\ down' = Tail(down)
        /\ \/ Head(down).type = "hello" /\ greeted' = TRUE /\ you' = Head(down).user
           \/ greeted' = greeted /\ you' = you
    BY <1>11 DEF Deliver, hello, snapshot
  <2>2. Greets(down', carried) /\ (Head(down).type = "hello" => Head(down).user = carried)
    BY <2>1, GreetsQueue DEF Greetings, SocketTypes
  <2> QED BY <2>1, <2>2 DEF Greetings
<1> QED BY <1>1, <1>2, <1>3, <1>4, <1>5, <1>6, <1>7, <1>8, <1>9, <1>10, <1>11 DEF Kinds

---------------------------------------------------------------------------
(* Whose marks the board shows *)

Comes(q) == \E i \in DOMAIN q : q[i].type = "snapshot"

\* A connected tab has a board, or will get one with what is on its way.
Marked == sock = "open" => carried # NoUser /\ (marks # NoUser \/ Comes(down))

\* A snapshot on its way stays so until it is delivered.
LEMMA ComingQueue ==
  /\ \A u : Comes(<<Hello(u), Snapshot(u)>>)
  /\ \A q \in Seq(Frames) : \A f \in Frames : Comes(q) => Comes(Append(q, f))
  /\ \A q \in Seq(Frames) : Comes(q) /\ Head(q).type # "snapshot" => Comes(Tail(q))
<1>1. ASSUME NEW u PROVE Comes(<<Hello(u), Snapshot(u)>>)
  <2> DEFINE q == <<Hello(u), Snapshot(u)>>
  <2>1. 2 \in DOMAIN q /\ q[2].type = "snapshot"
    BY DEF Snapshot
  <2> QED BY <2>1 DEF Comes
<1>2. ASSUME NEW q \in Seq(Frames), NEW f \in Frames, Comes(q) PROVE Comes(Append(q, f))
  <2>1. PICK i \in DOMAIN q : q[i].type = "snapshot"
    BY <1>2 DEF Comes
  <2>2. i \in DOMAIN Append(q, f) /\ Append(q, f)[i] = q[i]
    OBVIOUS
  <2> QED BY <2>1, <2>2 DEF Comes
<1>3. ASSUME NEW q \in Seq(Frames), Comes(q), Head(q).type # "snapshot" PROVE Comes(Tail(q))
  <2>1. PICK i \in DOMAIN q : q[i].type = "snapshot"
    BY <1>3 DEF Comes
  <2>2. i # 1 /\ i \in 1 .. Len(q) /\ Len(q) \in Nat
    BY <1>3, <2>1
  <2>3. i - 1 \in DOMAIN Tail(q) /\ Tail(q)[i - 1] = q[i]
    BY <2>2
  <2> QED BY <2>1, <2>3 DEF Comes
<1> QED BY <1>1, <1>2, <1>3

\* Every step keeps Marked.
LEMMA MarkedStep ==
  ASSUME SocketTypes, Places, PeerOpen, Marked, Kinds
  PROVE  Marked'
<1>a. down \in Seq(Frames) /\ upstream \in Seq(Commands) /\ hubq \in Seq(Commands)
  BY DEF SocketTypes
<1>1. CASE Aside
  <2>1. sock' = sock /\ carried' = carried /\ down' = down /\ (sock = "open" => marks' = marks)
    BY <1>1 DEF Aside, socket, Places
  <2> QED BY <2>1 DEF Marked, Comes
<1>2. CASE Ended
  BY <1>2 DEF Ended, hangUp, Marked
<1>3. CASE Dialed
  <2>1. sock' = "dialing"
    BY <1>3 DEF Dialed, open
  <2> QED BY <2>1 DEF Marked
<1>4. CASE Accept
  <2>1. carried # NoUser /\ carried' = carried /\ marks' = marks
    BY <1>4 DEF Accept, store
  <2>2. marks # NoUser \/ down' = <<Hello(carried), Snapshot(carried)>>
    BY <1>4 DEF Accept, Register
  <2> QED BY <2>1, <2>2, ComingQueue DEF Marked
<1>5. CASE LookupFails
  <2>1. sock' = sock /\ down' = down /\ marks' = marks /\ (sock = "open" => carried' = carried)
    BY <1>5 DEF LookupFails, connection, store
  <2> QED BY <2>1 DEF Marked, Comes
<1>6. ASSUME NEW c \in Commands, Send(c) PROVE Marked'
  BY <1>6 DEF Send, store, Marked, Comes
<1>7. CASE ReadCommand \/ KillConnection
  BY <1>7 DEF ReadCommand, KillConnection, connection, store, Marked, Comes
<1>8. CASE RejectCommand
  <2>1. /\ sock' = sock /\ carried' = carried /\ marks' = marks /\ upstream # <<>>
        /\ down' = Append(down, Answer(Head(upstream), "rate_limited"))
    BY <1>8 DEF RejectCommand, connection, store
  <2>2. Answer(Head(upstream), "rate_limited") \in Frames
    BY <1>a, <2>1, QueueTypes, FrameTypes
  <2> QED BY <1>a, <2>1, <2>2, ComingQueue DEF Marked
<1>9. ASSUME NEW v \in {"applied", "refused"}, HandleCommand(v) PROVE Marked'
  <2>1. sock' = sock /\ carried' = carried /\ marks' = marks /\ hubq # <<>>
    BY <1>9 DEF HandleCommand, connection, store
  <2>2. down' = down \/ \E f \in Frames : down' = Append(down, f)
    <3>1. Answer(Head(hubq), "ack") \in Frames /\ Answer(Head(hubq), "refused") \in Frames
      BY <1>a, <2>1, QueueTypes, FrameTypes
    <3> QED BY <1>9, <3>1 DEF HandleCommand
  <2> QED BY <1>a, <2>1, <2>2, ComingQueue DEF Marked, Comes
<1>10. CASE Deliver
  <2>1. /\ sock = "open" /\ carried' = carried /\ down # <<>> /\ down' = Tail(down)
        /\ \/ Head(down).type = "snapshot" /\ marks' = Head(down).user
           \/ Head(down).type # "snapshot" /\ marks' = marks
    BY <1>10 DEF Deliver, hello, snapshot
  <2>2. Head(down).type = "snapshot" => Head(down).user \in Users
    BY <1>a, <2>1, QueueTypes, FrameFields
  <2> QED BY <1>a, <2>1, <2>2, ComingQueue, SessionAssumption DEF Marked
<1> QED BY <1>1, <1>2, <1>3, <1>4, <1>5, <1>6, <1>7, <1>8, <1>9, <1>10 DEF Kinds

\* Everybody who has a part in the tab: the board, the socket, the jar.
Parts == {you, marks, carried, cookie} \ {NoUser}

\* They are one, unless another tab has logged in since connect().
OneUser == live /\ ~swapped => \A a, b \in Parts : a = b

\* Nobody new takes part; nobody sees a board; or connect() has just begun.
Narrows == /\ live' => live
           /\ swapped => swapped'
           /\ {you', marks', carried', cookie'} \subseteq {you, marks, carried, cookie, NoUser}
Begins  == you' = NoUser /\ marks' = NoUser /\ carried' = cookie'
Turns   == Narrows \/ ~live' \/ swapped' \/ Begins

\* Each step is one of these.
LEMMA StepTurns ==
  ASSUME PageTypes, SocketTypes, Places, Greetings, [Next]_vars
  PROVE  Turns
<1>1. CASE UNCHANGED <<live, you, marks, swapped, carried, cookie>>
  BY <1>1 DEF Turns, Narrows
<1>2. CASE ~live'
  BY <1>2 DEF Turns
<1>3. ASSUME NEW a \in asks, LoadAnswered(a), live' PROVE Turns
  <2>1. ~live
    BY <1>3 DEF LoadAnswered, Places
  <2>2. enter(cookie') /\ ~loggedOut
    BY <1>3, <2>1 DEF LoadAnswered, enter, store
  <2> QED BY <2>2 DEF enter, connect, initialBoard, open, Turns, Begins
<1>4. ASSUME NEW a \in asks, AskAnswered(a), live' PROVE Turns
  <2>1. a.cookie # NoUser \/ page # "ready"
    BY <1>4 DEF AskAnswered, leave, disconnect
  <2>2. live /\ a.cookie # NoUser
    BY <1>4, <2>1 DEF AskAnswered, Places
  <2> QED BY <1>1, <1>4, <2>2 DEF AskAnswered, jarAfter, wire
<1>5. CASE LoginAnswered /\ live'
  <2>1. ~live /\ cookie' = login /\ enter(login)
    BY <1>5 DEF LoginAnswered, Places
  <2>2. ~loggedOut
    BY <1>5, <2>1 DEF enter
  <2> QED BY <2>1, <2>2 DEF enter, connect, initialBoard, open, Turns, Begins
<1>6. CASE LogoutAnswered \/ LogoutFails
  <2>1. ~live'
    BY <1>6 DEF LogoutAnswered, LogoutFails, LogoutEnds, leave, disconnect, Places
  <2> QED BY <1>2, <2>1
<1>7. CASE ClickLogout \/ Reload
  <2>1. ~live'
    BY <1>7 DEF ClickLogout, Reload, disconnect
  <2> QED BY <1>2, <2>1
<1>8. CASE Refuse \/ DialFails \/ CloseSeen \/ (\E lost \in BOOLEAN : Break(lost))
  <2>1. carried' = NoUser /\ cookie' \in {cookie, NoUser} /\ UNCHANGED store
    BY <1>8 DEF Refuse, DialFails, CloseSeen, Break, onclose, hangUp
  <2> QED BY <2>1 DEF store, Turns, Narrows
<1>9. CASE TimerFires
  <2>1. carried' = cookie /\ cookie' = cookie /\ UNCHANGED store
    BY <1>9 DEF TimerFires, open
  <2> QED BY <2>1 DEF store, Turns, Narrows
<1>10. CASE Deliver
  <2>1. /\ down # <<>> /\ cookie' = cookie /\ carried' = carried /\ live' = live
        /\ swapped' = swapped
        /\ \/ Head(down).type = "hello" /\ you' = Head(down).user /\ marks' = marks
           \/ Head(down).type = "snapshot" /\ you' = you /\ marks' = Head(down).user
           \/ you' = you /\ marks' = marks
    BY <1>10 DEF Deliver, hello, snapshot
  <2>2. Head(down).type \in {"hello", "snapshot"} => Head(down).user = carried
    BY <2>1, GreetsQueue DEF Greetings, SocketTypes
  <2> QED BY <2>1, <2>2 DEF Turns, Narrows
<1>11. ASSUME NEW jar \in Users \cup {NoUser}, LoginFails(jar) PROVE Turns
  <2>1. ~live'
    BY <1>11 DEF LoginFails, Places, store
  <2> QED BY <1>2, <2>1
<1>12. ASSUME NEW jar \in Users \cup {NoUser}, OtherTab(jar) PROVE Turns
  <2>1. swapped' \/ cookie' = NoUser
    BY <1>12 DEF OtherTab
  <2> QED BY <1>12, <2>1 DEF OtherTab, wire, Turns, Narrows
<1>13. CASE LookupFails
  <2>1. carried' \in {carried, NoUser} /\ UNCHANGED <<cookie, store>>
    BY <1>13 DEF LookupFails
  <2> QED BY <2>1 DEF store, Turns, Narrows
<1>14. CASE \/ \E u \in Users : SubmitLogin(u)
            \/ \E c \in Commands : Send(c)
            \/ \E v \in {"applied", "refused"} : HandleCommand(v)
            \/ \E a \in asks : LoadFails(a) \/ AskFails(a)
  BY <1>1, <1>14 DEF SubmitLogin, Send, HandleCommand, LoadFails, AskFails, store, wire
<1>15. CASE \/ Accept \/ ReadCommand \/ RejectCommand \/ KillConnection \/ Tick
            \/ UNCHANGED vars
  BY <1>1, <1>15 DEF Accept, ReadCommand, RejectCommand, KillConnection, Tick, vars, store, wire
<1> QED BY <1>2, <1>3, <1>4, <1>5, <1>6, <1>7, <1>8, <1>9, <1>10, <1>11, <1>12, <1>13, <1>14, <1>15
   DEF Next, UserStep, SystemStep, Failure

\* So every step keeps OneUser.
LEMMA OneUserStep ==
  ASSUME PageTypes, SocketTypes, OneUser, Turns
  PROVE  OneUser'
<1>1. CASE Narrows
  <2>1. Parts' \subseteq Parts
    BY <1>1 DEF Narrows, Parts
  <2>2. live' /\ ~swapped' => live /\ ~swapped
    BY <1>1 DEF Narrows
  <2> QED BY <2>1, <2>2 DEF OneUser
<1>2. CASE ~live' \/ swapped'
  BY <1>2 DEF OneUser
<1>3. CASE Begins
  <2>1. Parts' \subseteq {cookie'}
    BY <1>3 DEF Begins, Parts
  <2> QED BY <2>1 DEF OneUser
<1> QED BY <1>1, <1>2, <1>3 DEF Turns

---------------------------------------------------------------------------
(* A command is in one place, and undecided while it is on its way *)

Elems(q)    == {q[i] : i \in DOMAIN q}
Distinct(q) == \A i, j \in DOMAIN q : q[i] = q[j] => i = j

Flight ==
  /\ Distinct(upstream) /\ Distinct(hubq)
  /\ Elems(upstream) \cap Elems(hubq) = {}
  /\ \A c \in Elems(upstream) \cup Elems(hubq) : fate[c] = "none" /\ promise[c] # "unsent"
  /\ \A c \in Commands : promise[c] = "unsent" => fate[c] = "none"

\* A queue of distinct commands that come and go.
LEMMA DistinctQueue ==
  /\ Distinct(<<>>) /\ Elems(<<>>) = {}
  /\ \A q \in Seq(Commands) : q # <<>> /\ Distinct(q) =>
       /\ Distinct(Tail(q)) /\ Head(q) \in Elems(q) /\ Head(q) \in Commands
       /\ Elems(Tail(q)) = Elems(q) \ {Head(q)}
  /\ \A q \in Seq(Commands), c \in Commands : Distinct(q) /\ c \notin Elems(q) =>
       Distinct(Append(q, c)) /\ Elems(Append(q, c)) = Elems(q) \cup {c}
  /\ \A q \in Seq(Commands) : Elems(q) \subseteq Commands
<1>1. Distinct(<<>>) /\ Elems(<<>>) = {}
  BY DEF Distinct, Elems
<1>2. ASSUME NEW q \in Seq(Commands), q # <<>>, Distinct(q)
      PROVE  /\ Distinct(Tail(q)) /\ Head(q) \in Elems(q) /\ Head(q) \in Commands
             /\ Elems(Tail(q)) = Elems(q) \ {Head(q)}
  <2>1. /\ DOMAIN q = 1 .. Len(q) /\ Len(q) \in Nat /\ Len(q) > 0
        /\ DOMAIN Tail(q) = 1 .. Len(q) - 1
        /\ \A i \in 1 .. Len(q) - 1 : Tail(q)[i] = q[i + 1]
        /\ Head(q) = q[1] /\ 1 \in DOMAIN q
    BY <1>2
  <2>2. Distinct(Tail(q)) /\ Head(q) \in Elems(q) /\ Head(q) \in Commands
    BY <1>2, <2>1 DEF Distinct, Elems
  <2>3. ASSUME NEW x \in Elems(Tail(q)) PROVE x \in Elems(q) \ {Head(q)}
    BY <1>2, <2>1, <2>3 DEF Elems, Distinct
  <2>4. ASSUME NEW x \in Elems(q) \ {Head(q)} PROVE x \in Elems(Tail(q))
    <3>1. PICK i \in 1 .. Len(q) : x = q[i] /\ i # 1
      BY <2>1, <2>4 DEF Elems
    <3>2. i - 1 \in 1 .. Len(q) - 1 /\ Tail(q)[i - 1] = x
      BY <2>1, <3>1
    <3> QED BY <2>1, <3>2 DEF Elems
  <2> QED BY <2>2, <2>3, <2>4
<1>3. ASSUME NEW q \in Seq(Commands), NEW c \in Commands, Distinct(q), c \notin Elems(q)
      PROVE  Distinct(Append(q, c)) /\ Elems(Append(q, c)) = Elems(q) \cup {c}
  <2>1. /\ DOMAIN q = 1 .. Len(q) /\ Len(q) \in Nat
        /\ DOMAIN Append(q, c) = 1 .. Len(q) + 1
        /\ \A i \in 1 .. Len(q) : Append(q, c)[i] = q[i]
        /\ Append(q, c)[Len(q) + 1] = c
    OBVIOUS
  <2>2. \A i \in 1 .. Len(q) : q[i] # c
    BY <1>3, <2>1 DEF Elems
  <2>3. Distinct(Append(q, c))
    BY <1>3, <2>1, <2>2 DEF Distinct
  <2>4. Elems(Append(q, c)) = Elems(q) \cup {c}
    <3>1. ASSUME NEW x \in Elems(Append(q, c)) PROVE x \in Elems(q) \cup {c}
      BY <2>1, <3>1 DEF Elems
    <3>2. ASSUME NEW x \in Elems(q) PROVE x \in Elems(Append(q, c))
      <4>1. PICK i \in 1 .. Len(q) : x = q[i]
        BY <2>1, <3>2 DEF Elems
      <4>2. i \in 1 .. Len(q) + 1 /\ Append(q, c)[i] = x
        BY <2>1, <4>1
      <4> QED BY <2>1, <4>2 DEF Elems
    <3>3. c \in Elems(Append(q, c))
      BY <2>1 DEF Elems
    <3> QED BY <3>1, <3>2, <3>3
  <2> QED BY <2>3, <2>4
<1>4. ASSUME NEW q \in Seq(Commands) PROVE Elems(q) \subseteq Commands
  BY DEF Elems
<1> QED BY <1>1, <1>2, <1>3, <1>4

\* Every step keeps Flight.
LEMMA FlightStep ==
  ASSUME SocketTypes, PromiseTypes, Flight, Kinds
  PROVE  Flight'
<1>a. /\ upstream \in Seq(Commands) /\ hubq \in Seq(Commands)
      /\ promise \in [Commands -> Promises] /\ fate \in [Commands -> Fates]
  BY DEF SocketTypes, PromiseTypes
<1>b. \A c \in Commands : failPending[c] = "unsent" <=> promise[c] = "unsent"
  BY <1>a DEF failPending
<1>c. Elems(upstream) \subseteq Commands /\ Elems(hubq) \subseteq Commands
  BY <1>a, DistinctQueue
<1>1. CASE Aside
  <2>1. upstream' = upstream /\ hubq' = hubq /\ fate' = fate /\ promise' = promise
    BY <1>1 DEF Aside, socket, talk
  <2> QED BY <2>1 DEF Flight, Distinct, Elems
<1>2. CASE Ended
  <2>1. upstream' = <<>> /\ fate' = fate /\ promise' = failPending /\ hubq' \in {hubq, <<>>}
    BY <1>2 DEF Ended, hangUp
  <2>2. Distinct(hubq') /\ Elems(hubq') \subseteq Elems(hubq)
    BY <2>1, DistinctQueue DEF Flight
  <2> QED BY <1>b, <1>c, <2>1, <2>2, DistinctQueue DEF Flight
<1>3. CASE Dialed
  <2>1. upstream' = <<>> /\ hubq' = hubq /\ fate' = fate /\ promise' = promise
    BY <1>3 DEF Dialed, open, talk
  <2> QED BY <2>1, DistinctQueue DEF Flight
<1>4. CASE Accept \/ LookupFails
  <2>1. upstream' = upstream /\ hubq' = hubq /\ fate' = fate /\ promise' = promise
    BY <1>4 DEF Accept, LookupFails, connection, server
  <2> QED BY <2>1 DEF Flight
<1>5. ASSUME NEW c \in Commands, Send(c) PROVE Flight'
  <2>1. /\ promise[c] = "unsent" /\ hubq' = hubq /\ fate' = fate
        /\ upstream' \in {upstream, Append(upstream, c)}
        /\ promise' \in {[promise EXCEPT ![c] = "pending"], [promise EXCEPT ![c] = "disconnected"]}
    BY <1>5 DEF Send, server
  <2>2. c \notin Elems(upstream) /\ c \notin Elems(hubq) /\ fate[c] = "none"
    BY <2>1 DEF Flight
  <2>3. Distinct(upstream') /\ Elems(upstream') \subseteq Elems(upstream) \cup {c}
    <3>1. Distinct(Append(upstream, c)) /\ Elems(Append(upstream, c)) = Elems(upstream) \cup {c}
      BY <1>a, <2>2, DistinctQueue DEF Flight
    <3> QED BY <2>1, <3>1 DEF Flight
  <2>4. \A d \in Commands : promise'[d] = "unsent" => promise[d] = "unsent" /\ d # c
    BY <1>a, <2>1
  <2>5. promise'[c] # "unsent" /\ \A d \in Commands : promise[d] # "unsent" => promise'[d] # "unsent"
    BY <1>a, <2>1
  <2> QED BY <1>c, <2>1, <2>2, <2>3, <2>4, <2>5 DEF Flight
<1>6. CASE ReadCommand
  <2>1. /\ upstream # <<>> /\ upstream' = Tail(upstream) /\ hubq' = Append(hubq, Head(upstream))
        /\ fate' = fate /\ promise' = promise
    BY <1>6 DEF ReadCommand, connection
  <2>2. /\ Head(upstream) \in Elems(upstream) /\ Distinct(upstream')
        /\ Elems(upstream') = Elems(upstream) \ {Head(upstream)}
    BY <1>a, <2>1, DistinctQueue DEF Flight
  <2>3. Distinct(hubq') /\ Elems(hubq') = Elems(hubq) \cup {Head(upstream)}
    BY <1>a, <1>c, <2>1, <2>2, DistinctQueue DEF Flight
  <2> QED BY <2>1, <2>2, <2>3 DEF Flight
<1>7. CASE RejectCommand \/ KillConnection
  <2>1. /\ upstream # <<>> /\ upstream' \in {Tail(upstream), <<>>} /\ hubq' = hubq
        /\ fate' = [fate EXCEPT ![Head(upstream)] = "rate_limited"] /\ promise' = promise
    BY <1>7 DEF RejectCommand, KillConnection, connection
  <2>2. /\ Head(upstream) \in Elems(upstream) /\ Distinct(upstream')
        /\ Elems(upstream') \subseteq Elems(upstream) \ {Head(upstream)}
    BY <1>a, <2>1, DistinctQueue DEF Flight
  <2>3. \A d \in Commands : d # Head(upstream) => fate'[d] = fate[d]
    BY <1>a, <2>1
  <2>4. promise[Head(upstream)] # "unsent" /\ Head(upstream) \notin Elems(hubq)
    BY <2>2 DEF Flight
  <2> QED BY <1>c, <2>1, <2>2, <2>3, <2>4 DEF Flight
<1>8. ASSUME NEW v \in {"applied", "refused"}, HandleCommand(v) PROVE Flight'
  <2>1. /\ hubq # <<>> /\ hubq' = Tail(hubq) /\ upstream' = upstream
        /\ fate' = [fate EXCEPT ![Head(hubq)] = v] /\ promise' = promise
    BY <1>8 DEF HandleCommand, connection
  <2>2. /\ Head(hubq) \in Elems(hubq) /\ Distinct(hubq')
        /\ Elems(hubq') = Elems(hubq) \ {Head(hubq)}
    BY <1>a, <2>1, DistinctQueue DEF Flight
  <2>3. \A d \in Commands : d # Head(hubq) => fate'[d] = fate[d]
    BY <1>a, <2>1
  <2>4. promise[Head(hubq)] # "unsent" /\ Head(hubq) \notin Elems(upstream)
    BY <2>2 DEF Flight
  <2> QED BY <1>c, <2>1, <2>2, <2>3, <2>4 DEF Flight
<1>9. CASE Deliver
  <2>1. upstream' = upstream /\ hubq' = hubq /\ fate' = fate
    BY <1>9 DEF Deliver, server
  <2>2. \A d \in Commands : promise'[d] = "unsent" <=> promise[d] = "unsent"
    <3>1. Head(down) \in Frames
      BY <1>9, QueueTypes DEF Deliver, SocketTypes
    <3>2. promise' = promise \/ (Head(down).type = "answer" /\ promise[Head(down).cmd] = "pending"
             /\ promise' = [promise EXCEPT ![Head(down).cmd] = Head(down).says])
      BY <1>9 DEF Deliver
    <3>3. Head(down).type = "answer" => Head(down).says # "unsent"
      BY <3>1, FrameFields DEF Verdicts
    <3> QED BY <1>a, <3>2, <3>3
  <2> QED BY <1>c, <2>1, <2>2 DEF Flight
<1> QED BY <1>1, <1>2, <1>3, <1>4, <1>5, <1>6, <1>7, <1>8, <1>9 DEF Kinds

---------------------------------------------------------------------------
(* Answers *)

IsTrue(c, s, f) == IF s = "ack" THEN f[c] = "applied" ELSE f[c] = s

TrueAnswers(q, f) == \A i \in DOMAIN q : q[i].type = "answer" => IsTrue(q[i].cmd, q[i].says, f)

Answers == TrueAnswers(down, fate) /\ AnswersAreTrue

\* What became of a command is final.
LEMMA FateIsFinal ==
  ASSUME SocketTypes, PromiseTypes, Flight, Kinds, NEW c \in Commands
  PROVE  fate[c] = "none" \/ fate'[c] = fate[c]
<1>a. /\ upstream \in Seq(Commands) /\ hubq \in Seq(Commands) /\ fate \in [Commands -> Fates]
  BY DEF SocketTypes, PromiseTypes
<1>1. \/ fate' = fate
      \/ upstream # <<>> /\ fate' = [fate EXCEPT ![Head(upstream)] = "rate_limited"]
      \/ hubq # <<>> /\ \E v \in Fates : fate' = [fate EXCEPT ![Head(hubq)] = v]
  <2> USE DEF Kinds
  <2>1. CASE Aside \/ Ended \/ Dialed \/ Accept \/ LookupFails \/ (\E d \in Commands : Send(d))
    BY <2>1 DEF Aside, Ended, Dialed, talk, Accept, LookupFails, Send, server
  <2>2. CASE ReadCommand \/ RejectCommand \/ KillConnection \/ Deliver
    BY <2>2 DEF ReadCommand, RejectCommand, KillConnection, Deliver, server
  <2>3. ASSUME NEW v \in {"applied", "refused"}, HandleCommand(v) PROVE <1>1!3
    BY <2>3 DEF HandleCommand, Fates
  <2> QED BY <2>1, <2>2, <2>3
<1>2. upstream # <<>> => fate[Head(upstream)] = "none"
  BY <1>a, DistinctQueue DEF Flight
<1>3. hubq # <<>> => fate[Head(hubq)] = "none"
  BY <1>a, DistinctQueue DEF Flight
<1> QED BY <1>a, <1>1, <1>2, <1>3

\* Answers on their way stay true, and those that come are.
LEMMA TrueQueue ==
  ASSUME NEW f, NEW g, \A c \in Commands : f[c] = "none" \/ g[c] = f[c]
  PROVE  /\ TrueAnswers(<<>>, g)
         /\ \A u : TrueAnswers(<<Hello(u)>>, g) /\ TrueAnswers(<<Hello(u), Snapshot(u)>>, g)
         /\ \A q \in Seq(Frames) : TrueAnswers(q, f) => TrueAnswers(q, g)
         /\ \A q \in Seq(Frames), c \in Commands, s \in Verdicts :
              TrueAnswers(q, f) /\ IsTrue(c, s, g) => TrueAnswers(Append(q, Answer(c, s)), g)
         /\ \A q \in Seq(Frames) : TrueAnswers(q, f) /\ q # <<>> =>
              /\ TrueAnswers(Tail(q), g)
              /\ Head(q).type = "answer" => IsTrue(Head(q).cmd, Head(q).says, g)
<1>1. /\ TrueAnswers(<<>>, g)
      /\ \A u : TrueAnswers(<<Hello(u)>>, g) /\ TrueAnswers(<<Hello(u), Snapshot(u)>>, g)
  BY DEF TrueAnswers, Hello, Snapshot
<1>2. ASSUME NEW q \in Seq(Frames), TrueAnswers(q, f) PROVE TrueAnswers(q, g)
  <2>1. ASSUME NEW i \in DOMAIN q, q[i].type = "answer" PROVE IsTrue(q[i].cmd, q[i].says, g)
    <3>1. q[i] \in Frames
      OBVIOUS
    <3>2. q[i].cmd \in Commands /\ q[i].says \in Verdicts
      BY <2>1, <3>1, FrameFields
    <3>3. IsTrue(q[i].cmd, q[i].says, f)
      BY <1>2, <2>1 DEF TrueAnswers
    <3> QED BY <3>2, <3>3 DEF IsTrue, Verdicts
  <2> QED BY <2>1 DEF TrueAnswers
<1>3. ASSUME NEW q \in Seq(Frames), NEW c \in Commands, NEW s \in Verdicts,
             TrueAnswers(q, f), IsTrue(c, s, g)
      PROVE  TrueAnswers(Append(q, Answer(c, s)), g)
  <2>1. TrueAnswers(q, g)
    BY <1>2, <1>3
  <2>2. Answer(c, s).cmd = c /\ Answer(c, s).says = s
    BY DEF Answer
  <2>3. ASSUME NEW i \in DOMAIN Append(q, Answer(c, s)), Append(q, Answer(c, s))[i].type = "answer"
        PROVE  IsTrue(Append(q, Answer(c, s))[i].cmd, Append(q, Answer(c, s))[i].says, g)
    <3>1. CASE i \in DOMAIN q
      <4>1. Append(q, Answer(c, s))[i] = q[i]
        BY <3>1
      <4> QED BY <2>1, <2>3, <3>1, <4>1 DEF TrueAnswers
    <3>2. CASE i \notin DOMAIN q
      <4>1. Append(q, Answer(c, s))[i] = Answer(c, s)
        BY <3>2
      <4> QED BY <1>3, <2>2, <4>1
    <3> QED BY <3>1, <3>2
  <2> QED BY <2>3 DEF TrueAnswers
<1>4. ASSUME NEW q \in Seq(Frames), TrueAnswers(q, f), q # <<>>
      PROVE  /\ TrueAnswers(Tail(q), g)
             /\ Head(q).type = "answer" => IsTrue(Head(q).cmd, Head(q).says, g)
  <2>1. TrueAnswers(q, g)
    BY <1>2, <1>4
  <2>2. /\ 1 \in DOMAIN q /\ Head(q) = q[1]
        /\ \A i \in DOMAIN Tail(q) : i + 1 \in DOMAIN q /\ Tail(q)[i] = q[i + 1]
    BY <1>4
  <2> QED BY <2>1, <2>2 DEF TrueAnswers
<1> QED BY <1>1, <1>2, <1>3, <1>4

\* A promise that is settled by an answer is settled as the answer says.
LEMMA AnswersStep ==
  ASSUME SocketTypes, PromiseTypes, Flight, Answers, Kinds
  PROVE  Answers'
<1>a. /\ down \in Seq(Frames) /\ upstream \in Seq(Commands) /\ hubq \in Seq(Commands)
      /\ promise \in [Commands -> Promises] /\ fate \in [Commands -> Fates]
  BY DEF SocketTypes, PromiseTypes
<1>b. \A c \in Commands : fate[c] = "none" \/ fate'[c] = fate[c]
  BY FateIsFinal
<1>c. \A c \in Commands : promise[c] \in Verdicts => IsTrue(c, promise[c], fate)
  BY DEF Answers, AnswersAreTrue, IsTrue, Verdicts
<1>d. TrueAnswers(down, fate) /\ TrueAnswers(down, fate') /\ TrueAnswers(<<>>, fate')
  BY <1>a, <1>b, TrueQueue DEF Answers
<1>e. ASSUME \A c \in Commands : promise'[c] \in Verdicts =>
               \/ promise'[c] = promise[c]
               \/ IsTrue(c, promise'[c], fate')
      PROVE  AnswersAreTrue'
  <2>1. ASSUME NEW c \in Commands, promise'[c] \in Verdicts PROVE IsTrue(c, promise'[c], fate')
    <3>1. CASE promise'[c] = promise[c]
      <4>1. IsTrue(c, promise[c], fate) /\ promise[c] \in Verdicts
        BY <1>c, <2>1, <3>1
      <4> QED BY <1>b, <3>1, <4>1 DEF IsTrue, Verdicts
    <3> QED BY <1>e, <2>1, <3>1
  <2> QED BY <2>1 DEF AnswersAreTrue, IsTrue, Verdicts
<1>1. CASE Aside
  <2>1. down' = down /\ promise' = promise
    BY <1>1 DEF Aside, socket, talk
  <2> QED BY <1>d, <1>e, <2>1 DEF Answers
<1>2. CASE Ended
  <2>1. down' = <<>> /\ promise' = failPending
    BY <1>2 DEF Ended, hangUp
  <2>2. \A c \in Commands : promise'[c] \in Verdicts => promise'[c] = promise[c]
    BY <1>a, <2>1 DEF failPending, Verdicts
  <2> QED BY <1>d, <1>e, <2>1, <2>2 DEF Answers
<1>3. CASE Dialed
  <2>1. down' = <<>> /\ promise' = promise
    BY <1>3 DEF Dialed, open, talk
  <2> QED BY <1>d, <1>e, <2>1 DEF Answers
<1>4. CASE Accept
  <2>1. promise' = promise /\ down' \in {<<Hello(carried)>>, <<Hello(carried), Snapshot(carried)>>}
    BY <1>4 DEF Accept, Register
  <2>2. TrueAnswers(down', fate')
    BY <2>1, <1>b, TrueQueue
  <2> QED BY <1>e, <2>1, <2>2 DEF Answers
<1>5. CASE LookupFails \/ ReadCommand \/ KillConnection
  <2>1. down' = down /\ promise' = promise
    BY <1>5 DEF LookupFails, ReadCommand, KillConnection, connection
  <2> QED BY <1>d, <1>e, <2>1 DEF Answers
<1>6. ASSUME NEW c \in Commands, Send(c) PROVE Answers'
  <2>1. /\ down' = down
        /\ promise' \in {[promise EXCEPT ![c] = "pending"], [promise EXCEPT ![c] = "disconnected"]}
    BY <1>6 DEF Send
  <2>2. \A d \in Commands : promise'[d] \in Verdicts => promise'[d] = promise[d]
    BY <1>a, <2>1 DEF Verdicts
  <2> QED BY <1>d, <1>e, <2>1, <2>2 DEF Answers
<1>7. CASE RejectCommand
  <2>1. /\ upstream # <<>> /\ promise' = promise
        /\ fate' = [fate EXCEPT ![Head(upstream)] = "rate_limited"]
        /\ down' = Append(down, Answer(Head(upstream), "rate_limited"))
    BY <1>7 DEF RejectCommand, connection
  <2>2. Head(upstream) \in Commands /\ IsTrue(Head(upstream), "rate_limited", fate')
    BY <1>a, <2>1 DEF IsTrue
  <2>3. TrueAnswers(down', fate')
    BY <1>a, <1>b, <1>d, <2>1, <2>2, TrueQueue, FrameTypes
  <2> QED BY <1>e, <2>1, <2>3 DEF Answers
<1>8. ASSUME NEW v \in {"applied", "refused"}, HandleCommand(v) PROVE Answers'
  <2>. DEFINE s == IF v = "applied" THEN "ack" ELSE "refused"
  <2>1. /\ hubq # <<>> /\ promise' = promise
        /\ fate' = [fate EXCEPT ![Head(hubq)] = v]
        /\ down' \in {down, Append(down, Answer(Head(hubq), s))}
    BY <1>8 DEF HandleCommand, connection
  <2>2. Head(hubq) \in Commands /\ s \in Verdicts /\ IsTrue(Head(hubq), s, fate')
    BY <1>a, <2>1 DEF IsTrue, Verdicts
  <2> HIDE DEF s
  <2>3. TrueAnswers(Append(down, Answer(Head(hubq), s)), fate')
    BY <1>a, <1>b, <1>d, <2>2, TrueQueue
  <2> QED BY <1>d, <1>e, <2>1, <2>3 DEF Answers
<1>9. CASE Deliver
  <2>1. /\ down # <<>> /\ down' = Tail(down) /\ fate' = fate
        /\ \/ promise' = promise
           \/ /\ Head(down).type = "answer"
              /\ promise' = [promise EXCEPT ![Head(down).cmd] = Head(down).says]
    BY <1>9 DEF Deliver, server
  <2>2. /\ TrueAnswers(down', fate')
        /\ Head(down).type = "answer" => IsTrue(Head(down).cmd, Head(down).says, fate')
    BY <1>a, <1>b, <1>d, <2>1, TrueQueue
  <2>3. \A c \in Commands : promise'[c] = promise[c] \/ IsTrue(c, promise'[c], fate')
    BY <1>a, <2>1, <2>2
  <2> QED BY <1>e, <2>2, <2>3 DEF Answers
<1> QED BY <1>1, <1>2, <1>3, <1>4, <1>5, <1>6, <1>7, <1>8, <1>9 DEF Kinds

---------------------------------------------------------------------------
(* The invariants together *)

SessionInv == TypeInv /\ PeerOpen /\ Greetings /\ Marked /\ OneUser /\ Flight /\ Answers

\* The page that starts to load satisfies them.
LEMMA SessionInvInit == Init => SessionInv
<1> SUFFICES ASSUME Init PROVE SessionInv
  OBVIOUS
<1>1. TypeInv
  BY TypeInvInit
<1>2. PeerOpen /\ Greetings /\ Marked /\ OneUser
  BY GreetsQueue DEF Init, PeerOpen, Greetings, Marked, OneUser
<1>3. Flight
  BY DistinctQueue DEF Init, Flight
<1>4. Answers
  BY DEF Init, Answers, AnswersAreTrue, TrueAnswers
<1> QED BY <1>1, <1>2, <1>3, <1>4 DEF SessionInv

\* Every step keeps them.
LEMMA SessionInvStep == SessionInv /\ [Next]_vars => SessionInv'
<1> SUFFICES ASSUME SessionInv, [Next]_vars PROVE SessionInv'
  OBVIOUS
<1> USE DEF SessionInv
<1>1. TypeInv'
  BY TypeInvStep
<1>2. PageTypes /\ AskTypes /\ SocketTypes /\ PromiseTypes /\ Places
  BY TypeParts DEF TypeInv
<1>3. Kinds /\ Turns
  BY <1>2, StepKinds, StepTurns
<1> QED BY <1>1, <1>2, <1>3, PeerOpenStep, GreetingsStep, MarkedStep, OneUserStep, FlightStep,
   AnswersStep

\* Whose marks a board shows, in a tab that has caught up: the user's for
\* whom the server runs its commands, unless another tab has logged in.
LEMMA OwnMarks ==
  ASSUME SocketTypes, Places, Greetings, Marked, OneUser
  PROVE  MarksAreOwn
<1> SUFFICES ASSUME CaughtUp, ~swapped PROVE you = carried /\ marks = carried
  BY DEF MarksAreOwn
<1>1. sock = "open" /\ you = carried /\ carried # NoUser /\ live
  BY DEF CaughtUp, Greetings, Marked, Places
<1>2. marks # NoUser
  BY <1>1 DEF CaughtUp, Marked, Comes
<1> QED BY <1>1, <1>2 DEF OneUser, Parts

\* Whoever logs in, however often and whoever has been there before, is shown
\* none of an earlier user's marks; only another tab's login can do that.
THEOREM MarksStayOwn == Spec => []MarksAreOwn
<1>1. SessionInv => MarksAreOwn
  BY TypeParts, OwnMarks DEF SessionInv, TypeInv
<1> QED BY <1>1, SessionInvInit, SessionInvStep, PTL DEF Spec

\* What the promise of a command says is what became of the command.
THEOREM PromisesTellTheTruth == Spec => []AnswersAreTrue
<1>1. SessionInv => AnswersAreTrue
  BY DEF SessionInv, Answers
<1> QED BY <1>1, SessionInvInit, SessionInvStep, PTL DEF Spec
=============================================================================

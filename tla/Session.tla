------------------------------ MODULE Session ------------------------------
(***************************************************************************)
(* One browser tab, from loading the page to the answers of its commands:  *)
(* App and Workspace (src/web/src/App.tsx), the store's connect and        *)
(* disconnect (store/store.ts), the reconnecting Connection (api/ws.ts),   *)
(* the login form, and of the server the cookie checks (auth.go), the      *)
(* handshake, the read loop with its rate limiter (ws.go) and the hub's    *)
(* queue of commands.  Other tabs share the browser's cookie jar; the      *)
(* network and the server fail.                                            *)
(*                                                                         *)
(* A cookie is the user it was signed for: one that is missing, expired or *)
(* does not verify is NoUser.  Which events the board has seen is Hub's    *)
(* matter: here a connection carries its hello, snapshots and the answers  *)
(* to commands, and the board shows somebody's personal marks, which are   *)
(* what votes and stars are offered by: voted and starred of the notes,    *)
(* and votesUsed.                                                          *)
(***************************************************************************)
EXTENDS RateLimit, Sequences

CONSTANTS Users, NoUser,
          MaxSessions,   \* bounds the Connections the tab makes
          MaxSends,      \* bounds the commands
          MaxLogouts,    \* bounds the logout requests under way together
          MaxFaults      \* bounds failures and what other tabs do

ASSUME SessionAssumption ==
  /\ NoUser \notin Users
  /\ MaxSessions \in Nat \ {0} /\ MaxSends \in Nat /\ MaxLogouts \in Nat /\ MaxFaults \in Nat

Commands == 1 .. MaxSends

VARIABLES
  cookie,                  \* the cookie jar
  page, login, logouts,    \* App: the session's status, requests under way
  live, loggedOut, you,    \* store: conn # null, loggedOut, you.id
  marks,                   \* whose marks the last snapshot brought; NoUser before `ready'
  swapped,                 \* history variable: since connect(), another tab has logged in
  session,                 \* how many Connections were made; the last is conn
  sock, greeted, timer,    \* Connection: ws, open()'s greeted, timer
  promise,                 \* Connection.pending, and how promises were settled
  asks,                    \* fetchMe requests under way
  carried, upstream, down, \* the socket: its cookie, frames either way
  peer, hubq, mine,        \* server: conn, Hub.ops, what came over this socket
  fate,                    \* history variable: what became of each command
  faults

app        == <<page, login, logouts>>
store      == <<live, loggedOut, you, marks, swapped, session>>
connection == <<sock, greeted, timer, promise>>
wire       == <<carried, upstream, down, mine>>
server     == <<peer, hubq, fate>>
vars       == <<cookie, app, store, connection, asks, wire, server, faults, limiter>>

Promises == {"unsent", "pending", "ack", "refused", "rate_limited", "disconnected"}
Verdicts == {"ack", "refused", "rate_limited"}
Fates    == {"none", "applied", "refused", "rate_limited"}
Asks     == [of : 0 .. MaxSessions, cookie : Users \cup {NoUser}]
Frames   == [type : {"hello", "snapshot"}, user : Users]
            \cup [type : {"answer"}, cmd : Commands, says : Verdicts]

Hello(u)     == [type |-> "hello", user |-> u]
Snapshot(u)  == [type |-> "snapshot", user |-> u]
Answer(c, s) == [type |-> "answer", cmd |-> c, says |-> s]

TypeOK ==
  /\ LimiterTypeOK
  /\ cookie \in Users \cup {NoUser}
  /\ page \in {"loading", "unreachable", "anonymous", "ready"}
  /\ login \in Users \cup {NoUser} /\ logouts \in 0 .. MaxLogouts
  /\ live \in BOOLEAN /\ loggedOut \in BOOLEAN /\ you \in Users \cup {NoUser}
  /\ marks \in Users \cup {NoUser} /\ swapped \in BOOLEAN
  /\ session \in 0 .. MaxSessions
  /\ sock \in {"none", "dialing", "open"} /\ greeted \in BOOLEAN /\ timer \in BOOLEAN
  /\ promise \in [Commands -> Promises]
  /\ asks \subseteq Asks
  /\ carried \in Users \cup {NoUser}
  /\ upstream \in Seq(Commands) /\ down \in Seq(Frames) /\ mine \subseteq Commands
  /\ peer \in BOOLEAN /\ hubq \in Seq(Commands)
  /\ fate \in [Commands -> Fates]
  /\ faults \in 0 .. MaxFaults

\* The page starts to load: fetchMe is sent with whatever cookie there is.
Init ==
  /\ cookie \in Users \cup {NoUser}
  /\ page = "loading" /\ login = NoUser /\ logouts = 0
  /\ live = FALSE /\ loggedOut = FALSE /\ session = 0
  /\ you = NoUser /\ marks = NoUser /\ swapped = FALSE
  /\ sock = "none" /\ greeted = FALSE /\ timer = FALSE
  /\ promise = [c \in Commands |-> "unsent"]
  /\ asks = {[of |-> 0, cookie |-> cookie]}
  /\ carried = NoUser /\ upstream = <<>> /\ down = <<>> /\ mine = {}
  /\ peer = FALSE /\ hubq = <<>> /\ fate = [c \in Commands |-> "none"]
  /\ faults = 0
  /\ FreshInit

Fault == faults < MaxFaults /\ faults' = faults + 1

---------------------------------------------------------------------------
(* Connection (api/ws.ts) *)

keepPending == promise                                    \* mutant: no failPending()
failPending == [c \in Commands |-> IF promise[c] = "pending" THEN "disconnected" ELSE promise[c]]

\* Nothing of the socket is left, on either side: what was under way is lost.
hangUp ==
  /\ sock' = "none" /\ greeted' = FALSE /\ carried' = NoUser
  /\ upstream' = <<>> /\ down' = <<>> /\ mine' = {} /\ peer' = FALSE /\ Fresh

stopKeepsTimer ==                                         \* mutant: no clearTimeout
  /\ hangUp /\ UNCHANGED timer /\ promise' = failPending
stop == hangUp /\ timer' = FALSE /\ promise' = failPending

\* open(): a new socket is dialed, with the cookie jar's cookie.
open(jar) ==
  /\ sock' = "dialing" /\ greeted' = FALSE /\ carried' = jar
  /\ upstream' = <<>> /\ down' = <<>> /\ mine' = {} /\ peer' = FALSE /\ Fresh

\* onclose, with the cookie fetchMe is then sent with.  After hello the tab
\* just waits before it dials again; before it, it asks who it is.
onclose(jar) ==
  /\ hangUp
  /\ promise' = failPending
  /\ IF greeted THEN timer' = TRUE /\ UNCHANGED asks
     ELSE UNCHANGED timer /\ asks' = asks \cup {[of |-> session, cookie |-> jar]}

---------------------------------------------------------------------------
(* App and Workspace *)

\* disconnect()
disconnect == live' = FALSE /\ stop

initialBoard == you' = NoUser /\ marks' = NoUser /\ swapped' = FALSE

\* connect(), without the Connection it makes.
connectKeepsBoard ==                                      \* mutant: set({ status, loggedOut })
  loggedOut' = FALSE /\ you' = NoUser /\ swapped' = FALSE /\ UNCHANGED marks
connect == loggedOut' = FALSE /\ initialBoard

\* setSession(ready): Workspace is mounted and its two effects run.  The
\* first connects and clears loggedOut; the second goes by loggedOut as it
\* was rendered, and takes the user back to the login form: the connection
\* is stopped while it is being dialed.
enter(jar) ==
  /\ session' = session + 1
  /\ connect
  /\ IF loggedOut
     THEN /\ page' = "anonymous" /\ UNCHANGED <<live, connection, wire, peer, limiter>>
     ELSE /\ page' = "ready" /\ live' = TRUE
          /\ open(jar) /\ UNCHANGED <<timer, promise>>

\* setSession(anonymous): Workspace, if it was there, is unmounted.
leave == page' = "anonymous" /\ IF page = "ready" THEN disconnect
                                ELSE UNCHANGED <<live, connection, wire, peer, limiter>>

\* requireUser's 401 clears the cookie, whichever is in the jar by then.
jarAfter(a) == IF a.cookie = NoUser THEN NoUser ELSE cookie

\* App's fetchMe is answered.
LoadAnswered(a) ==
  /\ a \in asks /\ a.of = 0
  /\ asks' = asks \ {a}
  /\ cookie' = jarAfter(a)
  /\ IF a.cookie = NoUser
     THEN page' = "anonymous" /\ UNCHANGED <<store, connection, wire, peer, limiter>>
     ELSE enter(cookie')
  /\ UNCHANGED <<login, logouts, hubq, fate, faults>>

\* It fails: the page says so, and stays so until it is reloaded.
LoadFails(a) ==
  /\ Fault
  /\ a \in asks /\ a.of = 0
  /\ asks' = asks \ {a}
  /\ page' = "unreachable"
  /\ UNCHANGED <<cookie, login, logouts, store, connection, wire, server, limiter>>

\* The page is loaded again: nothing of the old one is left.
Reload ==
  /\ Fault
  /\ session < MaxSessions
  /\ page' = "loading" /\ login' = NoUser /\ logouts' = 0
  /\ disconnect /\ loggedOut' = FALSE /\ initialBoard
  /\ asks' = {[of |-> 0, cookie |-> cookie]}
  /\ UNCHANGED <<cookie, session, hubq, fate>>

\* Login's submit; its button is disabled while a login is under way.
SubmitLogin(u) ==
  /\ page = "anonymous" /\ login = NoUser /\ session < MaxSessions
  /\ login' = u
  /\ UNCHANGED <<cookie, page, logouts, store, connection, asks, wire, server, faults, limiter>>

\* handleLogin resumed or created the user: its answer sets the cookie.
LoginAnswered ==
  /\ login # NoUser
  /\ cookie' = login /\ login' = NoUser
  /\ enter(login)
  /\ UNCHANGED <<logouts, asks, hubq, fate, faults>>

\* The login is refused or fails.  Set-Cookie may be there already when the
\* rest fails: handleLogin sets it before it reads the votes.
LoginFails(jar) ==
  /\ Fault
  /\ login # NoUser /\ jar \in {cookie, login}
  /\ cookie' = jar /\ login' = NoUser
  /\ UNCHANGED <<page, logouts, store, connection, asks, wire, server, limiter>>

\* handleLogout: the connection is stopped at once; the page stays until
\* the request is over, and the button can be used again meanwhile.
ClickLogout ==
  /\ page = "ready" /\ logouts < MaxLogouts
  /\ logouts' = logouts + 1
  /\ disconnect
  /\ UNCHANGED <<cookie, page, login, loggedOut, you, marks, swapped, session, asks, hubq, fate,
                 faults>>

\* logout() is over: 204 and 401 both clear the cookie, and an error is
\* caught.  onLoggedOut is called in any case.
LogoutEnds(jar) ==
  /\ logouts > 0 /\ logouts' = logouts - 1
  /\ cookie' = jar
  /\ leave
  /\ UNCHANGED <<login, loggedOut, you, marks, swapped, session, asks, hubq, fate>>
LogoutAnswered == LogoutEnds(NoUser) /\ UNCHANGED faults
LogoutFails    == Fault /\ LogoutEnds(cookie)

---------------------------------------------------------------------------
(* Dialing, losing the connection and trying again *)

\* Register: hello first, then a snapshot; or, for a board that has one, just
\* what it has missed since, if the ring still holds that.
Register(u) ==
  \/ down' = <<Hello(u), Snapshot(u)>>
  \/ marks # NoUser /\ down' = <<Hello(u)>>

\* handleWS behind requireUser: the upgrade is accepted.
Accept ==
  /\ sock = "dialing" /\ carried # NoUser
  /\ sock' = "open" /\ peer' = TRUE
  /\ Register(carried)
  /\ UNCHANGED <<cookie, app, store, greeted, timer, promise, asks, carried, upstream, mine,
                 hubq, fate, faults, limiter>>

\* requireUser answers 401: the socket closes before it was open.
Refuse ==
  /\ sock = "dialing" /\ carried = NoUser
  /\ cookie' = NoUser
  /\ onclose(NoUser)
  /\ UNCHANGED <<app, store, hubq, fate, faults>>

\* The server is not reached.
DialFails ==
  /\ Fault
  /\ sock = "dialing"
  /\ onclose(cookie)
  /\ UNCHANGED <<cookie, app, store, hubq, fate>>

\* The connection breaks; or the server process dies, and with it what the
\* hub had not run.
Break(lost) ==
  /\ Fault
  /\ sock = "open"
  /\ onclose(cookie)
  /\ hubq' = IF lost THEN <<>> ELSE hubq
  /\ UNCHANGED <<cookie, app, store, fate>>

\* The tab sees that the server has closed.  What was written before may or
\* may not have been delivered.
CloseSeen ==
  /\ sock = "open" /\ ~peer
  /\ onclose(cookie)
  /\ UNCHANGED <<cookie, app, store, hubq, fate, faults>>

Current(a) == live /\ a.of = session

\* shouldRetry: fetchMe answered.  A Connection that was stopped meanwhile
\* does not dial again, but what its answer says of the session counts.
AskAnswered(a) ==
  /\ a \in asks /\ a.of > 0
  /\ asks' = asks \ {a}
  /\ cookie' = jarAfter(a)
  /\ IF a.cookie = NoUser
     THEN /\ loggedOut' = TRUE
          /\ IF page = "ready" THEN leave ELSE UNCHANGED <<page, live, connection, wire, peer, limiter>>
     ELSE /\ timer' = (timer \/ Current(a))
          /\ UNCHANGED <<page, live, loggedOut, sock, greeted, promise, wire, peer, limiter>>
  /\ UNCHANGED <<login, logouts, you, marks, swapped, session, hubq, fate, faults>>

\* mutant: shouldRetry gives up when the server is unreachable
AskGivesUp(a) ==
  /\ Fault
  /\ a \in asks /\ a.of > 0
  /\ asks' = asks \ {a}
  /\ UNCHANGED <<cookie, app, store, connection, wire, server, limiter>>

\* shouldRetry's catch: the server is unreachable, so keep trying.
AskFails(a) ==
  /\ Fault
  /\ a \in asks /\ a.of > 0
  /\ asks' = asks \ {a}
  /\ timer' = (timer \/ Current(a))
  /\ UNCHANGED <<cookie, app, store, sock, greeted, promise, wire, server, limiter>>

TimerFires ==
  /\ timer /\ timer' = FALSE
  /\ open(cookie)
  /\ UNCHANGED <<cookie, app, store, promise, asks, hubq, fate, faults>>

---------------------------------------------------------------------------
(* Commands and their answers *)

\* The next command.  There is a board to send commands from once it is ready.
Send(c) ==
  /\ promise[c] = "unsent" /\ \A b \in 1 .. c - 1 : promise[b] # "unsent"
  /\ page = "ready" /\ marks # NoUser
  /\ IF live /\ sock = "open"
     THEN /\ promise' = [promise EXCEPT ![c] = "pending"]
          /\ upstream' = IF peer THEN Append(upstream, c) ELSE upstream
          /\ mine' = mine \cup {c}
     ELSE /\ promise' = [promise EXCEPT ![c] = "disconnected"]
          /\ UNCHANGED <<upstream, mine>>
  /\ UNCHANGED <<cookie, app, store, sock, greeted, timer, asks, carried, down, server, faults,
                 limiter>>

\* readLoop, for a command within the limit: Submit.
ReadCommand ==
  /\ peer /\ upstream # <<>>
  /\ Allow
  /\ upstream' = Tail(upstream)
  /\ hubq' = Append(hubq, Head(upstream))
  /\ UNCHANGED <<cookie, app, store, connection, asks, carried, down, mine, peer, fate, faults>>

\* mutant: no `continue' after the rate_limited error
RejectAndSubmit ==
  /\ peer /\ upstream # <<>>
  /\ Violate /\ violations' < MaxViolations
  /\ upstream' = Tail(upstream)
  /\ fate' = [fate EXCEPT ![Head(upstream)] = "rate_limited"]
  /\ down' = Append(down, Answer(Head(upstream), "rate_limited"))
  /\ hubq' = Append(hubq, Head(upstream))
  /\ UNCHANGED <<cookie, app, store, connection, asks, carried, mine, peer, faults>>

\* readLoop, for one above it.
RejectCommand ==
  /\ peer /\ upstream # <<>>
  /\ Violate /\ violations' < MaxViolations
  /\ upstream' = Tail(upstream)
  /\ fate' = [fate EXCEPT ![Head(upstream)] = "rate_limited"]
  /\ down' = Append(down, Answer(Head(upstream), "rate_limited"))
  /\ UNCHANGED <<cookie, app, store, connection, asks, carried, mine, peer, hubq, faults>>

\* readLoop, for the last violation the server puts up with.
KillConnection ==
  /\ peer /\ upstream # <<>>
  /\ Violate /\ violations' >= MaxViolations
  /\ peer' = FALSE /\ upstream' = <<>>
  /\ fate' = [fate EXCEPT ![Head(upstream)] = "rate_limited"]
  /\ UNCHANGED <<cookie, app, store, connection, asks, carried, down, mine, hubq, faults>>

\* handleCommand: the command is applied or refused.  It runs even if the
\* connection it came over is gone; then nobody gets the answer.
HandleCommand(verdict) ==
  /\ hubq # <<>>
  /\ hubq' = Tail(hubq)
  /\ LET c == Head(hubq)
     IN  /\ fate' = [fate EXCEPT ![c] = verdict]
         /\ down' = IF peer /\ c \in mine
                    THEN Append(down, Answer(c, IF verdict = "applied" THEN "ack" ELSE "refused"))
                    ELSE down
  /\ UNCHANGED <<cookie, app, store, connection, asks, carried, upstream, mine, peer, faults,
                 limiter>>

\* applyFrame: hello says who you are, and leaves the board alone.
hello(u)    == greeted' = TRUE /\ you' = u /\ UNCHANGED marks
snapshot(u) == marks' = u /\ UNCHANGED <<greeted, you>>

\* onmessage.
Deliver ==
  /\ sock = "open" /\ down # <<>>
  /\ down' = Tail(down)
  /\ LET f == Head(down)
     IN  \/ /\ f.type = "hello"
            /\ hello(f.user) /\ UNCHANGED promise
         \/ /\ f.type = "snapshot"
            /\ snapshot(f.user) /\ UNCHANGED promise
         \/ /\ f.type = "answer"
            /\ promise' = IF promise[f.cmd] = "pending"
                          THEN [promise EXCEPT ![f.cmd] = f.says] ELSE promise
            /\ UNCHANGED <<greeted, you, marks>>
  /\ UNCHANGED <<cookie, app, live, loggedOut, swapped, session, sock, timer, asks, carried,
                 upstream, mine, server, faults, limiter>>

---------------------------------------------------------------------------
\* Another tab logs in or out, or the cookie expires.
OtherTab(u) ==
  /\ Fault
  /\ u # cookie /\ cookie' = u
  /\ swapped' = (swapped \/ u # NoUser)
  /\ UNCHANGED <<app, live, loggedOut, you, marks, session, connection, asks, wire, server,
                 limiter>>

Tick ==
  /\ peer /\ Elapse
  /\ UNCHANGED <<cookie, app, store, connection, asks, wire, server, faults>>

\* authenticate: a user who cannot be read from the database counts as one
\* who is not logged in, so the request will be answered with 401.
LookupFails ==
  /\ Fault
  /\ \/ \E a \in asks : /\ a.cookie # NoUser
                       /\ asks' = (asks \ {a}) \cup {[a EXCEPT !.cookie = NoUser]}
                       /\ UNCHANGED carried
     \/ sock = "dialing" /\ carried # NoUser /\ carried' = NoUser /\ UNCHANGED asks
  /\ UNCHANGED <<cookie, app, store, connection, upstream, down, mine, server, limiter>>

UserStep ==
  \/ \E u \in Users : SubmitLogin(u)
  \/ ClickLogout
  \/ \E c \in Commands : Send(c)

\* What happens by itself, with a network and a server that work.
SystemStep ==
  \/ \E a \in asks : LoadAnswered(a) \/ AskAnswered(a)
  \/ LoginAnswered \/ LogoutAnswered
  \/ Accept \/ Refuse \/ CloseSeen \/ TimerFires
  \/ ReadCommand \/ RejectCommand \/ KillConnection
  \/ \E v \in {"applied", "refused"} : HandleCommand(v)
  \/ Deliver

Failure ==
  \/ \E a \in asks : LoadFails(a) \/ AskFails(a)
  \/ \E jar \in Users \cup {NoUser} : LoginFails(jar) \/ OtherTab(jar)
  \/ LogoutFails \/ DialFails \/ LookupFails \/ Reload
  \/ \E lost \in BOOLEAN : Break(lost)

Next == UserStep \/ SystemStep \/ Failure \/ Tick

\* The network delivers and the server works while it runs: what nothing
\* fails happens in the end.  Users, failures and the clock owe nothing.
Fairness == WF_vars(SystemStep)

Spec == Init /\ [][Next]_vars /\ Fairness

---------------------------------------------------------------------------
(* Properties *)

\* Only a tab that shows the board holds a socket or a timer that will dial
\* one: disconnect() leaves nothing behind that could bring a user who has
\* left back on line (ws.ts, stop).
QuietWhenLeft == sock # "none" \/ timer => page = "ready" /\ live

\* The tab is connected, and has all it was sent to begin with.
CaughtUp == sock = "open" /\ greeted /\ \A i \in DOMAIN down : down[i].type # "snapshot"

\* In a tab that has caught up, `you' and the marks are the user's whose
\* commands the server takes it to send: whoever logs in after somebody else
\* begins with an empty board (store.ts, connect), and no late answer, retry
\* or replay brings the earlier user's marks back.  Only a login in another
\* tab of the browser can.
MarksAreOwn == CaughtUp /\ ~swapped => you = carried /\ marks = carried

\* The same whatever other tabs do.  protocol.ts says of `voted' "Whether
\* this user voted for it"; SPEC 2 of a star that it is "visible only to its
\* owner"; reducer.ts of votesUsed "Vote dots this user has placed".
ShowsYourMarks == CaughtUp => marks = carried

\* What a command's promise says is what became of the command, once and
\* for all; only `disconnected' leaves it open (ws.ts, send).
AnswersAreTrue ==
  \A c \in Commands :
    /\ promise[c] = "ack" => fate[c] = "applied"
    /\ promise[c] \in {"refused", "rate_limited"} => fate[c] = promise[c]

\* No command's promise stays open for ever, however its connection fares
\* (ws.ts, failPending).  Only so many commands are sent, so it is enough
\* that again and again none is open.
EverySendSettles == []<>(\A c \in Commands : promise[c] # "pending")

\* The page comes to rest: it shows the login form, or that the server
\* could not be reached at the start, or the board with a connection that
\* has been greeted.  It does not reconnect for ever.
ComesToRest == []<>(page \in {"anonymous", "unreachable"} \/ (page = "ready" /\ greeted))

\* A login the server accepts opens the board (App.tsx, onLogin).
LoginOpensBoard == [][(login # NoUser /\ cookie' = login /\ login' = NoUser /\ faults' = faults)
                      => page' = "ready"]_vars
=============================================================================

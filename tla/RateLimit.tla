----------------------------- MODULE RateLimit -----------------------------
(***************************************************************************)
(* The rate limiter of one WebSocket connection (src/internal/server/      *)
(* ws.go): the token bucket of readLoop and its counter of consecutive     *)
(* violations.                                                             *)
(*                                                                         *)
(* Tokens are counted in fractions: a command costs Cost, the bucket holds *)
(* at most Burst and gains Rate per tick.  Like the code the model refills *)
(* only when a command is read; `idle' is now - last, in ticks.            *)
(***************************************************************************)
EXTENDS Integers

CONSTANTS Burst,         \* rateBurst
          Rate,          \* rateLimit, per tick
          Cost,          \* the 1 that allow compares with and subtracts
          MaxViolations, \* maxViolations
          MaxIdle        \* bounds now - last: time enough to fill the bucket

ASSUME RateAssumption ==
  /\ Burst \in Nat \ {0} /\ Rate \in Nat \ {0} /\ Cost \in Nat \ {0}
  /\ MaxViolations \in Nat \ {0}
  /\ Cost <= Burst
  /\ MaxIdle \in Nat /\ MaxIdle * Rate >= Burst

VARIABLES tokens, idle,  \* tokenBucket
          violations,    \* readLoop's counter
          surplus        \* history variable: see below

limiter == <<tokens, idle, violations, surplus>>

(***************************************************************************)
(* surplus meters what was let through, whatever the bucket says: every    *)
(* command let through adds Cost, every tick takes Rate away, never below  *)
(* zero.  It is the largest excess of a window of time that ends now: what *)
(* the window let through, less Rate times its length.                     *)
(***************************************************************************)

LimiterTypeOK ==
  /\ tokens \in 0 .. Burst /\ idle \in 0 .. MaxIdle /\ violations \in Nat /\ surplus \in Nat

\* A new connection: the zero bucket is filled by its first command.
Fresh == tokens' = Burst /\ idle' = 0 /\ violations' = 0 /\ surplus' = 0

FreshInit == tokens = Burst /\ idle = 0 /\ violations = 0 /\ surplus = 0

refilledUncapped == tokens + idle * Rate                  \* mutant: no min(rateBurst, ...)
\* The tokens allow finds: what was left and what came in since, up to Burst.
refilled == IF tokens + idle * Rate > Burst THEN Burst ELSE tokens + idle * Rate

\* allow returns true: one token is spent, and the violations start anew.
Allow ==
  /\ refilled >= Cost
  /\ tokens' = refilled - Cost /\ idle' = 0
  /\ violations' = 0
  /\ surplus' = surplus + Cost

\* allow returns false: the bucket is brought up to date, nothing is spent.
Violate ==
  /\ refilled < Cost
  /\ tokens' = refilled /\ idle' = 0
  /\ violations' = violations + 1
  /\ UNCHANGED surplus

\* Time passes.  It counts from the connection's first command on, when the
\* bucket is no longer full, and up to MaxIdle ticks, which fill it again.
Elapse ==
  /\ idle' = IF tokens < Burst /\ idle < MaxIdle THEN idle + 1 ELSE idle
  /\ surplus' = IF surplus > Rate THEN surplus - Rate ELSE 0
  /\ UNCHANGED <<tokens, violations>>

LimiterInit == FreshInit
LimiterNext == Fresh \/ Allow \/ Violate \/ Elapse
LimiterSpec == LimiterInit /\ [][LimiterNext]_limiter

---------------------------------------------------------------------------
(* Properties *)

\* In every window of time a connection gets at most Burst, and Rate for
\* each tick of the window, through to the hub (SPEC 8.2: "20 commands/s
\* sustained, burst 60").
RateLimited == surplus <= Burst
=============================================================================

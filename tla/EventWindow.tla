------------------------------ MODULE EventWindow ------------------------------
(***************************************************************************)
(* What the hub's buffer of recent events promises (SPEC 8.1): of the      *)
(* whole history of sequenced events it keeps the most recent ones, at     *)
(* most Capacity, and can hand a client everything it missed since a given *)
(* seq exactly when all of that is still kept.                             *)
(*                                                                         *)
(* The history is the sequence of all events ever committed; the event     *)
(* with seq s is history[s].  A restart forgets the buffer but not the     *)
(* history, and may find events that were committed by a process that died *)
(* before it published them.                                               *)
(***************************************************************************)
EXTENDS Integers, Sequences

CONSTANTS Payload,    \* what an event says, and to whom
          Capacity,   \* events kept (defaultRingSize is 10000)
          MaxSeq      \* bound on the length of the history

VARIABLES history,    \* every event committed so far, by seq
          kept        \* how many of the last ones are still kept

windowVars == <<history, kept>>

Init == history = <<>> /\ kept = 0

Publish(e) ==
  /\ Len(history) < MaxSeq
  /\ history' = Append(history, e)
  /\ kept' = IF kept < Capacity THEN kept + 1 ELSE kept

\* The process stops and starts again; nothing of the buffer survives.  It
\* may stop between committing events and publishing them, so the history
\* found on restart may be longer than the one published before.
Restart ==
  /\ history' \in Seq(Payload)
  /\ Len(history) <= Len(history') /\ Len(history') <= MaxSeq
  /\ \A i \in 1 .. Len(history) : history'[i] = history[i]
  /\ kept' = 0

Next == Restart \/ \E e \in Payload : Publish(e)

Spec == Init /\ [][Next]_windowVars

---------------------------------------------------------------------------

\* Whether a client at seq since can be told everything it missed.
Available(since) == since <= Len(history) /\ Len(history) - since <= kept

\* What such a client missed, oldest first.
Missed(since) == SubSeq(history, since + 1, Len(history))
=============================================================================

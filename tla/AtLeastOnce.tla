----------------------------- MODULE AtLeastOnce -----------------------------
(***************************************************************************)
(* What the consumers of messaging/ promise, whatever the broker: a        *)
(* message is settled, that is, not to be delivered any more, only when a  *)
(* handler has succeeded with it.  It may be handled again, and what is    *)
(* settled may be unsettled (an offset that moves back).                   *)
(***************************************************************************)
CONSTANT Message

VARIABLES
  done,    \* messages that a handler has succeeded with
  settled  \* messages that the broker does not deliver any more

Init == done = {} /\ settled = {}

Handle(m) == done' = done \cup {m} /\ UNCHANGED settled

Settle(S) == settled' = S /\ UNCHANGED done

Next == (\E m \in Message : Handle(m)) \/ (\E S \in SUBSET done : Settle(S))

Spec == Init /\ [][Next]_<<done, settled>>
=============================================================================

------------------------------- MODULE Duplex -------------------------------
(***************************************************************************)
(* What a relay promises: two byte streams that share one end.  A stream   *)
(* is given bytes and transmits them in order, each once; it may be ended, *)
(* and is given nothing from then on.  A session whose streams have both   *)
(* ended is closed, and so is one with an ended stream that could not      *)
(* transmit all it had been given at once (shutdown does not wait for the  *)
(* send queue).  It may also be closed at any time, which is final.        *)
(*                                                                         *)
(* Streams are counted in bytes: bytes are transmitted in the order given, *)
(* so how many is all there is to say.                                     *)
(***************************************************************************)
EXTENDS Naturals

CONSTANT Streams

VARIABLES
  given,   \* the number of bytes a stream was given
  sent,    \* the number of bytes it has transmitted
  ended,   \* nothing more will be given to it
  closed

vars == <<given, sent, ended, closed>>

(* A session begins with a reply to transmit. *)
Init ==
  /\ given \in [Streams -> Nat]
  /\ sent = [s \in Streams |-> 0]
  /\ ended = [s \in Streams |-> FALSE]
  /\ closed = FALSE

(* A count goes up, on the stream s only. *)
Grows(s, before, after) ==
  /\ after \in [Streams -> Nat]
  /\ after[s] > before[s]
  /\ \A t \in Streams \ {s} : after[t] = before[t]

Give(s) ==
  /\ ~closed /\ ~ended[s]
  /\ Grows(s, given, given')
  /\ closed' \in BOOLEAN
  /\ UNCHANGED <<sent, ended>>

Transmit(s) ==
  /\ ~closed
  /\ Grows(s, sent, sent')
  /\ sent'[s] <= given[s]
  /\ closed' \in BOOLEAN
  /\ (ended[s] /\ sent'[s] < given[s]) => closed'
  /\ UNCHANGED <<given, ended>>

End(s) ==
  /\ ~closed /\ ~ended[s]
  /\ ended' = [ended EXCEPT ![s] = TRUE]
  /\ closed' = \A t \in Streams : ended'[t]
  /\ UNCHANGED <<given, sent>>

Close ==
  /\ closed' = TRUE
  /\ UNCHANGED <<given, sent, ended>>

Next ==
  \/ \E s \in Streams : Give(s) \/ Transmit(s) \/ End(s)
  \/ Close

Spec == Init /\ [][Next]_vars
=============================================================================

---------------------------- MODULE ResolveOnce ----------------------------
(***************************************************************************)
(* What the resolver promises to those who call ResolveAsync: the callback *)
(* of a request is called once, perhaps before the call returns, and some  *)
(* time or other in any case.  Several requests may be answered at once.   *)
(***************************************************************************)
CONSTANT Requests

VARIABLE phase   \* of a request: "idle", "asked", "answered"

Init == phase = [r \in Requests |-> "idle"]

Ask(r) ==
  /\ phase[r] = "idle"
  /\ \E p \in {"asked", "answered"} : phase' = [phase EXCEPT ![r] = p]

Answer(rs) ==
  /\ rs # {} /\ \A r \in rs : phase[r] = "asked"
  /\ phase' = [r \in Requests |-> IF r \in rs THEN "answered" ELSE phase[r]]

Next ==
  \/ \E r \in Requests : Ask(r)
  \/ \E rs \in SUBSET Requests : Answer(rs)

Answered == \A r \in Requests : phase[r] = "asked" ~> phase[r] = "answered"

Safety == Init /\ [][Next]_phase

Spec == Safety /\ Answered
=============================================================================

--------------------------- MODULE AssetLifecycle ---------------------------
(***************************************************************************)
(* What a client may rely on about the stages of an image, whatever        *)
(* breaks: the abstract specification the platform implements.             *)
(*                                                                         *)
(* An image is registered, accepted, worked on and settled.  A settled one *)
(* is settled again or removed; only a failed one goes back to waiting.    *)
(* A removed one never returns.                                            *)
(***************************************************************************)
CONSTANT AssetId

VARIABLE stage

Stage == {"none", "registered", "waiting", "working", "done", "failed", "removed"}

Live == {"registered", "waiting", "working", "done", "failed"}

Init == stage \in [AssetId -> {"none", "waiting"}]

Move(a, from, to) ==
  /\ stage[a] \in from
  /\ stage' = [stage EXCEPT ![a] = to]

Register(a) == Move(a, {"none"}, "registered")
Accept(a)   == Move(a, {"registered"}, "waiting")
Withdraw(a) == Move(a, {"waiting"}, "registered")
Start(a)    == Move(a, {"registered", "waiting"}, "working")
Settle(a)   == \E outcome \in {"done", "failed"} : Move(a, Live, outcome)
Again(a)    == Move(a, {"failed", "waiting", "working"}, "waiting")

Remove(S) ==
  /\ \A a \in S : stage[a] \in Live
  /\ stage' = [a \in AssetId |-> IF a \in S THEN "removed" ELSE stage[a]]

Next ==
  \/ \E a \in AssetId :
       Register(a) \/ Accept(a) \/ Withdraw(a) \/ Start(a) \/ Settle(a) \/ Again(a)
  \/ \E S \in SUBSET AssetId : Remove(S)

Spec == Init /\ [][Next]_stage

=============================================================================

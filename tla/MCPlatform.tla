----------------------------- MODULE MCPlatform -----------------------------
(***************************************************************************)
(* MediaPlatform for TLC: what the configurations of its runs share.       *)
(***************************************************************************)
EXTENDS MediaPlatform, TLC

\* Replicas are interchangeable, and so are the API's slots.  Only for runs
\* without liveness properties.
Replicas == Permutations(Workers) \cup Permutations(Requests)

=============================================================================

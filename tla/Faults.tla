------------------------------- MODULE Faults -------------------------------
(***************************************************************************)
(* The failures the environment injects, and the budget that bounds them.  *)
(*                                                                         *)
(* Nothing here is code of the repository: it is what the code defends     *)
(* itself against.  A step of a component that may fail conjoins           *)
(* Fault(kind); a step that does not fail conjoins Smooth.                 *)
(***************************************************************************)
EXTENDS Naturals

CONSTANTS
  MaxFaults,   \* bound: how many failures one behaviour may contain
  FaultKinds   \* the kinds of failure the environment may inject:
               \*   "database"    a transaction fails and leaves nothing behind
               \*   "commit"      a transaction commits and its answer is lost
               \*   "store"       a call to the object or document store fails
               \*   "publish"     the broker cannot be reached by a publisher
               \*   "confirm"     the broker takes a message, its confirm is lost
               \*   "refused"     the broker answers a publication with a refusal
               \*   "connection"  a consumer's connection to the broker drops
               \*   "crash"       a consumer process dies
               \*   "request"     an API request is cut short (crash, timeout)
               \*   "channel"     the delivery channel raises an error

ASSUME FaultsAssumption == MaxFaults \in Nat

VARIABLE faults   \* failures injected so far

FaultsTypeOK == faults \in 0 .. MaxFaults

FaultsInit == faults = 0

Fault(kind) ==
  /\ kind \in FaultKinds
  /\ faults < MaxFaults
  /\ faults' = faults + 1

Smooth == UNCHANGED faults

=============================================================================

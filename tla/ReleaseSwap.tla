----------------------------- MODULE ReleaseSwap -----------------------------
(***************************************************************************)
(* What the deploy cycle promises about the traffic: a version is put in   *)
(* front of users only after it answered a health check, the swap never    *)
(* goes from one version to another without passing through nothing, and   *)
(* nothing but an accepted swap changes what is served.                    *)
(***************************************************************************)
CONSTANTS Versions, None

VARIABLES
  placed,     \* the version traffic is routed to, or None
  incoming,   \* the version being swapped in, or None
  trusted     \* the versions that answered a health check

swapVars == <<placed, incoming, trusted>>

SwapInit == placed = None /\ incoming = None /\ trusted = {}

Prove(v) == trusted' = trusted \cup {v} /\ UNCHANGED <<placed, incoming>>

Accept(v) ==
  /\ incoming = None
  /\ v \in trusted
  /\ incoming' = v
  /\ UNCHANGED <<placed, trusted>>

Remove == incoming # None /\ placed' = None /\ UNCHANGED <<incoming, trusted>>

Place ==
  /\ incoming # None
  /\ placed = None
  /\ placed' = incoming
  /\ UNCHANGED <<incoming, trusted>>

(* A swap ends when it is done, and can be cut short at any point.         *)
End == incoming # None /\ incoming' = None /\ UNCHANGED <<placed, trusted>>

SwapNext ==
  \/ \E v \in Versions : Prove(v) \/ Accept(v)
  \/ Remove \/ Place \/ End

SwapSpec == SwapInit /\ [][SwapNext]_swapVars

-----------------------------------------------------------------------------
(* Only a version that answered its health check is ever served            *)
(* (deployment.py: "activate only if healthy").                            *)
OnlyTrustedPlaced == placed # None => placed \in trusted
=============================================================================

---------------------------- MODULE PushDelivery ----------------------------
(***************************************************************************)
(* What webhook delivery promises for one push, whoever asks and however   *)
(* often the provider repeats itself: the push is accepted once, reported  *)
(* delivered only when its deploy is on record (or when it concerns a      *)
(* branch nobody deploys), and otherwise set aside, from where an operator *)
(* may bring it back.  A delivered push stays delivered.  On record means  *)
(* that a deploy log exists: the log may be of a deploy that failed, even  *)
(* before the agent was asked, and the next attempt reports it delivered.  *)
(***************************************************************************)
CONSTANT
    Pushes    \* provider deliveries

VARIABLES
    phase,    \* push -> what the master reports of it
    deployed, \* pushes with a deploy log at the target, whatever became of it
    skipped   \* pushes that ask for no deploy

pushVars == <<phase, deployed, skipped>>

PushInit ==
    /\ phase = [k \in Pushes |-> "unknown"]
    /\ deployed = {}
    /\ skipped \subseteq Pushes

Move(k, from, to) ==
    /\ phase[k] = from
    /\ phase' = [phase EXCEPT ![k] = to]
    /\ UNCHANGED <<deployed, skipped>>

AcceptPush(k) == Move(k, "unknown", "queued")

DeliverPush(k) ==
    /\ k \in deployed \cup skipped
    /\ Move(k, "queued", "delivered")

SetAside(k) == Move(k, "queued", "dead")

BringBack(k) == Move(k, "dead", "queued")

\* A deploy may come late, when the push was already set aside.
DeployPush(k) ==
    /\ phase[k] # "unknown" /\ k \notin deployed
    /\ deployed' = deployed \cup {k}
    /\ UNCHANGED <<phase, skipped>>

PushNext ==
    \E k \in Pushes : AcceptPush(k) \/ DeliverPush(k) \/ SetAside(k) \/ BringBack(k) \/ DeployPush(k)

PushSpec == PushInit /\ [][PushNext]_pushVars

=============================================================================

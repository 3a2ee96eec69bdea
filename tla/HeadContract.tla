----------------------------- MODULE HeadContract -----------------------------
(***************************************************************************)
(* What the reader of a dossier may rely on, whatever executions, users    *)
(* and operators do (RULES 1 to 10 of services/artifacts/engine.py): one   *)
(* build of a head at a time, which ends once; a build that succeeds is    *)
(* shown at once, and what is shown is never but a build that succeeded;   *)
(* only with its head does a build go, and then they all go.               *)
(* DossierBuild shows that the engine implements it.                       *)
(***************************************************************************)
CONSTANTS Builds, NoBuild

VARIABLES
  state, \* state[b] of each build of the head
  shown  \* the build whose revision is current

contractVars == <<state, shown>>

Init ==
  /\ state = [b \in Builds |-> "none"]
  /\ shown = NoBuild

Becomes(b, from, to) == state[b] = from /\ state' = [state EXCEPT ![b] = to]

Begin(b) ==
  /\ \A c \in Builds : state[c] # "active"
  /\ Becomes(b, "none", "active")
  /\ UNCHANGED shown

Succeed(b) == Becomes(b, "active", "Succeeded") /\ shown' = b

GiveUp(b) ==
  /\ Becomes(b, "active", "Failed") \/ Becomes(b, "active", "Cancelled")
  /\ UNCHANGED shown

Show(b) == state[b] = "Succeeded" /\ shown' = b /\ UNCHANGED state

Purge ==
  /\ state' = [b \in Builds |-> IF state[b] = "none" THEN "none" ELSE "gone"]
  /\ shown' = NoBuild

Next == Purge \/ \E b \in Builds : Begin(b) \/ Succeed(b) \/ GiveUp(b) \/ Show(b)

Spec == Init /\ [][Next]_contractVars

=============================================================================

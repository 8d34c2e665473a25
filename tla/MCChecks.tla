-------------------------------- MODULE MCChecks -------------------------------
(****************************************************************************)
(* Small instances of Checks: two iOS builds, one of them listed for a      *)
(* second phone later, and one Galaxy build, a share of one container each. *)
(****************************************************************************)
EXTENDS Checks, TLC

CONSTANTS new, old, galaxy, p, q

MCPhoneOrder == <<p, q>>

MCBuildOrder == <<old, new, galaxy>>

MCShare == [f \in Feeds |-> 1]

MCListed == (old :> {p}) @@ (new :> {p, q}) @@ (galaxy :> {p})

AllBuilds == {Builds}
================================================================================

--------------------------- MODULE PostLifecycle ----------------------------
(***************************************************************************)
(* What the publishing pipeline promises about one post, whatever happens  *)
(* inside a publish run: the recorded state only follows the transition    *)
(* table, a feed post can only appear while the record says "publishing",  *)
(* and the record only says "published" of a post that is on the feed.     *)
(* Publisher implements this specification (see Publisher!Lifecycle).      *)
(***************************************************************************)
EXTENDS Manifest

VARIABLES
  state,    \* the state recorded in manifest.json
  live      \* at least one feed post of this post exists on Instagram

lifecycleVars == <<state, live>>

LInit ==
  /\ state \in States \ {"published", "archived"}
  /\ live = FALSE

(* The record moves along the transition table.                            *)
Advance ==
  /\ state' \in validTransitions[state]
  /\ state' \in {"published", "archived"} => live
  /\ UNCHANGED live

(* The post goes live: only in the "publishing" state.                     *)
GoLive ==
  /\ state = "publishing"
  /\ live' = TRUE
  /\ UNCHANGED state

LNext == Advance \/ GoLive

LSpec == LInit /\ [][LNext]_lifecycleVars

=============================================================================

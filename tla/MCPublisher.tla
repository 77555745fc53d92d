---------------------------- MODULE MCPublisher -----------------------------
(***************************************************************************)
(* Values for the constants of Publisher and PublisherProperties.          *)
(***************************************************************************)
EXTENDS PublisherProperties

OneTarget == {"facebook"}

PlainRun == [dry |-> FALSE, cleanup |-> FALSE, strict |-> FALSE, targets |-> {}]

(* The default configuration, and the other end: cleanup on failure,       *)
(* strict syndication to both destinations.                                *)
PlainAndStrict ==
  {PlainRun,
   [dry |-> FALSE, cleanup |-> TRUE, strict |-> TRUE, targets |-> Targets]}

(* Every combination of options.                                           *)
AllRuns == Options

SharingRun ==
  {[dry |-> FALSE, cleanup |-> FALSE, strict |-> FALSE, targets |-> OneTarget]}

OnlyPlain == {PlainRun}

=============================================================================

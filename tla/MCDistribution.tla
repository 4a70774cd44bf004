--------------------------- MODULE MCDistribution ---------------------------
(***************************************************************************)
(* Distribution, and what it implements, on small sets.                    *)
(***************************************************************************)
EXTENDS DistributionRefinement

\* One that serves all and one that serves a single service.
SomeConfigurations == {Channels, {"discord"}}

=============================================================================

------------------------- MODULE MCCacheLifecycle --------------------------
(***************************************************************************)
(* Instance of CacheLifecycle for TLC.                                     *)
(***************************************************************************)
EXTENDS CacheLifecycle

Spec0 == [version |-> 1, features |-> {}, paused |-> FALSE]

\* A plain cache, one that asks for another version and for every feature, and
\* a paused one.
MCSpecs ==
    { Spec0,
      [Spec0 EXCEPT !.version = 2, !.features = {"monitoring", "sidecar policies"}],
      [Spec0 EXCEPT !.paused = TRUE] }

\* The next release drops a version and has a rule the plain cache breaks.
MCReleases ==
    { [versions |-> {1, 2}, refuses |-> {}], [versions |-> {1}, refuses |-> {Spec0}] }

=============================================================================

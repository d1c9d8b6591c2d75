------------------------ MODULE MCInvalidationProxy ------------------------
(***************************************************************************)
(* Instance of InvalidationProxy for TLC: two caches of the same name in   *)
(* two namespaces, one with two pods and one purge host, one with one pod. *)
(***************************************************************************)
EXTENDS InvalidationProxy, TLC

c1 == [ns |-> "n1", name |-> "web"]

c2 == [ns |-> "n2", name |-> "web"]

MCCaches == {c1, c2}

MCPodsOf == c1 :> {"p1", "p2"} @@ c2 :> {"p3"}

MCSpecHosts == c1 :> 1 @@ c2 :> 0

Ask(host, kind, items) == [host |-> host, kind |-> kind, items |-> items, bad |-> FALSE]

\* Too many hosts, an unreadable body, an unknown path, a bare name, a purge
\* that relies on the spec's hosts, and two items where that is possible.
MCRequests ==
    { Ask(ShortHost(c1), "purge", 0), Ask(FqdnHost(c2), "purge", 2),
      Ask(ShortHost(c2), "purge", 3), Ask(<<"web">>, "purge", 1),
      Ask(ShortHost(c2), "ban", 1), Ask(FqdnHost(c2), "xkey", 2),
      [Ask(ShortHost(c2), "xkey", 1) EXCEPT !.bad = TRUE],
      Ask(ShortHost(c2), "other", 0) }

=============================================================================

------------------------------ MODULE MCTracer ------------------------------
(***************************************************************************)
(* Instance of Tracer for TLC: a fetch, then restarted, two requests that  *)
(* coalesce with it and compete for the parking lot, and after a restart   *)
(* of varnishd an unsampled group.                                         *)
(***************************************************************************)
EXTENDS Tracer, TLC

MCVxids == 1..6

Request(vxid) ==
    [vxid |-> vxid, life |-> 1, outcome |-> "spans", fetches |-> {}, hit |-> {},
     waiter |-> FALSE, continues |-> FALSE, restarts |-> {}]

MCTx ==
    "miss"  :> [Request(1) EXCEPT !.fetches = {5}, !.restarts = {6}] @@
    "wait"  :> [Request(2) EXCEPT !.hit = {5}, !.waiter = TRUE] @@
    "late"  :> [Request(3) EXCEPT !.hit = {5}, !.waiter = TRUE] @@
    "quiet" :> [Request(2) EXCEPT !.life = 2, !.outcome = "unsampled"]

MCGroups == DOMAIN MCTx

=============================================================================

------------------------------ MODULE MCLinker ------------------------------
(***************************************************************************)
(* Instances of Linker for TLC.                                            *)
(***************************************************************************)
EXTENDS Linker, TLC

MCVxids == 1..6

Request(vxid) ==
    [vxid |-> vxid, life |-> 1, outcome |-> "spans", fetches |-> {}, hit |-> {},
     waiter |-> FALSE, continues |-> FALSE, restarts |-> {}]

\* "first" is restarted as "second", which fetches for "wait1" and "wait2",
\* and is restarted as "third", a hit on what was fetched; "junk" is truncated.
LogTx ==
    "first"  :> [Request(1) EXCEPT !.restarts = {2}] @@
    "second" :> [Request(2) EXCEPT !.continues = TRUE, !.fetches = {6}, !.restarts = {3}] @@
    "third"  :> [Request(3) EXCEPT !.continues = TRUE, !.hit = {6}] @@
    "wait1"  :> [Request(4) EXCEPT !.hit = {6}, !.waiter = TRUE] @@
    "wait2"  :> [Request(5) EXCEPT !.hit = {6}, !.waiter = TRUE] @@
    "junk"   :> [Request(5) EXCEPT !.outcome = "unusable"]

LogGroups == DOMAIN LogTx

=============================================================================

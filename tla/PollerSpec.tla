----------------------------- MODULE PollerSpec -----------------------------
(***************************************************************************)
(* What the session relies on in a polar poller, event by event: Engine's  *)
(* PollerJoins and PollerSends are these steps with a channel between      *)
(* them.  Live sweeps never go back to an earlier volume, a sweep that has *)
(* completed is not painted again until the poller joins again, and a      *)
(* backfilled frame is of a volume older than the one joined first, once.  *)
(* The order is not promised once a join has gone back to a volume older   *)
(* than the one last reported, as it may while the archive lags behind.    *)
(***************************************************************************)
EXTENDS Integers

CONSTANT Volumes   \* the volumes the radar scans, 1 up to Volumes

VARIABLES
    heard,   \* the newest live sweep reported: its volume, and whether whole
    base,    \* the volume joined first, 0 before that
    back,    \* a join has gone back to an older volume
    filled   \* volumes reported as backfill

Init ==
    /\ heard = [t |-> 0, done |-> FALSE]
    /\ base = 0
    /\ back = FALSE
    /\ filled = {}

\* A join replays: the newest sweep may be painted once more.
Join ==
    /\ heard' = [heard EXCEPT !.done = FALSE]
    /\ \E v \in 1..Volumes :
        /\ base' = IF base = 0 THEN v ELSE base
        /\ back' = (back \/ v < heard.t)
    /\ UNCHANGED filled

Sweep(v, whole) ==
    /\ base # 0
    /\ back \/ v > heard.t \/ (v = heard.t /\ ~heard.done)
    /\ heard' = [t |-> v, done |-> whole]
    /\ UNCHANGED <<base, back, filled>>

Backfill(v) ==
    /\ v < base /\ v \notin filled
    /\ filled' = filled \cup {v}
    /\ UNCHANGED <<heard, base, back>>

Next ==
    \/ Join
    \/ \E v \in 1..Volumes, whole \in BOOLEAN : Sweep(v, whole)
    \/ \E v \in 1..Volumes : Backfill(v)

Spec == Init /\ [][Next]_<<heard, base, back, filled>>
=============================================================================

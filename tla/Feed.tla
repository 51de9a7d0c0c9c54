-------------------------------- MODULE Feed --------------------------------
(***************************************************************************)
(* The condition of a live station and the restarts of its poller          *)
(* (main.rs): the poller's Offline and Silent, the age of the newest       *)
(* radial, and the daemon's tick, which starts an ended poller again and   *)
(* one that has been silent for UNAVAILABLE_AFTER.  Two stations, of which *)
(* one is selected; one clock unit is a tick.                              *)
(***************************************************************************)
EXTENDS Integers, Sequences

CONSTANTS
    Stations,
    StaleAfter, UnavailableAfter,   \* STALE_AFTER, UNAVAILABLE_AFTER
    EventCap,     \* bound: events in the channel
    MaxTicks,     \* bound: ticks
    MaxSelects    \* bound: selections

ASSUME FeedConstants ==
    /\ StaleAfter \in Nat /\ UnavailableAfter \in Nat /\ StaleAfter < UnavailableAfter
    /\ EventCap \in Nat /\ MaxTicks \in Nat /\ MaxSelects \in Nat

Never == -1
NoStation == "no station"

VARIABLES
    tick, ticked, selects,
    station,        \* the selection
    poller,         \* "running", "ended"; a running one may have wedged
    restarted,      \* last_live_restart
    evidence,       \* the newest radial received, or Never
    condition,      \* connection.status
    events          \* what pollers of either station have sent

feedVars == <<tick, ticked, selects, station, poller, restarted, evidence, condition, events>>

\* feed_condition, as every snapshot applies it.
FeedCondition(current, radial) ==
    IF current \in {"loading", "offline", "idle"} \/ radial = Never THEN current
    ELSE IF tick - radial >= UnavailableAfter THEN "unavailable"
    ELSE IF tick - radial >= StaleAfter THEN "stale" ELSE "ok"

\* restart_live: the poller is aborted and another started; what is shown
\* stays.
RestartLive == poller' = "running" /\ restarted' = tick

\* select_site: from the catalog, a frame of some age or none; reselecting
\* starts an ended poller again, before anything else.
Select(s) ==
    /\ selects < MaxSelects /\ selects' = selects + 1
    /\ IF s = station
       THEN /\ IF poller = "ended" THEN RestartLive ELSE UNCHANGED <<poller, restarted>>
            /\ UNCHANGED <<station, evidence, condition>>
       ELSE /\ station' = s /\ condition' = "loading"
            /\ evidence' \in {Never} \cup 0..tick
            /\ RestartLive
    /\ UNCHANGED <<tick, ticked, events>>

\* The poller of the selected station reports, or ends; one that has been
\* aborted has sent what it has sent.
Polls ==
    /\ poller = "running" /\ station # NoStation
    /\ \/ /\ Len(events) < EventCap
          /\ \E kind \in {"offline", "silent", "known"} \cup {"sweep"} :
                events' = Append(events, [kind |-> kind, of |-> station, radial |-> tick])
          /\ UNCHANGED poller
       \/ poller' = "ended" /\ UNCHANGED events
    /\ UNCHANGED <<tick, ticked, selects, station, restarted, evidence, condition>>

\* live_events: a sweep is good news, one already in the catalog ends
\* `loading` only, and a report is believed whichever poller of the station
\* sent it; then the age has its say.
Heard(e) ==
    /\ evidence' = IF e.kind = "sweep" /\ e.radial > evidence THEN e.radial ELSE evidence
    /\ condition' = FeedCondition(
          CASE e.kind = "offline" -> "offline"
            [] e.kind = "silent" -> "unavailable"
            [] e.kind = "sweep" -> "ok"
            [] e.kind = "known" -> IF condition = "loading" THEN "ok" ELSE condition,
          evidence')

Receives ==
    /\ events # <<>> /\ events' = Tail(events)
    /\ IF Head(events).of = station THEN Heard(Head(events)) ELSE UNCHANGED <<evidence, condition>>
    /\ UNCHANGED <<tick, ticked, selects, station, poller, restarted>>

Wedged == evidence # Never /\ tick - evidence >= UnavailableAfter

\* Mutant: an outage the poller has reported is waited out.
DueUnlessOffline == poller = "ended" \/ (Wedged /\ condition # "offline"
                                          /\ tick - restarted >= UnavailableAfter)

\* should_restart_live
Due == poller = "ended" \/ (Wedged /\ tick - restarted >= UnavailableAfter)

\* The daemon's second: broadcast, then the restart.
TickRuns ==
    /\ ~ticked /\ ticked' = TRUE
    /\ condition' = IF station = NoStation THEN condition ELSE FeedCondition(condition, evidence)
    /\ IF station # NoStation /\ Due
       THEN RestartLive ELSE UNCHANGED <<poller, restarted>>
    /\ UNCHANGED <<tick, selects, station, evidence, events>>

TickDue ==
    /\ ticked /\ tick < MaxTicks
    /\ tick' = tick + 1 /\ ticked' = FALSE
    /\ UNCHANGED <<selects, station, poller, restarted, evidence, condition, events>>

FeedInit ==
    /\ tick = 0 /\ ticked = FALSE /\ selects = 0 /\ station = NoStation /\ poller = "ended"
    /\ restarted = 0 /\ evidence = Never /\ condition = "idle" /\ events = <<>>

FeedNext ==
    (\E s \in Stations : Select(s)) \/ Polls \/ Receives \/ TickRuns \/ TickDue

FeedSpec == FeedInit /\ [][FeedNext]_feedVars

-----------------------------------------------------------------------------
(* Properties *)

\* A wedged poller never holds a station for more than UNAVAILABLE_AFTER: once
\* a tick has run, a radial or a new poller is younger than that, whatever the
\* poller has reported.  (A station no radial of which was ever seen is left
\* to its poller.)
WedgedIsRestarted ==
    [][~ticked /\ ticked' /\ station # NoStation /\ evidence # Never =>
        tick - evidence < UnavailableAfter \/ tick - restarted' < UnavailableAfter]_feedVars
=============================================================================

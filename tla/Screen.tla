------------------------------- MODULE Screen -------------------------------
(***************************************************************************)
(* Why the screen, the timeline, the age and the catalog of the session    *)
(* agree: the facts about what is still on its way through the channel and *)
(* the encoder, and about what the ring, the cutoff and the pin keep, that *)
(* together every step of Engine preserves.                                *)
(***************************************************************************)
EXTENDS Engine

\* The sweeps a station's poller has sent and live_events has not delivered.
Waiting ==
    {events[i] : i \in 1..Len(events)} \cup (IF job = NoJob THEN {} ELSE {job.event})

IsLive(e) == e.kind # "backfill"

\* Nothing known of a station is newer than the newest sweep of its pollers.
HeardIsNewest ==
    /\ \A s \in Sites : heard[s].t <= now
    /\ \A f \in disk : f.src \in Sites /\ f.t <= heard[f.src].t
    /\ \A e \in Waiting : e.t <= heard[e.src].t
    /\ selection \in Sites =>
         /\ base <= heard[selection].t /\ frameTime <= heard[selection].t
         /\ \A f \in tl.stored : f.t <= heard[selection].t

\* A live sweep is behind no newer one of its station, also when another
\* poller or a selection in between sent it.
Ordered ==
    \A k \in 1..Len(events) : IsLive(events[k]) =>
        /\ \A i \in 1..k : events[i].src = events[k].src => events[i].t <= events[k].t
        /\ (job # NoJob /\ job.event.src = events[k].src) => job.event.t <= events[k].t

\* A live sweep on its way is at least as new as all there is of its station.
LiveIsNewest ==
    \A e \in Waiting : IsLive(e) =>
        /\ \A f \in disk : f.src = e.src => f.t <= e.t
        /\ selection = e.src => frameTime <= e.t /\ \A f \in tl.stored : f.t <= e.t

\* A pin that names no listed frame has lost it to a ring full of newer ones.
DanglingIsOld ==
    (tl.shown # NoFrame /\ tl.shown \notin tl.stored)
        => selection \in Sites /\ Cardinality({g \in tl.stored : g.t > tl.shown.t}) >= Ring

ArrivalsInv == HeardIsNewest /\ Ordered /\ LiveIsNewest /\ DanglingIsOld

-----------------------------------------------------------------------------
(* Mosaics *)

\* A pinned mosaic is the one on screen.
MosaicPin == (selection \in Grids \cup Statics /\ tl.shown \in tl.stored) => screen = tl.shown

\* The observation clock of a live mosaic is its newest listed frame's time.
GridAge ==
    selection \in Grids =>
        frameTime = IF tl.stored = {} THEN 0 ELSE LatestOf(tl.stored).t

TexturesInv ==
    ListedHasTexture /\ MosaicPin /\ GridAge /\ FollowingShowsNewest /\ FollowingShowsSweep

-----------------------------------------------------------------------------
(* The catalog and the timeline of a station, inside the retention window *)

\* What the catalog and the timeline hold of a station, and the catalogued
\* sweep that live_events still has to list.
Catalogued(s) == Since(FramesOf(s, disk), Cutoff)
Recent == Since(tl.stored, Cutoff)
Stored == job.phase = "encoded" /\ job.event.kind # "partial"
OnTheWay(s) ==
    IF Stored /\ job.event.src = s THEN Since({FrameOf(job.event)}, Cutoff) ELSE {}

\* The catalog's ring has taken, or turned away, what is still to be listed.
StoredOnce ==
    \A s \in Sites : NewestOf(Catalogued(s) \cup OnTheWay(s), Ring) = Catalogued(s)

ListedTrimmed == selection \in Sites => NewestOf(Recent, Ring) = Recent

\* The timeline, once it has what is on its way, is the catalog's list.
DiskMatches ==
    \A s \in Sites :
        selection = s => Catalogued(s) = NewestOf(Recent \cup OnTheWay(s), Ring)

CatalogInv == StoredOnce /\ ListedTrimmed /\ DiskMatches

\* A pinned frame that the catalog can give back is the one on screen.
SitePin ==
    (selection \in Sites /\ tl.shown \in tl.stored \cap disk /\ tl.shown.t >= Cutoff)
        => screen = tl.shown

-----------------------------------------------------------------------------
\* The inductive invariant behind the theorems of ScreenProofs, while no
\* operation on files but eviction fails: what waits is in order, and the
\* timeline, the catalog, the textures, the pin and the screen agree
\* (live_events, arrived, backfilled, accept_mosaic, select_site).
ScreenInv == ArrivalsInv /\ AgeCoversListed /\ TexturesInv /\ CatalogInv /\ SitePin
=============================================================================

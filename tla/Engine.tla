------------------------------- MODULE Engine -------------------------------
(***************************************************************************)
(* The engine's shared session (struct Shared in main.rs) and the tasks    *)
(* that work on it: the clients' commands, the task that turns a polar     *)
(* poller's events into frames (live_events), the task that admits grid    *)
(* frames (mosaic_events), the playback task (player) and the once-a-      *)
(* second cleanup that restarts a dead poller.  The runtime has one        *)
(* thread, so a task is atomic between two awaits; live_events awaits the  *)
(* blocking pool while it encodes and catalogues a sweep, and anything     *)
(* else may run there.                                                     *)
(***************************************************************************)
EXTENDS History, Sequences

CONSTANTS
    Sites,       \* NEXRAD stations: polar sources
    Grids,       \* live mosaics (MRMS, OPERA)
    Statics,     \* mosaics with frames of their own and no poller
    NoSource,    \* "selection": null
    NoEvent,     \* nothing in hand
    Ring,        \* catalog::RING, frames kept for a station
    Ttl,         \* catalog::TTL_MS, in clock units
    GridMax,     \* HistoryPolicy.max_frames
    GridWindow,  \* HistoryPolicy.window_ms, in clock units
    Channel,     \* capacity of the polar event channel (16 in the code)
    Commands,    \* the kinds of command the clients send in this instance
    Faults       \* the operations on files that may fail in this instance

CommandKinds == {"select", "follow", "lock", "view", "navigate", "play", "pause"}
FaultKinds == {"publish", "load", "list", "evict", "store"}

ASSUME SourcesPartition ==
    /\ Sources = Sites \cup Grids \cup Statics
    /\ Sites \cap Grids = {} /\ Sites \cap Statics = {} /\ Grids \cap Statics = {}
    /\ NoSource \notin Sources
ASSUME BoundsAreNat ==
    /\ Ring \in Nat \ {0} /\ GridMax \in Nat \ {0} /\ Channel \in Nat \ {0}
    /\ Ttl \in Nat /\ GridWindow \in Nat \ {0}
ASSUME KindsAreKnown == Commands \subseteq CommandKinds /\ Faults \subseteq FaultKinds

\* The placeholder shown while a source's first frame loads: no scan time.
Blank(s) == [src |-> s, t |-> 0]
Blanks == {Blank(s) : s \in Sources}

\* live::Event::{Sweep, Backfill}; a Sweep is complete or still painting.
SweepKinds == {"partial", "complete", "backfill"}
PolarEvent == [kind : SweepKinds, src : Sites, t : Times]
ASSUME NoEventIsNoEvent ==
    /\ NoEvent \notin [kind : SweepKinds, src : Sites, t : 0..MaxTime]
    /\ NoEvent \notin [kind : {"live", "backfill"}, src : Grids, t : 0..MaxTime,
                       session : {"current", "past"}]

\* What live_events holds across its await: an event, catalogued or not yet.
Job == [event : PolarEvent, phase : {"encoding", "encoded"}]
NoJob == [event |-> NoEvent, phase |-> "idle"]

\* GridMessage: the session it was sent under is, or is no longer, the
\* engine's grid_session.
GridMessage ==
    [kind : {"live", "backfill"}, src : Grids, t : Times, session : {"current", "past"}]

VARIABLES
    \* the state every client is shown
    selection, follow, locked, screen, playing,
    tl,          \* Shared.timeline
    \* the rest of Shared
    centred,     \* last_center is known
    pending,     \* the sweep in progress held in memory
    mosaic,      \* in-memory mosaic ring, with its published textures
    frameTime,   \* frame_ms: time of the newest complete frame, 0 for none
    live,        \* a poller for the selection is running
    base,        \* the volume a polar poller joined first, 0 before that
    \* the tasks and the files
    wake,        \* the Notify's stored permit
    player,      \* the playback task
    events,      \* the polar event channel
    job,         \* live_events: the sweep being encoded
    gridEvent,   \* the grid channel, which holds one message
    disk,        \* the frame catalog
    \* the world
    heard,       \* each station's newest sweep that a poller has reached
    now,
    reply        \* the answer to the last command: "error" goes to its sender

shown == <<selection, follow, locked, screen, playing, tl>>
nav == <<follow, locked, centred>>
tasks == <<wake, player, events, job>>
feed == <<live, base>>
world == <<heard, now>>
vars == <<selection, follow, locked, screen, playing, tl, centred, pending, mosaic,
          frameTime, live, base, wake, player, events, job, gridEvent, disk, heard, now,
          reply>>

TypeOK ==
    /\ selection \in Sources \cup {NoSource}
    /\ follow \in BOOLEAN /\ locked \in BOOLEAN /\ centred \in BOOLEAN
    /\ screen \in Frame \cup Blanks \cup {NoFrame}
    /\ playing \in BOOLEAN
    /\ tl \in Histories
    /\ pending \in Frame \cup {NoFrame}
    /\ mosaic \subseteq Frame \cup Blanks
    /\ frameTime \in 0..MaxTime
    /\ live \in BOOLEAN
    /\ base \in 0..MaxTime
    /\ wake \in BOOLEAN
    /\ player \in {"waiting", "sleeping"}
    /\ events \in Seq(PolarEvent)
    /\ job \in Job \cup {NoJob}
    /\ gridEvent \in GridMessage \cup {NoEvent}
    /\ disk \subseteq Frame
    /\ heard \in [Sites -> [t : 0..MaxTime, done : BOOLEAN]]
    /\ now \in 1..MaxTime
    /\ reply \in {"ok", "error"}

\* serve(): live, nothing selected, follow on, unlocked; the catalog may hold
\* frames of earlier sessions.
Init ==
    /\ selection = NoSource /\ follow = TRUE /\ locked = FALSE
    /\ screen = NoFrame /\ playing = FALSE
    /\ tl = NewHistory({})
    /\ centred = FALSE /\ pending = NoFrame /\ mosaic = {} /\ frameTime = 0
    /\ live = FALSE /\ base = 0
    /\ wake = FALSE /\ player = "waiting"
    /\ events = <<>> /\ job = NoJob /\ gridEvent = NoEvent
    /\ disk \in {{}} \cup {{[src |-> s, t |-> 1]} : s \in Sites}
    /\ heard = [s \in Sites |-> [t |-> 1, done |-> TRUE]]
    /\ now = 1
    /\ reply = "ok"

-----------------------------------------------------------------------------
(* Operations on files.  One that may fail has both outcomes. *)

Outcomes(op) == IF op \in Faults THEN BOOLEAN ELSE {TRUE}

FramesOf(s, frames) == {f \in frames : f.src = s}

\* Catalog::evict_before, which deletes row by row: what it may leave.
Evictions(s, cutoff, frames) ==
    LET expired == {f \in FramesOf(s, frames) : f.t < cutoff} IN
    IF "evict" \in Faults THEN {frames \ gone : gone \in SUBSET expired}
    ELSE {frames \ expired}

\* Mutant: the ring is trimmed over all stations at once.
StoreForAll(f, frames) == NewestOf(frames \cup {f}, Ring)

\* Catalog::store: the row joins and the station's ring is trimmed.
Store(f, frames) ==
    {g \in frames : g.src # f.src} \cup NewestOf(FramesOf(f.src, frames) \cup {f}, Ring)

\* The cutoff that select_site and a complete arrival evict on.
Cutoff == now - Ttl

\* show_position: the sweep in progress from memory, a mosaic by its path, a
\* stored frame read back from the catalog.
Showable(e, pend, ring, files, pub, read) ==
    IF e.painting THEN pend # NoFrame /\ pub
    ELSE e.frame \in ring \/ (e.frame \in files /\ read /\ pub)

Displayed(e, pend) == IF e.painting THEN pend ELSE e.frame

CompleteEntry(f) == [frame |-> f, painting |-> FALSE]

\* Mutant: the pin moves and the screen is not told.
StaysOnScreen(h, pend, ring, files, pub, read) == screen

\* show_position(0) after a repin: what the screen shows then.
ShowOldest(h, pend, ring, files, pub, read) ==
    LET firsts == {e \in Entries(h) : IF h.stored = {} THEN e.painting
                                      ELSE e.frame = EarliestOf(h.stored) /\ ~e.painting}
        shows == {e \in firsts : Showable(e, pend, ring, files, pub, read)}
    IN  IF shows = {} THEN screen ELSE Displayed(CHOOSE e \in shows : TRUE, pend)

-----------------------------------------------------------------------------
(* Selecting a source *)

\* abort_live: the running poller dies and its queued message is of a past
\* session.  The polar channel keeps what was sent.
AbortLive ==
    /\ gridEvent' = IF gridEvent = NoEvent THEN NoEvent
                    ELSE [gridEvent EXCEPT !.session = "past"]
    /\ base' = 0

\* restart_live for a selection that polls.
RestartLive == AbortLive /\ live' = TRUE

Answer(ok) == reply' = IF ok THEN "ok" ELSE "error"

\* select_site on another station: its catalog becomes the timeline and the
\* newest cached frame, or the placeholder, goes on screen.
SwitchToSite(s) ==
    \E kept \in Evictions(s, Cutoff, disk), listed \in Outcomes("list"),
       loaded \in Outcomes("load"), published \in Outcomes("publish") :
        LET frames == IF listed THEN NewestOf(FramesOf(s, kept), Ring) ELSE {}
            first == IF frames # {} /\ loaded THEN LatestOf(frames) ELSE Blank(s)
        IN  /\ mosaic' = {}
            /\ disk' = kept
            /\ Answer(published)
            /\ IF published
               THEN /\ screen' = first
                    /\ frameTime' = first.t
                    /\ tl' = NewHistory(frames)
                    /\ pending' = NoFrame
                    /\ playing' = FALSE
                    /\ selection' = s
                    /\ RestartLive
               ELSE UNCHANGED <<screen, frameTime, tl, pending, playing, selection,
                                feed, gridEvent>>

\* show_live_mosaic on another mosaic; a placeholder that cannot be
\* published, or that the adapter does not have, leaves the screen empty.
SwitchToGrid(g) ==
    \E placed \in BOOLEAN :
        /\ mosaic' = IF placed THEN {Blank(g)} ELSE {}
        /\ screen' = IF placed THEN Blank(g) ELSE NoFrame
        /\ frameTime' = 0
        /\ tl' = NewHistory({})
        /\ pending' = NoFrame
        /\ playing' = FALSE
        /\ selection' = g
        /\ RestartLive
        /\ Answer(TRUE)
        /\ UNCHANGED disk

\* The frames a static mosaic carries.
StaticFrames(s) == {[src |-> s, t |-> n] : n \in Times \cap {1, 2}}

\* show_static_mosaic on another mosaic: the poller is gone before the
\* frames are published, and stays gone if one cannot be.
SwitchToStatic(s) ==
    \E published \in Outcomes("publish"), partway \in SUBSET StaticFrames(s) :
        LET frames == StaticFrames(s) IN
        /\ partway \in {{}, {EarliestOf(frames)}}
        /\ published => partway = {}
        /\ AbortLive
        /\ live' = FALSE
        /\ mosaic' = IF published THEN frames ELSE partway
        /\ Answer(published)
        /\ IF published
           THEN /\ screen' = LatestOf(frames)
                /\ frameTime' = LatestOf(frames).t
                /\ tl' = NewHistory(frames)
                /\ pending' = NoFrame
                /\ playing' = FALSE
                /\ selection' = s
           ELSE UNCHANGED <<screen, frameTime, tl, pending, playing, selection>>
        /\ UNCHANGED disk

SwitchTo(s) ==
    \/ s \in Sites /\ SwitchToSite(s)
    \/ s \in Grids /\ SwitchToGrid(s)
    \/ s \in Statics /\ SwitchToStatic(s)

\* clear_selection: nothing covers the centre.
ClearSelection ==
    /\ AbortLive
    /\ live' = FALSE
    /\ selection' = NoSource
    /\ screen' = NoFrame
    /\ tl' = NewHistory({})
    /\ pending' = NoFrame
    /\ frameTime' = 0
    /\ playing' = FALSE
    /\ mosaic' = {}
    /\ Answer(TRUE)
    /\ UNCHANGED disk

\* What a selection changes when it changes nothing.
KeepSelection ==
    /\ Answer(TRUE)
    /\ UNCHANGED <<selection, screen, playing, tl, pending, mosaic, frameTime, feed,
                   gridEvent, disk>>

\* apply_covering; which source covers the centre is a choice here.
ApplyCovering(wanted) ==
    IF wanted = selection THEN KeepSelection
    ELSE IF wanted = NoSource THEN ClearSelection
    ELSE SwitchTo(wanted)

-----------------------------------------------------------------------------
(* Commands *)

\* select_site and select_source: the selection again only revives a poller
\* that ended.
Select(s) ==
    /\ "select" \in Commands
    /\ IF s # selection THEN SwitchTo(s)
       ELSE IF s \in Statics \/ live THEN KeepSelection
       ELSE /\ RestartLive
            /\ Answer(TRUE)
            /\ UNCHANGED <<selection, screen, playing, tl, pending, mosaic, frameTime, disk>>
    /\ UNCHANGED <<nav, tasks, world>>

Follow(enabled) ==
    /\ "follow" \in Commands
    /\ follow' = enabled
    /\ KeepSelection
    /\ UNCHANGED <<locked, centred, tasks, world>>

\* set_lock: a lock needs a selection; releasing it, while following and with
\* a known centre, reselects the covering source at once.
SetLock(enabled) ==
    /\ "lock" \in Commands
    /\ IF enabled /\ selection = NoSource
       THEN /\ reply' = "error"
            /\ UNCHANGED <<shown, pending, mosaic, frameTime, feed, gridEvent, disk>>
       ELSE /\ locked' = enabled
            /\ UNCHANGED follow
            /\ IF locked /\ ~enabled /\ follow /\ centred
               THEN \E wanted \in Sites \cup Grids \cup {NoSource} : ApplyCovering(wanted)
               ELSE KeepSelection
    /\ UNCHANGED <<centred, tasks, world>>

\* Mutant: a pan hands off under the lock.
ViewCenterUnlocked(wanted) ==
    /\ "view" \in Commands
    /\ centred' = TRUE
    /\ IF follow THEN ApplyCovering(wanted) ELSE KeepSelection
    /\ UNCHANGED <<follow, locked, tasks, world>>

\* view_center: a settled pan.
ViewCenter(wanted) ==
    /\ "view" \in Commands
    /\ centred' = TRUE
    /\ IF follow /\ ~locked THEN ApplyCovering(wanted) ELSE KeepSelection
    /\ UNCHANGED <<follow, locked, tasks, world>>

UnchangedByMoves ==
    UNCHANGED <<selection, follow, locked, centred, pending, mosaic, frameTime, feed,
                gridEvent, disk, tasks, world>>

\* navigate, for a seek or step that lands on entry e: playback stops, and a
\* move that cannot be shown leaves the position where it was.
Navigate(e) ==
    /\ "navigate" \in Commands
    /\ playing' = FALSE
    /\ IF Position(tl) = {e}
       THEN tl' = Pin(tl, e) /\ UNCHANGED screen /\ Answer(TRUE)
       ELSE \E pub \in Outcomes("publish"), read \in Outcomes("load") :
               IF Showable(e, pending, mosaic, disk, pub, read)
               THEN tl' = Pin(tl, e) /\ screen' = Displayed(e, pending) /\ Answer(TRUE)
               ELSE UNCHANGED <<tl, screen>> /\ Answer(FALSE)
    /\ UnchangedByMoves

\* A step with no position to start from only pauses.
StepNowhere ==
    /\ "navigate" \in Commands
    /\ Position(tl) = {}
    /\ playing' = FALSE
    /\ Answer(TRUE)
    /\ UNCHANGED <<tl, screen>>
    /\ UnchangedByMoves

\* A seek to a frame that is not listed.
SeekElsewhere(f) ==
    /\ "navigate" \in Commands
    /\ f \notin Listed(tl)
    /\ Answer(FALSE)
    /\ UNCHANGED <<tl, screen, playing>>
    /\ UnchangedByMoves

\* Mutant: playback starts without waking its task.
PlayUnannounced ==
    /\ "play" \in Commands
    /\ ~playing /\ Cardinality(tl.stored) >= 2
    /\ tl' = StartPlayback(tl)
    /\ playing' = TRUE
    /\ Answer(TRUE)
    /\ UNCHANGED <<selection, follow, locked, screen, centred, pending, mosaic, frameTime,
                   feed, tasks, gridEvent, disk, world>>

\* play: two complete frames make a loop.
Play ==
    /\ "play" \in Commands
    /\ ~playing /\ Cardinality(tl.stored) >= 2
    /\ tl' = StartPlayback(tl)
    /\ playing' = TRUE
    /\ wake' = TRUE
    /\ Answer(TRUE)
    /\ UNCHANGED <<selection, follow, locked, screen, centred, pending, mosaic, frameTime,
                   feed, player, events, job, gridEvent, disk, world>>

Pause ==
    /\ "pause" \in Commands
    /\ playing
    /\ playing' = FALSE
    /\ Answer(TRUE)
    /\ UNCHANGED <<tl, screen>>
    /\ UnchangedByMoves

-----------------------------------------------------------------------------
(* The playback task *)

\* The task takes the permit and looks at `playing` before it awaits again.
PlayerWakes ==
    /\ player = "waiting" /\ wake
    /\ wake' = FALSE
    /\ player' = IF playing THEN "sleeping" ELSE "waiting"
    /\ Answer(TRUE)
    /\ UNCHANGED <<shown, centred, pending, mosaic, frameTime, feed, events, job,
                   gridEvent, disk, world>>

\* tick: the next frame, or the end of playback when it cannot be shown.
Tick ==
    IF Cardinality(tl.stored) < 2 THEN UNCHANGED <<tl, screen, playing>>
    ELSE LET e == CompleteEntry(NextInLoop(tl)) IN
         /\ tl' = Pin(tl, e)
         /\ IF Position(tl) = {e} THEN UNCHANGED <<screen, playing>>
            ELSE \E pub \in Outcomes("publish"), read \in Outcomes("load") :
                    IF Showable(e, pending, mosaic, disk, pub, read)
                    THEN screen' = e.frame /\ UNCHANGED playing
                    ELSE playing' = FALSE /\ UNCHANGED screen

\* The step's sleep ends; a pause in the meantime ends the loop.
PlayerSteps ==
    /\ player = "sleeping"
    /\ IF playing THEN Tick ELSE UNCHANGED <<tl, screen, playing>>
    /\ player' = IF playing' THEN "sleeping" ELSE "waiting"
    /\ Answer(TRUE)
    /\ UNCHANGED <<selection, follow, locked, centred, pending, mosaic, frameTime, feed,
                   wake, events, job, gridEvent, disk, world>>

-----------------------------------------------------------------------------
(* The polar poller and live_events *)

\* The poller joins the station's newest volume, first when it starts and
\* again after a quiet spell: the one it was on, or a new one.  It replays the
\* sweep unless it knows it; on the first join after a selection it may know
\* nothing, so that a listed sweep can end `loading`.
PollerJoins(s) ==
    /\ live /\ selection = s
    /\ \E t \in {heard[s].t, now}, knows \in BOOLEAN :
        /\ base # 0 => knows
        /\ heard' = [heard EXCEPT ![s] =
                       [t |-> t, done |-> knows /\ [src |-> s, t |-> t] \in tl.stored]]
        /\ base' = IF base = 0 THEN t ELSE base
    /\ Answer(TRUE)
    /\ UNCHANGED <<shown, centred, pending, mosaic, frameTime, live, tasks, gridEvent, disk,
                   now>>

\* A sweep the poller may send: live ones never go back in time, except that
\* a join replays the newest; the backfill spawned at the first join is of
\* older volumes.
Sendable(e) ==
    LET last == heard[e.src] IN
    CASE e.kind = "partial" -> e.t > last.t \/ (e.t = last.t /\ ~last.done)
      [] e.kind = "complete" -> e.t >= last.t
      [] e.kind = "backfill" -> e.t < base

PollerSends(e) ==
    /\ live /\ selection = e.src /\ base # 0
    /\ Len(events) < Channel
    /\ e.t <= now
    /\ Sendable(e)
    /\ events' = Append(events, e)
    /\ heard' = IF e.kind = "backfill" THEN heard
                ELSE [heard EXCEPT ![e.src] = [t |-> e.t, done |-> e.kind = "complete"]]
    /\ Answer(TRUE)
    /\ UNCHANGED <<shown, centred, pending, mosaic, frameTime, feed, wake, player, job,
                   gridEvent, disk, now>>

\* A poller task may end on its own.
PollerEnds ==
    /\ live
    /\ live' = FALSE
    /\ Answer(TRUE)
    /\ base' = 0
    /\ UNCHANGED <<shown, centred, pending, mosaic, frameTime, tasks, gridEvent, disk, world>>

\* The cleanup tick starts an ended poller again, and replaces a polar one
\* that has heard nothing new for too long (should_restart_live).
CleanupRestarts ==
    /\ \/ ~live /\ selection \in Sites \cup Grids
       \/ /\ selection \in Sites
          /\ frameTime # 0 \/ pending # NoFrame
          /\ frameTime < now /\ (pending # NoFrame => pending.t < now)
    /\ RestartLive
    /\ Answer(TRUE)
    /\ UNCHANGED <<shown, centred, pending, mosaic, frameTime, tasks, disk, world>>

\* Mutant: a sweep is for whatever station is selected.
AnySelected(s) == selection # NoSource

LiveSelected(s) == selection = s

\* Mutant: an event waits until its station is selected again.
TakeSelectedEvent ==
    /\ job = NoJob /\ events # <<>> /\ LiveSelected(Head(events).src)
    /\ job' = [event |-> Head(events), phase |-> "encoding"]
    /\ events' = Tail(events)
    /\ Answer(TRUE)
    /\ UNCHANGED <<shown, centred, pending, mosaic, frameTime, feed, wake, player,
                   gridEvent, disk, world>>

\* The task takes an event; frame_for drops one whose station is not selected.
TakeEvent ==
    /\ job = NoJob /\ events # <<>>
    /\ LET e == Head(events) IN
       job' = IF LiveSelected(e.src) THEN [event |-> e, phase |-> "encoding"] ELSE NoJob
    /\ events' = Tail(events)
    /\ Answer(TRUE)
    /\ UNCHANGED <<shown, centred, pending, mosaic, frameTime, feed, wake, player,
                   gridEvent, disk, world>>

FrameOf(e) == [src |-> e.src, t |-> e.t]

\* The blocking pool encodes the sweep and catalogues a complete one.  A sweep
\* that fails there is dropped, though its row may have been written.
Encode ==
    /\ job.phase = "encoding"
    /\ LET f == FrameOf(job.event)
           stores == job.event.kind # "partial"
       IN  \E ok \in Outcomes("store") :
            /\ job' = IF ok THEN [job EXCEPT !.phase = "encoded"] ELSE NoJob
            /\ disk' \in IF ~stores THEN {disk}
                         ELSE IF ok THEN {Store(f, disk)}
                         ELSE {disk, disk \cup {f}}
    /\ Answer(TRUE)
    /\ UNCHANGED <<shown, centred, pending, mosaic, frameTime, feed, wake, player, events,
                   gridEvent, world>>

\* Mutant: a sweep that cannot be published is listed without its texture.
ArrivedPartialUnheld(f) ==
    /\ tl' = Begin(tl, f)
    /\ \E pub \in Outcomes("publish") :
        /\ pending' = IF pub THEN f ELSE pending
        /\ screen' = IF Following(tl) /\ pub THEN f ELSE screen
    /\ UNCHANGED <<frameTime, disk>>

\* arrived, for a sweep still painting: the newest entry, on screen while the
\* user follows.
ArrivedPartial(f) ==
    /\ tl' = Begin(tl, f)
    /\ pending' = f
    /\ \E pub \in Outcomes("publish") : screen' = IF Following(tl) /\ pub THEN f ELSE screen
    /\ UNCHANGED <<frameTime, disk>>

\* Mutant: a completed sweep takes the screen from a pinned frame.
ArrivedCompleteShown(f) ==
    LET h == Expire(Complete(tl, f, Ring), Cutoff) IN
    /\ tl' = h
    /\ pending' = NoFrame
    /\ frameTime' = f.t
    /\ screen' = f
    /\ UNCHANGED disk

\* arrived, for a complete sweep: the catalog and the timeline lose what is
\* past the cutoff; the frame takes the screen while the user follows, and
\* the oldest one does when the pinned frame left.
ArrivedComplete(f) ==
    \E kept \in Evictions(f.src, Cutoff, disk), pub \in Outcomes("publish"),
       read \in Outcomes("load") :
        LET h == Expire(Complete(tl, f, Ring), Cutoff)
        IN  /\ tl' = h
            /\ pending' = NoFrame
            /\ frameTime' = f.t
            /\ disk' = kept
            /\ screen' = IF Following(tl) THEN (IF pub THEN f ELSE screen)
                         ELSE IF Repinned(tl, h)
                         THEN ShowOldest(h, NoFrame, mosaic, kept, pub, read)
                         ELSE screen

\* Mutant: the observation clock is the last arrival's.
LastArrivalsClock(f) == f.t

\* The observation clock: the newer of what it was and a scan's time.
ObservationClock(f) == IF f.t > frameTime THEN f.t ELSE frameTime

\* Mutant: a backfill leaves the observation clock alone.
BackfilledUntimed(f) ==
    LET h == Insert(tl, f, Ring) IN
    /\ tl' = h
    /\ screen' = IF Repinned(tl, h) THEN ShowOldest(h, pending, mosaic, disk, TRUE, TRUE)
                 ELSE screen
    /\ UNCHANGED <<pending, frameTime, disk>>

\* Mutant: a backfill takes the screen while the user follows.
BackfilledShown(f) ==
    LET h == Insert(tl, f, Ring) IN
    /\ tl' = h
    /\ frameTime' = ObservationClock(f)
    /\ screen' = IF Following(tl) THEN f
                 ELSE IF Repinned(tl, h) THEN ShowOldest(h, pending, mosaic, disk, TRUE, TRUE)
                 ELSE screen
    /\ UNCHANGED <<pending, disk>>

\* backfilled: the frame takes its place; the screen moves only with the pin.
Backfilled(f) ==
    \E pub \in Outcomes("publish"), read \in Outcomes("load") :
        LET h == Insert(tl, f, Ring) IN
        /\ tl' = h
        /\ frameTime' = ObservationClock(f)
        /\ screen' = IF Repinned(tl, h) THEN ShowOldest(h, pending, mosaic, disk, pub, read)
                     ELSE screen
        /\ UNCHANGED <<pending, disk>>

\* Back on the lock: the sweep is dropped if the station was switched while
\* it was encoded, and a live one is ignored if its scan is listed already.
Deliver ==
    /\ job.phase = "encoded"
    /\ job' = NoJob
    /\ LET e == job.event
           f == FrameOf(e)
           known == \E g \in tl.stored : g.t = f.t
       IN  IF ~LiveSelected(e.src) \/ (e.kind # "backfill" /\ known)
           THEN UNCHANGED <<tl, pending, screen, frameTime, disk>>
           ELSE CASE e.kind = "partial" -> ArrivedPartial(f)
                  [] e.kind = "complete" -> ArrivedComplete(f)
                  [] e.kind = "backfill" -> Backfilled(f)
    /\ Answer(TRUE)
    /\ UNCHANGED <<selection, follow, locked, playing, centred, mosaic, feed, wake, player,
                   events, gridEvent, world>>

-----------------------------------------------------------------------------
(* The grid poller and mosaic_events *)

\* Grid observations may be listed late and out of order.
GridPollerSends(m) ==
    /\ live /\ selection = m.src /\ m.session = "current"
    /\ gridEvent = NoEvent
    /\ m.t <= now
    /\ gridEvent' = m
    /\ Answer(TRUE)
    /\ UNCHANGED <<shown, centred, pending, mosaic, frameTime, feed, tasks, disk, world>>

\* GridMessage::matches
Matches(m) == m.session = "current" /\ m.src = selection

\* accept_mosaic turns away what the retention policy would drop at once, and
\* what is listed already.
Admits(f, newest) ==
    /\ InWindow(f.t, newest, GridWindow)
    /\ ~(/\ Cardinality(tl.stored) >= GridMax
         /\ \A g \in tl.stored : f.t < g.t)
    /\ \A g \in tl.stored : g.t # f.t

\* Mutant: the in-memory ring is trimmed to the retention window less one.
TexturedShort(ring, h) == {f \in ring \cap h.stored : f.t > frameTime - GridWindow + 1}

\* The in-memory ring after retention: the frames that stay listed.
Textured(ring, h) == ring \cap h.stored

\* Mutant: any mosaic that arrives takes the screen.
TakesScreenFollowing(f, newest) == Following(tl)

\* A mosaic takes the screen while the user follows and it is the newest.
TakesScreen(f, newest) == Following(tl) /\ f.t = newest

AcceptMosaic(f) ==
    LET newest == ObservationClock(f)
        h == RetainHistory(Complete(tl, f, Ring), newest, GridWindow, GridMax)
        ring == Textured(mosaic \cup {f}, h)
    IN  \E published \in Outcomes("publish") :
            IF ~Admits(f, newest) \/ ~published
            THEN UNCHANGED <<tl, mosaic, frameTime, screen>>
            ELSE /\ tl' = h
                 /\ mosaic' = ring
                 /\ frameTime' = newest
                 /\ screen' = IF TakesScreen(f, newest) THEN f
                              ELSE IF Repinned(tl, h)
                              THEN ShowOldest(h, pending, ring, disk, TRUE, TRUE)
                              ELSE screen

TakeGridEvent ==
    /\ gridEvent # NoEvent
    /\ gridEvent' = NoEvent
    /\ IF Matches(gridEvent) THEN AcceptMosaic([src |-> gridEvent.src, t |-> gridEvent.t])
       ELSE UNCHANGED <<tl, mosaic, frameTime, screen>>
    /\ Answer(TRUE)
    /\ UNCHANGED <<selection, follow, locked, playing, centred, pending, feed, tasks, disk,
                   world>>

-----------------------------------------------------------------------------
ClockAdvances ==
    /\ now < MaxTime
    /\ now' = now + 1
    /\ Answer(TRUE)
    /\ UNCHANGED <<shown, centred, pending, mosaic, frameTime, feed, tasks, gridEvent, disk,
                   heard>>

Command ==
    \/ \E s \in Sources : Select(s)
    \/ \E enabled \in BOOLEAN : Follow(enabled)
    \/ \E enabled \in BOOLEAN : SetLock(enabled)
    \/ \E wanted \in Sites \cup Grids \cup {NoSource} : ViewCenter(wanted)
    \/ \E e \in Entries(tl) : Navigate(e)
    \/ StepNowhere
    \/ \E f \in Frame : SeekElsewhere(f)
    \/ Play
    \/ Pause

Next ==
    \/ Command
    \/ PlayerWakes
    \/ PlayerSteps
    \/ \E e \in PolarEvent : PollerSends(e)
    \/ \E s \in Sites : PollerJoins(s)
    \/ PollerEnds
    \/ CleanupRestarts
    \/ TakeEvent
    \/ Encode
    \/ Deliver
    \/ \E m \in GridMessage : GridPollerSends(m)
    \/ TakeGridEvent
    \/ ClockAdvances

Spec == Init /\ [][Next]_vars

\* The tasks are scheduled whenever they can run; what clients ask for, what a
\* feed publishes and what fails is up to the world.
Fairness ==
    /\ WF_vars(PlayerWakes) /\ WF_vars(PlayerSteps)
    /\ WF_vars(TakeEvent) /\ WF_vars(Encode) /\ WF_vars(Deliver)
    /\ WF_vars(TakeGridEvent)

FairSpec == Spec /\ Fairness

-----------------------------------------------------------------------------
(* Safety *)

\* A pin names a complete frame that is listed: no drop from the ring, expiry
\* or retention leaves `shown` dangling, which position() would turn into "no
\* frame" (Timeline::repin and its callers).  While a sweep paints, repin also
\* takes a pin on the sweep's own id for listed.
PinListed == (tl.shown # NoFrame /\ tl.partial = NoFrame) => tl.shown \in tl.stored

\* The timeline lists a sweep in progress exactly while its texture is held,
\* so show_position never meets "the sweep in progress has no texture", and
\* only for a station: a mosaic's arrival completes without touching it.
PendingIsPartial ==
    /\ pending = tl.partial
    /\ pending # NoFrame => selection \in Sites

\* Whatever is listed, painting or on screen belongs to the selected source:
\* nothing a past station's poller left in the channel, or in the encoder,
\* reaches the next station's timeline or screen (live_events, mosaic_events).
OneSource ==
    /\ \A f \in Listed(tl) : f.src = selection
    /\ screen # NoFrame => screen.src = selection

\* docs/protocol.md: `locked: true` requires a non-null selection, through
\* every covering switch, clear and failed switch.
LockedHasSelection == locked => selection # NoSource

\* Playback never waits for a wake that will not come: while `playing`, the
\* player is in its loop or a permit is stored for it, whatever pauses and
\* plays landed during its sleep (Shared::play, player).
NoLostWakeup == playing => (player = "sleeping" \/ wake)

\* A pinned frame is the frame on screen: the position that step and play
\* start from is what the user sees (Timeline::position, navigate, tick).  For
\* a station that is promised inside the retention window and while no stored
\* sweep is on its way: a tick can land on a frame that the catalog's ring has
\* just dropped, or on one that a selection evicted before it was listed, and
\* then leaves the screen alone.
PinnedOnScreen ==
    (/\ tl.shown \in tl.stored
     /\ selection \in Sites => job.phase # "encoded" /\ tl.shown.t >= Cutoff)
        => screen = tl.shown

\* While the newest entry is followed, a sweep in progress that is the newest
\* is on screen: no pause, backfill, playback step or station switch leaves it
\* painting unseen (arrived, navigate, tick).
FollowingShowsSweep ==
    (/\ Following(tl) /\ tl.partial # NoFrame
     /\ \A g \in tl.stored : g.t < tl.partial.t) => screen = tl.partial

\* While the newest entry of a mosaic is followed, the screen shows it or its
\* placeholder, whatever order observations and backfills come in
\* (accept_mosaic).
FollowingShowsNewest ==
    (selection \in Grids /\ Following(tl) /\ tl.stored # {}) => screen = LatestOf(tl.stored)

\* Every listed frame of a station that is inside the retention window can be
\* read back from the catalog, except while a stored sweep is on its way to
\* the timeline, when the ring may already have dropped the oldest.
ListedOnDisk ==
    (selection \in Sites /\ job.phase # "encoded")
        => {f \in tl.stored : f.t >= Cutoff} \subseteq disk

\* Every listed mosaic is in the in-memory ring: its texture is published and
\* cleanup keeps it, so playback never steps onto a deleted file (accept_mosaic).
ListedHasTexture == selection \in Grids \cup Statics => tl.stored \subseteq mosaic

\* ageSeconds is the age of the newest complete frame: no listed frame is
\* newer than the one the age is counted from (arrived, backfilled, select_site).
AgeCoversListed == \A f \in tl.stored : f.t <= frameTime

\* The inductive invariant behind the theorems of EngineProofs: it holds
\* whatever fails on disk.
IndInv ==
    /\ TypeOK
    /\ PinListed
    /\ PendingIsPartial
    /\ OneSource
    /\ LockedHasSelection
    /\ NoLostWakeup

-----------------------------------------------------------------------------
(* Action properties *)

\* A new sweep, a backfill or an expiry leaves the screen alone while the pin
\* stays where the user put it.
PinHoldsScreen ==
    [][(/\ tl.shown # NoFrame /\ tl'.shown = tl.shown
        /\ selection' = selection) => screen' = screen]_vars

\* The observation clock of a selection never moves backward.
AgeNeverRewinds == [][selection' = selection => frameTime' >= frameTime]_vars

\* While the lock holds, no pan and no task moves the selection; only an
\* explicit select_site or select_source does.
LockPinsSelection ==
    [][(locked /\ locked' /\ selection' # selection)
          => \E s \in Sources : Select(s)]_vars

-----------------------------------------------------------------------------
(* What the documentation says and the code does not do *)

\* docs/protocol.md:111 "`frame` is one of them [the timeline's frames], or
\* `null` with no selection" (the loading placeholder aside).
FrameIsListed == (screen # NoFrame /\ screen.t # 0) => screen \in Listed(tl)

-----------------------------------------------------------------------------
(* Liveness *)

\* While there are two complete frames to loop over, playback leaves every
\* frame it shows, or stops.
PlaybackMoves ==
    \A f \in Frame :
        (playing /\ screen = f /\ Cardinality(tl.stored) >= 2)
            ~> (~playing \/ screen # f \/ Cardinality(tl.stored) < 2)

\* A full event channel never blocks its poller for good, whichever station
\* the events are for.
ChannelDrains == Len(events) = Channel ~> Len(events) < Channel
=============================================================================

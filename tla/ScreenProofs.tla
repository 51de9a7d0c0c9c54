---------------------------- MODULE ScreenProofs ----------------------------
(***************************************************************************)
(* What the user sees, whatever the sources, the bounds and the commands:  *)
(* the age, the screen, the pin, the textures and the catalog agree with   *)
(* the timeline.  A theorem names the operations on files that must not    *)
(* fail for it; any other may.                                             *)
(***************************************************************************)
EXTENDS Screen, EngineProofs, SequenceTheorems

-----------------------------------------------------------------------------
(* What one step does, as far as the invariants can tell *)

look == <<selection, screen, tl.stored, tl.partial, tl.shown, mosaic, frameTime, pending>>

Quiet == UNCHANGED <<look, disk, events, job, heard, now>> /\ base' \in {base, 0}

Chosen ==
    /\ UNCHANGED <<events, job, heard, now>>
    /\ \/ \E s \in Sources : s # selection /\ SwitchTo(s)
       \/ selection # NoSource /\ ClearSelection

\* A playback tick whose frame is nowhere to be found moves the pin alone.
Missed(e) ==
    /\ ~e.painting /\ screen' = screen /\ e.frame \notin mosaic
    /\ Faults \cap {"publish", "load"} = {} => e.frame \notin disk

MovesTo(e) ==
    /\ tl' = Pin(tl, e)
    /\ UNCHANGED <<selection, pending, mosaic, frameTime, base, events, job, disk, heard, now>>
    /\ IF Position(tl) = {e} THEN screen' = screen
       ELSE \/ screen' = Displayed(e, pending)
            \/ Missed(e)

\* Selecting what is selected, or going where one is, changes nothing shown.
LEMMA KeepIsQuiet ==
    ASSUME KeepSelection, UNCHANGED <<tasks, world>>
    PROVE  Quiet
BY DEF KeepSelection, Quiet, look, tasks, world, feed

\* apply_covering keeps the selection, clears it or switches to another source.
LEMMA CoveringCases ==
    ASSUME NEW wanted \in Sites \cup Grids \cup {NoSource}, ApplyCovering(wanted),
           UNCHANGED <<tasks, world>>
    PROVE  Quiet \/ Chosen
<1>1. UNCHANGED <<events, job, heard, now>>
    BY DEF tasks, world
<1>2. CASE wanted = selection
    BY <1>2, KeepIsQuiet DEF ApplyCovering
<1>3. CASE wanted # selection /\ wanted = NoSource
    BY <1>1, <1>3 DEF ApplyCovering, Chosen
<1>4. CASE wanted # selection /\ wanted # NoSource
    BY <1>1, <1>4, SourcesPartition DEF ApplyCovering, Chosen
<1> QED BY <1>2, <1>3, <1>4

\* An operation that may not fail succeeds.
LEMMA OutcomesGive ==
    ASSUME NEW op, NEW ok \in Outcomes(op)
    PROVE  ok \in BOOLEAN /\ (op \notin Faults => ok)
BY DEF Outcomes

\* A seek or step moves, or changes nothing that is shown.
LEMMA NavigateCases ==
    ASSUME Inv, NEW e \in Entries(tl), Navigate(e)
    PROVE  Quiet \/ MovesTo(e)
<1>1. UNCHANGED <<selection, pending, mosaic, frameTime, base, events, job, disk, heard, now>>
    BY DEF Navigate, UnchangedByMoves, feed, tasks, world
<1>2. CASE Position(tl) = {e}
    BY <1>1, <1>2 DEF Navigate, MovesTo
<1>3. CASE Position(tl) # {e}
    <2>1. \/ UNCHANGED <<tl, screen>>
          \/ tl' = Pin(tl, e) /\ screen' = Displayed(e, pending)
        BY <1>3 DEF Navigate
    <2> QED BY <1>1, <1>3, <2>1 DEF Quiet, MovesTo, look
<1> QED BY <1>2, <1>3

\* A tick moves to a complete frame, or changes nothing.
LEMMA TickCases ==
    ASSUME Inv, Tick,
           UNCHANGED <<selection, pending, mosaic, frameTime, base, events, job, disk, heard, now>>
    PROVE  Quiet \/ \E e \in Entries(tl) : MovesTo(e)
<1>1. CASE Cardinality(tl.stored) < 2
    BY <1>1 DEF Tick, Quiet, look
<1>2. CASE ~(Cardinality(tl.stored) < 2)
    <2> DEFINE e == CompleteEntry(NextInLoop(tl))
    <2>1. tl \in Histories /\ tl.stored # {}
        <3>1. Cardinality({}) = 0
            BY FS_EmptySet
        <3>2. tl.stored = {} => Cardinality(tl.stored) = 0
            BY <3>1
        <3> QED BY <1>2, <3>2 DEF Inv, SessionOK, Sound
    <2>2. NextInLoop(tl) \in tl.stored
        BY <2>1, NextInLoopIn
    <2>3. e \in Entries(tl) /\ ~e.painting /\ Displayed(e, pending) = e.frame
        BY <2>2 DEF CompleteEntry, Entries, Displayed
    <2>4. tl' = Pin(tl, e)
        BY <1>2 DEF Tick
    <2>5. Position(tl) = {e} => screen' = screen
        BY <1>2 DEF Tick
    <2>6. Position(tl) # {e} =>
             \E pub \in Outcomes("publish"), read \in Outcomes("load") :
                IF Showable(e, pending, mosaic, disk, pub, read) THEN screen' = e.frame
                ELSE screen' = screen
        BY <1>2 DEF Tick
    <2> HIDE DEF e
    <2>7. ASSUME Position(tl) # {e}, screen' # e.frame PROVE Missed(e)
        <3>1. PICK pub \in Outcomes("publish"), read \in Outcomes("load") :
                IF Showable(e, pending, mosaic, disk, pub, read) THEN screen' = e.frame
                ELSE screen' = screen
            BY <2>6, <2>7
        <3>2. ~Showable(e, pending, mosaic, disk, pub, read) /\ screen' = screen
            BY <2>7, <3>1
        <3>3. Faults \cap {"publish", "load"} = {} => pub /\ read
            BY OutcomesGive
        <3> QED BY <2>3, <3>2, <3>3 DEF Missed, Showable
    <2> QED BY <2>3, <2>4, <2>5, <2>7 DEF MovesTo
<1> QED BY <1>1, <1>2

\* Every step is one of these.
LEMMA StepCases ==
    ASSUME Inv, [Next]_vars
    PROVE  \/ Quiet
           \/ Chosen
           \/ \E e \in Entries(tl) : MovesTo(e)
           \/ \E e \in PolarEvent : PollerSends(e)
           \/ \E s \in Sites : PollerJoins(s)
           \/ TakeEvent
           \/ Encode
           \/ Deliver
           \/ TakeGridEvent
           \/ ClockAdvances
<1>1. CASE UNCHANGED vars
    BY <1>1 DEF vars, Quiet, look
<1>2. ASSUME NEW s \in Sources, Select(s) PROVE Quiet \/ Chosen
    <2>1. UNCHANGED <<tasks, world>>
        BY <1>2 DEF Select
    <2>2. CASE s # selection
        BY <1>2, <2>1, <2>2 DEF Select, Chosen, tasks, world
    <2>3. CASE s = selection /\ (s \in Statics \/ live)
        BY <1>2, <2>1, <2>3, KeepIsQuiet DEF Select
    <2>4. CASE s = selection /\ ~(s \in Statics \/ live)
        BY <1>2, <2>1, <2>4 DEF Select, RestartLive, AbortLive, Quiet, look, tasks, world
    <2> QED BY <2>2, <2>3, <2>4
<1>3. ASSUME NEW enabled \in BOOLEAN, Follow(enabled) PROVE Quiet
    BY <1>3, KeepIsQuiet DEF Follow
<1>4. ASSUME NEW enabled \in BOOLEAN, SetLock(enabled) PROVE Quiet \/ Chosen
    <2>1. UNCHANGED <<tasks, world>>
        BY <1>4 DEF SetLock
    <2>2. CASE enabled /\ selection = NoSource
        BY <1>4, <2>1, <2>2 DEF SetLock, Quiet, look, shown, feed, tasks, world
    <2>3. CASE ~(enabled /\ selection = NoSource)
        BY <1>4, <2>1, <2>3, KeepIsQuiet, CoveringCases DEF SetLock
    <2> QED BY <2>2, <2>3
<1>5. ASSUME NEW wanted \in Sites \cup Grids \cup {NoSource}, ViewCenter(wanted)
      PROVE  Quiet \/ Chosen
    BY <1>5, KeepIsQuiet, CoveringCases DEF ViewCenter
<1>6. ASSUME StepNowhere \/ Pause \/ (\E f \in Frame : SeekElsewhere(f)) PROVE Quiet
    BY <1>6 DEF StepNowhere, Pause, SeekElsewhere, UnchangedByMoves, Quiet, look, feed, tasks,
                world
<1>7. ASSUME Play PROVE Quiet
    <2>1. /\ tl' = StartPlayback(tl)
          /\ UNCHANGED <<selection, screen, mosaic, frameTime, pending, disk, events, job, heard,
                         now, base>>
        BY <1>7 DEF Play, feed, world
    <2>2. UNCHANGED <<tl.stored, tl.partial, tl.shown>>
        BY <2>1 DEF StartPlayback, Inv, SessionOK, Sound, Histories
    <2> QED BY <2>1, <2>2 DEF Quiet, look
<1>8. CASE Command
    BY <1>2, <1>3, <1>4, <1>5, <1>6, <1>7, <1>8, NavigateCases DEF Command
<1>9. ASSUME PlayerWakes PROVE Quiet
    BY <1>9 DEF PlayerWakes, Quiet, look, shown, feed, world
<1>10. ASSUME PlayerSteps PROVE Quiet \/ \E e \in Entries(tl) : MovesTo(e)
    <2>1. /\ IF playing THEN Tick ELSE UNCHANGED <<tl, screen, playing>>
          /\ UNCHANGED <<selection, pending, mosaic, frameTime, base, events, job, disk, heard,
                         now>>
        BY <1>10 DEF PlayerSteps, feed, world
    <2>2. CASE playing
        BY <2>1, <2>2, TickCases
    <2>3. CASE ~playing
        BY <2>1, <2>3 DEF Quiet, look
    <2> QED BY <2>2, <2>3
<1>11. ASSUME PollerEnds \/ CleanupRestarts PROVE Quiet
    BY <1>11 DEF PollerEnds, CleanupRestarts, RestartLive, AbortLive, Quiet, look, shown, tasks,
                 world
<1>12. ASSUME NEW m, GridPollerSends(m) PROVE Quiet
    BY <1>12 DEF GridPollerSends, Quiet, look, shown, feed, tasks, world
<1>13. CASE Next
    BY <1>8, <1>9, <1>10, <1>11, <1>12, <1>13 DEF Next
<1> QED BY <1>1, <1>13
-----------------------------------------------------------------------------
(* What the steps that touch the timeline leave of it *)

\* Typed and of one source: what the invariant of EngineProofs says of a timeline.
LEMMA TimelineTyped ==
    ASSUME Inv
    PROVE  /\ Sound(tl, selection) /\ tl \in Histories /\ pending = tl.partial
           /\ OfOneSource(tl.stored, selection) /\ tl.stored \in SUBSET Frame
           /\ NoFrame \notin tl.stored
           /\ disk \subseteq Frame /\ frameTime \in 0..MaxTime
           /\ tl.partial # NoFrame => selection \in Sites
BY NoFrameNotIn DEF Inv, SessionOK, Sound, Histories, FromSource, Listed, OfOneSource,
   PendingIsPartial

\* A complete entry is known by its frame.
LEMMA EntryOfFrame ==
    ASSUME NEW h, NEW e \in Entries(h), ~e.painting
    PROVE  e = CompleteEntry(e.frame)
<1>1. e \in [frame : h.stored, painting : {FALSE}]
    BY DEF Entries
<1> QED BY <1>1 DEF CompleteEntry

\* A move leaves the frames alone, and the pin on the entry or following.
LEMMA MoveGives ==
    ASSUME Inv, NEW e \in Entries(tl), MovesTo(e)
    PROVE  /\ tl'.stored = tl.stored /\ tl'.partial = tl.partial
           /\ tl'.shown = IF IsLast(tl, e) THEN NoFrame ELSE e.frame
           /\ e.painting => e.frame = tl.partial /\ tl.partial # NoFrame /\ tl'.shown = NoFrame
           /\ ~e.painting => e.frame \in tl.stored
           /\ \/ /\ screen' = screen
                 /\ tl.shown = NoFrame => tl'.shown = NoFrame
                 /\ tl.shown # NoFrame =>
                      e.frame = tl.shown /\ (e.painting => tl.shown \notin tl.stored)
              \/ /\ screen' = e.frame
                 /\ tl'.shown = tl.shown => tl.shown = NoFrame
              \/ /\ Missed(e)
                 /\ tl'.shown = tl.shown => tl.shown = NoFrame
<1>1. tl \in Histories /\ pending = tl.partial
    BY TimelineTyped
<1>2. /\ tl'.stored = tl.stored /\ tl'.partial = tl.partial
      /\ tl'.shown = IF IsLast(tl, e) THEN NoFrame ELSE e.frame
    BY <1>1 DEF MovesTo, Pin, Histories
<1>3. /\ e.painting => e.frame = tl.partial /\ tl.partial # NoFrame /\ tl'.shown = NoFrame
      /\ ~e.painting => e.frame \in tl.stored
      /\ e.painting \in BOOLEAN /\ e.frame # NoFrame
    BY <1>1, <1>2, EntryIn, NoFrameNotIn DEF IsLast
<1>4. CASE Position(tl) = {e}
    <2>1. screen' = screen /\ e \in Position(tl)
        BY <1>4 DEF MovesTo
    <2>2. CASE Following(tl)
        <3>1. IsLast(tl, e)
            BY <2>1, <2>2 DEF Position, IsLast
        <3> QED BY <1>2, <1>3, <2>1, <2>2, <3>1 DEF Following
    <2>3. CASE ~Following(tl)
        <3>1. e.frame = tl.shown /\ (e.painting => tl.shown \notin tl.stored)
            BY <2>1, <2>3 DEF Position
        <3> QED BY <1>2, <1>3, <2>1, <2>3, <3>1 DEF Following
    <2> QED BY <2>2, <2>3
<1>5. CASE Position(tl) # {e}
    <2>1. screen' = e.frame \/ Missed(e)
        BY <1>1, <1>3, <1>5 DEF MovesTo, Displayed
    <2>2. ASSUME tl'.shown = tl.shown, tl.shown # NoFrame PROVE FALSE
        <3>1. ~e.painting /\ e.frame = tl.shown /\ tl.shown \in tl.stored
            BY <1>2, <1>3, <2>2
        <3>2. \A d \in Entries(tl) : d.frame = tl.shown /\ ~d.painting => d = e
            BY <3>1, EntryOfFrame
        <3>3. Position(tl) = {e}
            <4>1. e \in Position(tl)
                BY <2>2, <3>1 DEF Position, Following
            <4>2. \A d \in Position(tl) : d \in Entries(tl) /\ d.frame = tl.shown /\ ~d.painting
                BY <2>2, <3>1, <1>1, EntryIn DEF Position, Following
            <4> QED BY <3>2, <4>1, <4>2
        <3> QED BY <1>5, <3>3
    <2> QED BY <1>2, <1>3, <2>1, <2>2
<1> QED BY <1>4, <1>5

\* After a repin the oldest complete frame is on screen, when it can be shown.
LEMMA ShowOldestGives ==
    ASSUME NEW h \in Histories, h.stored # {}, NEW pend, NEW ring, NEW files,
           NEW pub, NEW read,
           EarliestOf(h.stored) \in ring \/ (EarliestOf(h.stored) \in files /\ read /\ pub)
    PROVE  ShowOldest(h, pend, ring, files, pub, read) = EarliestOf(h.stored)
<1> DEFINE first == CompleteEntry(EarliestOf(h.stored))
           firsts == {e \in Entries(h) : IF h.stored = {} THEN e.painting
                                         ELSE e.frame = EarliestOf(h.stored) /\ ~e.painting}
           shows == {e \in firsts : Showable(e, pend, ring, files, pub, read)}
<1>1. EarliestOf(h.stored) \in h.stored
    BY EarliestIn DEF Histories
<1>2. first \in Entries(h) /\ ~first.painting /\ first.frame = EarliestOf(h.stored)
    BY <1>1 DEF Entries, CompleteEntry
<1>3. \A e \in firsts : e = first
    <2> SUFFICES ASSUME NEW e \in firsts PROVE e = first
        OBVIOUS
    <2>1. e \in Entries(h) /\ e.frame = EarliestOf(h.stored) /\ ~e.painting
        OBVIOUS
    <2> QED BY <2>1, EntryIn DEF Entries, CompleteEntry
<1>4. Showable(first, pend, ring, files, pub, read)
    BY <1>2 DEF Showable
<1>5. shows = {first}
    BY <1>2, <1>3, <1>4
<1>6. (CHOOSE e \in shows : TRUE) = first
    BY <1>5
<1>7. ShowOldest(h, pend, ring, files, pub, read) = Displayed(CHOOSE e \in shows : TRUE, pend)
    BY <1>5 DEF ShowOldest
<1> QED BY <1>2, <1>6, <1>7 DEF Displayed

\* How an arrival that may drop frames leaves a pin, and the screen with it.
PinAfter(ring, files) ==
    /\ tl.shown = NoFrame => tl'.shown = NoFrame
    /\ tl.shown # NoFrame /\ tl'.shown = tl.shown => screen' = screen
    /\ tl.shown # NoFrame /\ tl'.shown # tl.shown =>
         /\ tl.shown \notin tl'.stored
         /\ tl'.shown = IF tl'.stored = {} THEN NoFrame ELSE EarliestOf(tl'.stored)
         /\ (/\ tl'.stored # {}
             /\ \/ EarliestOf(tl'.stored) \in ring
                \/ Faults \cap {"publish", "load"} = {} /\ EarliestOf(tl'.stored) \in files)
              => screen' = EarliestOf(tl'.stored)

\* Repinned, and shown if it can be, is what PinAfter says.
LEMMA PinMoved ==
    ASSUME tl' \in Histories,
           NEW ring, NEW files, NEW pend, NEW pub \in Outcomes("publish"),
           NEW read \in Outcomes("load"),
           \/ tl'.shown = tl.shown
           \/ /\ tl.shown # NoFrame /\ tl.shown \notin tl'.stored
              /\ tl'.shown = IF tl'.stored = {} THEN NoFrame ELSE EarliestOf(tl'.stored),
           ~Following(tl) =>
              screen' = IF Repinned(tl, tl') THEN ShowOldest(tl', pend, ring, files, pub, read)
                        ELSE screen
    PROVE  PinAfter(ring, files)
<1>1. Faults \cap {"publish", "load"} = {} => pub /\ read
    BY OutcomesGive
<1>2. ASSUME tl'.stored # {},
             \/ EarliestOf(tl'.stored) \in ring
             \/ Faults \cap {"publish", "load"} = {} /\ EarliestOf(tl'.stored) \in files
      PROVE  ShowOldest(tl', pend, ring, files, pub, read) = EarliestOf(tl'.stored)
    BY <1>1, <1>2, ShowOldestGives
<1> QED BY <1>2 DEF PinAfter, Repinned, Following

\* A complete sweep joins, and what is past the cutoff leaves.
LEMMA CompleteArrives ==
    ASSUME Inv, NEW f \in Frame, f.src = selection, ArrivedComplete(f)
    PROVE  /\ tl'.stored = Since(NewestOf(tl.stored \cup {f}, Ring), Cutoff)
           /\ tl'.partial = NoFrame /\ pending' = NoFrame /\ frameTime' = f.t
           /\ tl'.shown # NoFrame => tl'.shown \in tl'.stored
           /\ disk' \in Evictions(selection, Cutoff, disk)
           /\ PinAfter(mosaic, disk')
<1>0. Sound(tl, selection) /\ Ring \in Nat \ {0}
    BY TimelineTyped, BoundsAreNat
<1>1. PICK kept \in Evictions(selection, Cutoff, disk), pub \in Outcomes("publish"),
           read \in Outcomes("load") :
        LET h == Expire(Complete(tl, f, Ring), Cutoff)
        IN  /\ tl' = h
            /\ pending' = NoFrame
            /\ frameTime' = f.t
            /\ disk' = kept
            /\ screen' = IF Following(tl) THEN (IF pub THEN f ELSE screen)
                         ELSE IF Repinned(tl, h)
                         THEN ShowOldest(h, NoFrame, mosaic, kept, pub, read)
                         ELSE screen
    BY DEF ArrivedComplete
<1>2. tl' = Expire(Complete(tl, f, Ring), Cutoff) /\ disk' = kept
    BY <1>1
<1>3. /\ tl'.stored = Since(NewestOf(tl.stored \cup {f}, Ring), Cutoff)
      /\ tl'.partial = NoFrame
      /\ tl'.shown # NoFrame => tl'.shown \in tl'.stored
      /\ \/ tl'.shown = tl.shown
         \/ /\ tl.shown # NoFrame /\ tl.shown \notin tl'.stored
            /\ tl'.shown = IF tl'.stored = {} THEN NoFrame ELSE EarliestOf(tl'.stored)
    BY <1>0, <1>2, ArrivedGives
<1>4. tl' \in Histories
    BY <1>0, <1>2, CompleteSound, ExpireSound DEF Sound
<1>5. ~Following(tl) =>
        screen' = IF Repinned(tl, tl') THEN ShowOldest(tl', NoFrame, mosaic, disk', pub, read)
                  ELSE screen
    BY <1>1
<1>6. PinAfter(mosaic, disk')
    BY <1>3, <1>4, <1>5, PinMoved
<1> QED BY <1>1, <1>3, <1>6

\* A backfilled sweep takes its place, and the ring drops the oldest.
LEMMA BackfillArrives ==
    ASSUME Inv, NEW f \in Frame, f.src = selection, Backfilled(f)
    PROVE  /\ tl'.stored = NewestOf(tl.stored \cup {f}, Ring) /\ tl'.stored # {}
           /\ tl'.partial = tl.partial /\ UNCHANGED <<pending, disk>>
           /\ frameTime' = ObservationClock(f)
           /\ PinAfter(mosaic, disk)
<1>0. Sound(tl, selection) /\ Ring \in Nat \ {0}
    BY TimelineTyped, BoundsAreNat
<1>1. PICK pub \in Outcomes("publish"), read \in Outcomes("load") :
        LET h == Insert(tl, f, Ring) IN
        /\ tl' = h
        /\ frameTime' = ObservationClock(f)
        /\ screen' = IF Repinned(tl, h) THEN ShowOldest(h, pending, mosaic, disk, pub, read)
                     ELSE screen
        /\ UNCHANGED <<pending, disk>>
    BY DEF Backfilled
<1>2. tl' = Insert(tl, f, Ring)
    BY <1>1
<1>3. /\ tl'.stored = NewestOf(tl.stored \cup {f}, Ring) /\ tl'.stored # {}
      /\ tl'.partial = tl.partial
      /\ \/ tl'.shown = tl.shown
         \/ /\ tl.shown # NoFrame /\ tl.shown \notin tl'.stored
            /\ tl'.shown = EarliestOf(tl'.stored)
    BY <1>0, <1>2, InsertGives
<1>4. tl' \in Histories
    BY <1>0, <1>2, InsertSound DEF Sound
<1>5. screen' = IF Repinned(tl, tl') THEN ShowOldest(tl', pending, mosaic, disk, pub, read)
                ELSE screen
    BY <1>1
<1>6. PinAfter(mosaic, disk)
    BY <1>3, <1>4, <1>5, PinMoved
<1> QED BY <1>1, <1>3, <1>6

\* A mosaic joins the timeline with its texture, or nothing of it does.
LEMMA MosaicArrives ==
    ASSUME Inv, TakeGridEvent
    PROVE  /\ UNCHANGED <<selection, pending, base, events, job, disk, heard, now>>
           /\ \/ UNCHANGED look
              \/ \E f \in Frame :
                    /\ f.src = selection /\ selection \in Grids
                    /\ tl'.stored = NewestOf(Within(NewestOf(tl.stored \cup {f}, Ring),
                                                    ObservationClock(f), GridWindow), GridMax)
                    /\ tl'.partial = NoFrame /\ tl.partial = NoFrame
                    /\ tl'.shown # NoFrame => tl'.shown \in tl'.stored
                    /\ frameTime' = ObservationClock(f)
                    /\ mosaic' = (mosaic \cup {f}) \cap tl'.stored
                    /\ tl.shown = NoFrame =>
                         screen' = IF f.t = ObservationClock(f) THEN f ELSE screen
                    /\ PinAfter(mosaic', disk)
<1> DEFINE f == [src |-> gridEvent.src, t |-> gridEvent.t]
           newest == ObservationClock(f)
           h == RetainHistory(Complete(tl, f, Ring), newest, GridWindow, GridMax)
           ring == (mosaic \cup {f}) \cap h.stored
<1>1. UNCHANGED <<selection, pending, base, events, job, disk, heard, now>>
    BY DEF TakeGridEvent, feed, tasks, world
<1>2. f \in Frame /\ gridEvent.src \in Grids /\ f.src = gridEvent.src
    BY SourcesPartition DEF TakeGridEvent, Inv, SessionOK, GridMessage, Frame, Times
<1>3. \/ UNCHANGED <<tl, mosaic, frameTime, screen>>
      \/ /\ gridEvent.src = selection
         /\ tl' = h /\ mosaic' = ring /\ frameTime' = newest
         /\ screen' = IF Following(tl) /\ f.t = newest THEN f
                      ELSE IF Repinned(tl, h) THEN ShowOldest(h, pending, ring, disk, TRUE, TRUE)
                      ELSE screen
    BY DEF TakeGridEvent, AcceptMosaic, Textured, TakesScreen, Matches
<1> HIDE DEF f
<1>4. CASE UNCHANGED <<tl, mosaic, frameTime, screen>>
    BY <1>1, <1>4 DEF look
<1>5. CASE /\ gridEvent.src = selection
           /\ tl' = h /\ mosaic' = ring /\ frameTime' = newest
           /\ screen' = IF Following(tl) /\ f.t = newest THEN f
                        ELSE IF Repinned(tl, h) THEN ShowOldest(h, pending, ring, disk, TRUE, TRUE)
                        ELSE screen
    <2>0. Sound(tl, selection) /\ Ring \in Nat \ {0} /\ f.src = selection /\ selection \in Grids
        BY <1>2, <1>5, TimelineTyped, BoundsAreNat
    <2>1. /\ tl'.stored = NewestOf(Within(NewestOf(tl.stored \cup {f}, Ring), newest,
                                          GridWindow), GridMax)
          /\ tl'.partial = NoFrame
          /\ tl'.shown # NoFrame => tl'.shown \in tl'.stored
          /\ \/ tl'.shown = tl.shown
             \/ /\ tl.shown # NoFrame /\ tl.shown \notin tl'.stored
                /\ tl'.shown = IF tl'.stored = {} THEN NoFrame ELSE EarliestOf(tl'.stored)
        BY <1>2, <1>5, <2>0, AcceptGives
    <2>2. tl' \in Histories
        BY <1>2, <1>5, <2>0, CompleteSound, RetainSound DEF Sound
    <2>3. tl.partial = NoFrame
        BY <2>0, TimelineTyped, SourcesPartition
    <2>4. TRUE \in Outcomes("publish") /\ TRUE \in Outcomes("load")
        BY DEF Outcomes
    <2>5. ~Following(tl) =>
            screen' = IF Repinned(tl, tl')
                      THEN ShowOldest(tl', pending, mosaic', disk, TRUE, TRUE) ELSE screen
        BY <1>5
    <2>6. PinAfter(mosaic', disk)
        BY <2>1, <2>2, <2>4, <2>5, PinMoved
    <2>7. tl.shown = NoFrame => screen' = IF f.t = newest THEN f ELSE screen
        BY <1>5, <2>1 DEF Following, Repinned
    <2>8. mosaic' = (mosaic \cup {f}) \cap tl'.stored /\ frameTime' = newest
        BY <1>5
    <2> QED BY <1>1, <1>2, <2>0, <2>1, <2>3, <2>6, <2>7, <2>8
<1> QED BY <1>3, <1>4, <1>5

\* A delivered sweep is dropped, or arrives as what it is.
LEMMA DeliverGives ==
    ASSUME Inv, Deliver
    PROVE  LET f == FrameOf(job.event) IN
           /\ job \in Job /\ job # NoJob /\ job.phase = "encoded" /\ job' = NoJob
           /\ f \in Frame /\ f.src \in Sites
           /\ UNCHANGED <<selection, mosaic, base, events, heard, now>>
           /\ \/ /\ UNCHANGED <<look, disk>>
                 /\ (f.src = selection /\ job.event.kind # "partial") => f \in tl.stored
              \/ f.src = selection /\ job.event.kind = "partial" /\ ArrivedPartial(f)
              \/ f.src = selection /\ job.event.kind = "complete" /\ ArrivedComplete(f)
              \/ f.src = selection /\ job.event.kind = "backfill" /\ Backfilled(f)
<1> DEFINE e == job.event
           f == FrameOf(e)
<1>1. job \in Job /\ job # NoJob /\ job.phase = "encoded" /\ job' = NoJob /\ e \in PolarEvent
    BY DEF Deliver, Inv, RestOK, Job, NoJob
<1>2. f \in Frame /\ f.src = e.src /\ f.src \in Sites
    BY <1>1, SourcesPartition DEF FrameOf, PolarEvent, Frame
<1>3. UNCHANGED <<selection, mosaic, base, events, heard, now>>
    BY DEF Deliver, feed, world
<1>4. e.kind \in {"partial", "complete", "backfill"}
    BY <1>1 DEF PolarEvent, SweepKinds
<1>5. CASE ~(e.src = selection) \/ (e.kind # "backfill" /\ \E g \in tl.stored : g.t = f.t)
    <2>1. UNCHANGED <<tl, pending, screen, frameTime, disk>>
        BY <1>5 DEF Deliver, LiveSelected
    <2>2. e.src = selection => f \in tl.stored
        <3> SUFFICES ASSUME e.src = selection PROVE f \in tl.stored
            OBVIOUS
        <3>1. PICK g \in tl.stored : g.t = f.t
            BY <1>5
        <3>2. g.src = selection /\ g \in Frame
            BY TimelineTyped DEF OfOneSource
        <3>3. g = f
            BY <1>2, <3>1, <3>2 DEF Frame
        <3> QED BY <3>1, <3>3
    <2> QED BY <1>1, <1>2, <1>3, <2>1, <2>2 DEF look
<1>6. CASE e.src = selection /\ ~(e.kind # "backfill" /\ \E g \in tl.stored : g.t = f.t)
    <2>1. (CASE e.kind = "partial" -> ArrivedPartial(f)
             [] e.kind = "complete" -> ArrivedComplete(f)
             [] e.kind = "backfill" -> Backfilled(f))
        BY <1>6 DEF Deliver, LiveSelected
    <2> QED BY <1>1, <1>2, <1>3, <1>4, <1>6, <2>1
<1> QED BY <1>5, <1>6

\* What a selection may do to the catalog: evict what is past the cutoff.
Evicted == disk' = disk \/ \E s : disk' \in Evictions(s, Cutoff, disk)

\* What a selection makes of the timeline, by the kind of source it lands on.
SelectedSite ==
    /\ selection' \in Sites
    /\ \E listed \in Outcomes("list"), loaded \in Outcomes("load") :
         /\ tl'.stored = IF listed THEN NewestOf(FramesOf(selection', disk'), Ring) ELSE {}
         /\ frameTime' = IF tl'.stored # {} /\ loaded THEN LatestOf(tl'.stored).t ELSE 0

SelectedEmpty == selection' \in Grids \cup {NoSource} /\ tl'.stored = {} /\ frameTime' = 0

SelectedStatic ==
    /\ selection' \in Statics /\ tl'.stored # {} /\ tl'.stored = mosaic'
    /\ frameTime' = LatestOf(tl'.stored).t

Selected ==
    /\ selection' # selection
    /\ tl'.shown = NoFrame /\ tl'.partial = NoFrame /\ pending' = NoFrame /\ base' = 0
    /\ SelectedSite \/ SelectedEmpty \/ SelectedStatic

Unselected ==
    "publish" \in Faults
        /\ UNCHANGED <<selection, screen, tl, frameTime, pending>>

\* A switch goes through, or leaves everything but the textures and the
\* catalog alone.
LEMMA ChosenGives ==
    ASSUME Inv, Chosen
    PROVE  /\ UNCHANGED <<events, job, heard, now>> /\ base' \in {base, 0}
           /\ Evicted
           /\ Selected \/ Unselected
<1>1. UNCHANGED <<events, job, heard, now>>
    BY DEF Chosen
<1>2. ASSUME NEW s \in Sites, s # selection, SwitchToSite(s)
      PROVE  base' \in {base, 0} /\ Evicted /\ (Selected \/ Unselected)
    <2>1. PICK kept \in Evictions(s, Cutoff, disk), listed \in Outcomes("list"),
               loaded \in Outcomes("load"), published \in Outcomes("publish") :
            LET frames == IF listed THEN NewestOf(FramesOf(s, kept), Ring) ELSE {}
                first == IF frames # {} /\ loaded THEN LatestOf(frames) ELSE Blank(s)
            IN  /\ mosaic' = {}
                /\ disk' = kept
                /\ Answer(published)
                /\ IF published
                   THEN /\ screen' = first
                        /\ frameTime' = first.t
                        /\ tl' = NewHistory(frames)
                        /\ pending' = NoFrame
                        /\ playing' = FALSE
                        /\ selection' = s
                        /\ RestartLive
                   ELSE UNCHANGED <<screen, frameTime, tl, pending, playing, selection,
                                    feed, gridEvent>>
        BY <1>2 DEF SwitchToSite
    <2> DEFINE frames == IF listed THEN NewestOf(FramesOf(s, kept), Ring) ELSE {}
               first == IF frames # {} /\ loaded THEN LatestOf(frames) ELSE Blank(s)
    <2>2. disk' = kept /\ Evicted
        BY <2>1 DEF Evicted
    <2>3. CASE published
        <3>1. /\ frameTime' = first.t /\ tl' = NewHistory(frames) /\ pending' = NoFrame
              /\ selection' = s /\ base' = 0
            BY <2>1, <2>3 DEF RestartLive, AbortLive
        <3>2. first.t = IF frames # {} /\ loaded THEN LatestOf(frames).t ELSE 0
            BY DEF Blank
        <3>3. frames = IF listed THEN NewestOf(FramesOf(selection', disk'), Ring) ELSE {}
            BY <2>2, <3>1
        <3> HIDE DEF frames, first
        <3>4. tl'.stored = frames /\ tl'.shown = NoFrame /\ tl'.partial = NoFrame
            BY <3>1 DEF NewHistory
        <3>5. SelectedSite
            BY <3>1, <3>2, <3>3, <3>4 DEF SelectedSite
        <3> QED BY <1>2, <2>2, <3>1, <3>4, <3>5 DEF Selected
    <2>4. CASE ~published
        BY <2>1, <2>2, <2>4, OutcomesGive DEF Unselected, feed
    <2> QED BY <2>3, <2>4
<1>3. ASSUME NEW s \in Grids, s # selection, SwitchToGrid(s)
      PROVE  base' \in {base, 0} /\ Evicted /\ (Selected \/ Unselected)
    <2>1. /\ frameTime' = 0 /\ tl' = NewHistory({}) /\ pending' = NoFrame
          /\ selection' = s /\ base' = 0 /\ disk' = disk
        BY <1>3 DEF SwitchToGrid, RestartLive, AbortLive
    <2>2. tl'.stored = {} /\ tl'.shown = NoFrame /\ tl'.partial = NoFrame
        BY <2>1 DEF NewHistory
    <2> QED BY <1>3, <2>1, <2>2 DEF Selected, SelectedEmpty, Evicted
<1>4. ASSUME NEW s \in Statics, s # selection, SwitchToStatic(s)
      PROVE  base' \in {base, 0} /\ Evicted /\ (Selected \/ Unselected)
    <2>1. PICK published \in Outcomes("publish") :
            /\ base' = 0 /\ disk' = disk
            /\ published => mosaic' = StaticFrames(s)
            /\ IF published
               THEN /\ frameTime' = LatestOf(StaticFrames(s)).t
                    /\ tl' = NewHistory(StaticFrames(s))
                    /\ pending' = NoFrame
                    /\ selection' = s
               ELSE UNCHANGED <<screen, frameTime, tl, pending, playing, selection>>
        BY <1>4 DEF SwitchToStatic, AbortLive
    <2>2. CASE published
        <3>1. StaticFrames(s) # {}
            <4>1. [src |-> s, t |-> 1] \in StaticFrames(s)
                BY MaxTimeIsPositive DEF StaticFrames, Times
            <4> QED BY <4>1
        <3>2. /\ tl'.stored = StaticFrames(s) /\ tl'.shown = NoFrame /\ tl'.partial = NoFrame
              /\ pending' = NoFrame /\ selection' = s /\ mosaic' = StaticFrames(s)
              /\ frameTime' = LatestOf(StaticFrames(s)).t
            BY <2>1, <2>2 DEF NewHistory
        <3>3. SelectedStatic
            BY <3>1, <3>2 DEF SelectedStatic
        <3> QED BY <1>4, <2>1, <3>2, <3>3 DEF Selected, Evicted
    <2>3. CASE ~published
        BY <2>1, <2>3, OutcomesGive DEF Unselected, Evicted
    <2> QED BY <2>2, <2>3
<1>5. ASSUME selection # NoSource, ClearSelection
      PROVE  base' \in {base, 0} /\ Evicted /\ (Selected \/ Unselected)
    <2>1. /\ frameTime' = 0 /\ tl' = NewHistory({}) /\ pending' = NoFrame
          /\ selection' = NoSource /\ base' = 0 /\ disk' = disk
        BY <1>5 DEF ClearSelection, AbortLive
    <2>2. tl'.stored = {} /\ tl'.shown = NoFrame /\ tl'.partial = NoFrame
        BY <2>1 DEF NewHistory
    <2> QED BY <1>5, <2>1, <2>2 DEF Selected, SelectedEmpty, Evicted
<1> QED BY <1>1, <1>2, <1>3, <1>4, <1>5 DEF Chosen, SwitchTo

\* The cutoff is a time, maybe before the first.
LEMMA CutoffIsInt == Inv => Cutoff \in Int
BY BoundsAreNat DEF Inv, RestOK, Cutoff

\* Eviction takes nothing that is inside the retention window.
LEMMA EvictedGives ==
    ASSUME Inv, Evicted
    PROVE  disk' \subseteq disk /\ \A f \in disk : f.t >= Cutoff => f \in disk'
<1>1. Cutoff \in Int /\ \A f \in disk : f.t \in Int
    BY CutoffIsInt, TimelineTyped DEF Frame, Times
<1>2. ASSUME NEW s, disk' \in Evictions(s, Cutoff, disk)
      PROVE  disk' \subseteq disk /\ \A f \in disk : ~(f.t < Cutoff) => f \in disk'
    BY <1>2 DEF Evictions, FramesOf
<1>3. CASE disk' = disk
    BY <1>3
<1>4. ASSUME NEW s, disk' \in Evictions(s, Cutoff, disk)
      PROVE  disk' \subseteq disk /\ \A f \in disk : f.t >= Cutoff => f \in disk'
    BY <1>1, <1>2, <1>4
<1> QED BY <1>3, <1>4 DEF Evicted

-----------------------------------------------------------------------------
(* What is on its way *)

\* Storing a sweep adds it at most, and leaves the other stations alone.
LEMMA StoreGives ==
    ASSUME NEW f, NEW S
    PROVE  /\ \A g \in Store(f, S) : g \in S \/ g = f
           /\ FramesOf(f.src, Store(f, S)) = NewestOf(FramesOf(f.src, S) \cup {f}, Ring)
           /\ \A s : s # f.src => FramesOf(s, Store(f, S)) = FramesOf(s, S)
<1> DEFINE kept == NewestOf(FramesOf(f.src, S) \cup {f}, Ring)
<1>1. kept \subseteq FramesOf(f.src, S) \cup {f}
    BY DEF NewestOf
<1>2. \A g \in kept : g.src = f.src /\ (g \in S \/ g = f)
    BY <1>1 DEF FramesOf
<1>3. Store(f, S) = {g \in S : g.src # f.src} \cup kept
    BY DEF Store
<1> HIDE DEF kept
<1>4. \A g \in Store(f, S) : g \in S \/ g = f
    BY <1>2, <1>3
<1>5. FramesOf(f.src, Store(f, S)) = kept
    BY <1>2, <1>3 DEF FramesOf
<1>6. \A s : s # f.src => FramesOf(s, Store(f, S)) = FramesOf(s, S)
    BY <1>2, <1>3 DEF FramesOf
<1> QED BY <1>4, <1>5, <1>6 DEF kept

\* Every waiting sweep is typed, and its frame is of a station.
LEMMA WaitingTyped ==
    ASSUME Inv
    PROVE  /\ \A e \in Waiting : e \in PolarEvent
           /\ \A i \in 1..Len(events) : events[i] \in PolarEvent /\ events[i] \in Waiting
           /\ job # NoJob => job \in Job /\ job.event \in PolarEvent /\ job.event \in Waiting
<1>1. \A i \in 1..Len(events) : events[i] \in PolarEvent
    <2>1. events \in Seq(PolarEvent)
        BY DEF Inv, RestOK
    <2> QED BY <2>1
<1>2. job # NoJob => job \in Job /\ job.event \in PolarEvent
    BY DEF Inv, RestOK, Job
<1> QED BY <1>1, <1>2 DEF Waiting

\* A poller's message joins the end of the channel.
LEMMA SentGives ==
    ASSUME Inv, NEW e \in PolarEvent, PollerSends(e)
    PROVE  /\ events' = Append(events, e) /\ Len(events') = Len(events) + 1
           /\ \A i \in 1..Len(events) : events'[i] = events[i]
           /\ events'[Len(events) + 1] = e
           /\ Waiting' = Waiting \cup {e}
<1>1. events' = Append(events, e) /\ events \in Seq(PolarEvent) /\ job' = job
    BY DEF PollerSends, Inv, RestOK
<1>2. /\ Len(events') = Len(events) + 1
      /\ \A i \in 1..Len(events) : events'[i] = events[i]
      /\ events'[Len(events) + 1] = e
    BY <1>1, AppendProperties
<1>3. Len(events) \in Nat
    BY <1>1, LenProperties
<1>4. {events'[i] : i \in 1..Len(events')} = {events[i] : i \in 1..Len(events)} \cup {e}
    <2>1. 1..Len(events') = 1..Len(events) \cup {Len(events) + 1}
        BY <1>2, <1>3
    <2> QED BY <1>2, <2>1
<1> QED BY <1>1, <1>2, <1>4 DEF Waiting

\* live_events takes the first of the channel, to encode or to drop it.
LEMMA TakenGives ==
    ASSUME Inv, TakeEvent
    PROVE  /\ job = NoJob /\ Len(events) \in Nat \ {0} /\ Len(events') = Len(events) - 1
           /\ \A i \in 1..Len(events') : i + 1 \in 1..Len(events) /\ events'[i] = events[i + 1]
           /\ job' = NoJob \/ (job'.event = events[1] /\ job'.phase = "encoding")
           /\ Waiting' \subseteq Waiting
<1>1. /\ job = NoJob /\ events # <<>> /\ events \in Seq(PolarEvent) /\ events' = Tail(events)
      /\ job' = NoJob \/ job' = [event |-> Head(events), phase |-> "encoding"]
    BY DEF TakeEvent, Inv, RestOK
<1>2. Len(events) \in Nat \ {0} /\ Head(events) = events[1]
    BY <1>1, EmptySeq, LenProperties
<1>3. Len(events') = Len(events) - 1 /\ \A i \in 1..Len(events') : events'[i] = events[i + 1]
    BY <1>1, HeadTailProperties
<1>4. \A i \in 1..Len(events') : i + 1 \in 1..Len(events)
    BY <1>2, <1>3
<1>5. job' = NoJob \/ (job'.event = events[1] /\ job'.phase = "encoding")
    BY <1>1, <1>2
<1>6. Waiting' \subseteq Waiting
    <2>1. 1 \in 1..Len(events)
        BY <1>2
    <2> QED BY <1>3, <1>4, <1>5, <2>1 DEF Waiting
<1> QED BY <1>1, <1>2, <1>3, <1>4, <1>5, <1>6

\* The encoder keeps the sweep it holds or drops it, and may catalogue it.
LEMMA EncodeGives ==
    ASSUME Inv, Encode
    PROVE  /\ job # NoJob /\ job \in Job /\ job.phase = "encoding"
           /\ FrameOf(job.event) \in Frame /\ FrameOf(job.event).src \in Sites
           /\ job' = NoJob \/ (job' # NoJob /\ job'.event = job.event /\ job'.phase = "encoded")
           /\ UNCHANGED <<look, events, heard, now, base>>
           /\ disk' \in {disk, Store(FrameOf(job.event), disk), disk \cup {FrameOf(job.event)}}
           /\ "store" \notin Faults =>
                /\ job' # NoJob
                /\ disk' = IF job.event.kind = "partial" THEN disk
                           ELSE Store(FrameOf(job.event), disk)
<1>1. job # NoJob /\ job \in Job /\ job.phase = "encoding"
    BY DEF Encode, Inv, RestOK, NoJob
<1>2. FrameOf(job.event) \in Frame /\ FrameOf(job.event).src \in Sites
    BY <1>1, SourcesPartition DEF Job, FrameOf, PolarEvent, Frame
<1>3. UNCHANGED <<look, events, heard, now, base>>
    BY DEF Encode, look, shown, feed, world
<1>4. PICK ok \in Outcomes("store") :
        /\ job' = IF ok THEN [job EXCEPT !.phase = "encoded"] ELSE NoJob
        /\ disk' \in IF job.event.kind = "partial" THEN {disk}
                     ELSE IF ok THEN {Store(FrameOf(job.event), disk)}
                     ELSE {disk, disk \cup {FrameOf(job.event)}}
    BY DEF Encode
<1>5. [job EXCEPT !.phase = "encoded"] # NoJob
      /\ [job EXCEPT !.phase = "encoded"].event = job.event
      /\ [job EXCEPT !.phase = "encoded"].phase = "encoded"
    BY <1>1 DEF Job, NoJob
<1>6. "store" \notin Faults => ok
    BY OutcomesGive
<1>7. job' = NoJob \/ (job' # NoJob /\ job'.event = job.event /\ job'.phase = "encoded")
    BY <1>4, <1>5
<1>8. disk' \in {disk, Store(FrameOf(job.event), disk), disk \cup {FrameOf(job.event)}}
    BY <1>4
<1> QED BY <1>1, <1>2, <1>3, <1>4, <1>5, <1>6, <1>7, <1>8

\* What the engine has of a station: catalogued, listed, or being encoded.
Known(s) ==
    {f \in disk : f.src = s}
        \cup (IF selection = s THEN tl.stored ELSE {})
        \cup (IF job # NoJob /\ job.event.src = s THEN {FrameOf(job.event)} ELSE {})

\* A step of anything but a poller or the clock brings nothing new of a station.
NothingNew ==
    /\ UNCHANGED <<heard, now>>
    /\ Waiting' \subseteq Waiting
    /\ \A f \in disk' : f \in disk \/ (job # NoJob /\ f = FrameOf(job.event))
    /\ selection' \in Sites =>
         /\ base' = 0 \/ (selection' = selection /\ base' = base)
         /\ \A f \in tl'.stored : f \in Known(selection')
         /\ \/ frameTime' = 0
            \/ selection' = selection /\ frameTime' = frameTime
            \/ \E f \in Known(selection') : frameTime' = f.t

\* A selection, an arrival and an encoded sweep bring nothing that was not known.
LEMMA NothingNewSteps ==
    ASSUME Inv,
           \/ Quiet
           \/ Chosen
           \/ \E e \in Entries(tl) : MovesTo(e)
           \/ TakeEvent
           \/ Encode
           \/ Deliver
           \/ TakeGridEvent
    PROVE  NothingNew
<1>1. CASE Quiet
    BY <1>1 DEF Quiet, look, NothingNew, Waiting, Known
<1>2. CASE Chosen
    <2>1. /\ UNCHANGED <<events, job, heard, now>> /\ base' \in {base, 0}
          /\ Selected \/ Unselected
          /\ disk' \subseteq disk
        BY <1>2, ChosenGives, EvictedGives
    <2>2. CASE Unselected
        BY <2>1, <2>2 DEF Unselected, NothingNew, Waiting, Known
    <2>3. CASE Selected
        <3>1. ASSUME selection' \in Sites
              PROVE  /\ \A f \in tl'.stored : f \in disk' /\ f.src = selection'
                     /\ frameTime' = 0 \/ \E f \in tl'.stored : frameTime' = f.t
            <4>1. SelectedSite
                BY <2>3, <3>1, SourcesPartition DEF Selected, SelectedEmpty, SelectedStatic
            <4>2. \A f \in tl'.stored : f \in disk' /\ f.src = selection'
                BY <4>1 DEF SelectedSite, NewestOf, FramesOf
            <4>3. tl'.stored \in SUBSET Frame
                BY <2>1, <4>2, TimelineTyped
            <4>4. tl'.stored # {} => LatestOf(tl'.stored) \in tl'.stored
                BY <4>3, LatestIn
            <4> QED BY <4>1, <4>2, <4>4 DEF SelectedSite
        <3> QED BY <2>1, <2>3, <3>1 DEF Selected, NothingNew, Waiting, Known
    <2> QED BY <2>1, <2>2, <2>3
<1>3. ASSUME NEW e \in Entries(tl), MovesTo(e) PROVE NothingNew
    <2>1. tl'.stored = tl.stored
        BY <1>3, MoveGives
    <2> QED BY <1>3, <2>1 DEF MovesTo, NothingNew, Waiting, Known
<1>4. CASE TakeEvent
    <2>1. UNCHANGED <<tl, selection, frameTime, base, disk, heard, now>>
        BY <1>4 DEF TakeEvent, shown, feed, world
    <2> QED BY <1>4, <2>1, TakenGives DEF NothingNew, Known
<1>5. CASE Encode
    <2>1. /\ job # NoJob /\ UNCHANGED <<look, events, heard, now, base>>
          /\ job' = NoJob \/ (job' # NoJob /\ job'.event = job.event)
          /\ disk' \in {disk, Store(FrameOf(job.event), disk), disk \cup {FrameOf(job.event)}}
        BY <1>5, EncodeGives
    <2>2. \A f \in disk' : f \in disk \/ f = FrameOf(job.event)
        BY <2>1, StoreGives
    <2>3. Waiting' \subseteq Waiting
        BY <2>1 DEF Waiting
    <2> QED BY <2>1, <2>2, <2>3 DEF NothingNew, Known, look
<1>6. CASE Deliver
    <2> DEFINE f == FrameOf(job.event)
    <2>1. /\ job # NoJob /\ job' = NoJob /\ f.src = job.event.src
          /\ UNCHANGED <<selection, mosaic, base, events, heard, now>>
        BY <1>6, DeliverGives DEF FrameOf
    <2>2. Waiting' \subseteq Waiting
        BY <2>1 DEF Waiting
    <2>3. CASE UNCHANGED <<look, disk>>
        BY <2>1, <2>2, <2>3 DEF NothingNew, Known, look
    <2>4. CASE f.src = selection /\ ArrivedPartial(f)
        <3>1. tl'.stored = tl.stored /\ UNCHANGED <<frameTime, disk>>
            BY <2>4, TimelineTyped DEF ArrivedPartial, Begin, Histories
        <3> QED BY <2>1, <2>2, <3>1 DEF NothingNew, Known
    <2>5. CASE f.src = selection /\ ArrivedComplete(f)
        <3>1. /\ tl'.stored \subseteq tl.stored \cup {f} /\ frameTime' = f.t
              /\ disk' \subseteq disk
            <4>1. /\ tl'.stored = Since(NewestOf(tl.stored \cup {f}, Ring), Cutoff)
                  /\ frameTime' = f.t /\ disk' \in Evictions(selection, Cutoff, disk)
                BY <1>6, <2>5, DeliverGives, CompleteArrives
            <4> QED BY <4>1, EvictedGives DEF Since, NewestOf, Evicted
        <3> QED BY <2>1, <2>2, <2>5, <3>1 DEF NothingNew, Known
    <2>6. CASE f.src = selection /\ Backfilled(f)
        <3>1. /\ tl'.stored = NewestOf(tl.stored \cup {f}, Ring) /\ disk' = disk
              /\ frameTime' = ObservationClock(f)
            BY <1>6, <2>6, DeliverGives, BackfillArrives
        <3>2. tl'.stored \subseteq tl.stored \cup {f} /\ frameTime' \in {f.t, frameTime}
            BY <3>1 DEF NewestOf, ObservationClock
        <3> QED BY <2>1, <2>2, <2>6, <3>1, <3>2 DEF NothingNew, Known
    <2> HIDE DEF f
    <2> QED BY <1>6, <2>3, <2>4, <2>5, <2>6, DeliverGives DEF f
<1>7. CASE TakeGridEvent
    <2>1. UNCHANGED <<selection, pending, base, events, job, disk, heard, now>>
        BY <1>7, MosaicArrives
    <2>2. UNCHANGED look \/ selection \in Grids
        BY <1>7, MosaicArrives
    <2> QED BY <2>1, <2>2, SourcesPartition DEF NothingNew, Waiting, Known, look
<1> QED BY <1>1, <1>2, <1>3, <1>4, <1>5, <1>6, <1>7

\* What the engine has of a station is of it, and no newer than its feed.
LEMMA KnownIsHeard ==
    ASSUME Inv, HeardIsNewest, NEW s \in Sites, NEW f \in Known(s)
    PROVE  f \in Frame /\ f.src = s /\ f.t \in Int /\ heard[s].t \in Int /\ f.t <= heard[s].t
<1>1. heard[s].t \in Int /\ f \in Frame /\ f.src = s
    <2>1. heard[s].t \in Int
        BY DEF Inv, RestOK
    <2>2. CASE f \in disk /\ f.src = s
        BY <2>1, <2>2, TimelineTyped
    <2>3. CASE selection = s /\ f \in tl.stored
        BY <2>1, <2>3, TimelineTyped DEF OfOneSource
    <2>4. CASE job # NoJob /\ job.event.src = s /\ f = FrameOf(job.event)
        BY <2>1, <2>4, WaitingTyped, SourcesPartition DEF FrameOf, PolarEvent, Frame
    <2> QED BY <2>2, <2>3, <2>4 DEF Known
<1>2. f.t <= heard[s].t
    BY WaitingTyped DEF Known, HeardIsNewest, FrameOf
<1> QED BY <1>1, <1>2 DEF Frame, Times

\* What the engine has of a station is no newer than a live sweep on its way.
LEMMA KnownIsOlder ==
    ASSUME Inv, Ordered, LiveIsNewest, NEW e \in Waiting, IsLive(e), NEW f \in Known(e.src)
    PROVE  f.t <= e.t
<1>1. CASE f \in disk /\ f.src = e.src
    BY <1>1 DEF LiveIsNewest
<1>2. CASE selection = e.src /\ f \in tl.stored
    BY <1>2 DEF LiveIsNewest
<1>3. CASE job # NoJob /\ job.event.src = e.src /\ f = FrameOf(job.event)
    <2>1. f.t = job.event.t /\ job.event.t \in Int
        BY <1>3, WaitingTyped DEF FrameOf, PolarEvent, Times
    <2>2. CASE e = job.event
        BY <2>1, <2>2
    <2>3. CASE e # job.event
        BY <1>3, <2>1, <2>3 DEF Waiting, Ordered
    <2> QED BY <2>2, <2>3
<1> QED BY <1>1, <1>2, <1>3 DEF Known

\* What a poller says it has heard, by message and by join.
LEMMA SendsHeard ==
    ASSUME Inv, HeardIsNewest, NEW e \in PolarEvent, PollerSends(e)
    PROVE  /\ e.src = selection /\ e.src \in Sites /\ e.t \in Int /\ e.t <= now
           /\ UNCHANGED <<look, disk, job, base, now>>
           /\ IsLive(e) => heard[e.src].t <= e.t
           /\ e.t <= heard'[e.src].t
           /\ \A s \in Sites : heard[s].t <= heard'[s].t /\ heard'[s].t <= now
<1>1. /\ e.src = selection /\ e.src \in Sites /\ e.t \in Int /\ e.t <= now /\ Sendable(e)
      /\ UNCHANGED <<look, disk, job, base, now>>
      /\ heard' = IF e.kind = "backfill" THEN heard
                  ELSE [heard EXCEPT ![e.src] = [t |-> e.t, done |-> e.kind = "complete"]]
      /\ e.kind \in {"partial", "complete", "backfill"}
    BY DEF PollerSends, PolarEvent, SweepKinds, Times, look, shown, feed
<1>2. /\ \A s \in Sites : heard[s].t \in Int /\ heard[s].t <= now
      /\ base <= heard[e.src].t /\ base \in Int
      /\ heard \in [Sites -> [t : 0..MaxTime, done : BOOLEAN]]
    BY <1>1 DEF Inv, RestOK, SessionOK, HeardIsNewest
<1>3. CASE e.kind = "backfill"
    <2>1. e.t < base
        BY <1>1, <1>3 DEF Sendable
    <2> QED BY <1>1, <1>2, <1>3, <2>1 DEF IsLive
<1>4. CASE e.kind # "backfill"
    <2>0. e.t > heard[e.src].t \/ e.t = heard[e.src].t \/ e.t >= heard[e.src].t
        <3>1. CASE e.kind = "partial"
            BY <1>1, <3>1 DEF Sendable
        <3>2. CASE e.kind = "complete"
            BY <1>1, <3>2 DEF Sendable
        <3> QED BY <1>1, <1>4, <3>1, <3>2
    <2>1. heard[e.src].t <= e.t
        BY <1>1, <1>2, <2>0
    <2>2. heard'[e.src].t = e.t /\ \A s \in Sites : s # e.src => heard'[s] = heard[s]
        BY <1>1, <1>2, <1>4
    <2> QED BY <1>1, <1>2, <2>1, <2>2 DEF IsLive
<1> QED BY <1>3, <1>4

\* A join hears the station's newest volume, or a new one.
LEMMA JoinsHeard ==
    ASSUME Inv, HeardIsNewest, NEW s \in Sites, PollerJoins(s)
    PROVE  /\ UNCHANGED <<look, disk, events, job, now>> /\ s = selection
           /\ base' = base \/ base' = heard'[s].t
           /\ \A r \in Sites : heard[r].t <= heard'[r].t /\ heard'[r].t <= now
<1>1. UNCHANGED <<look, disk, events, job, now>> /\ s = selection
    BY DEF PollerJoins, look, shown, tasks
<1>2. PICK t \in {heard[s].t, now}, knows \in BOOLEAN :
        /\ heard' = [heard EXCEPT ![s] =
                       [t |-> t, done |-> knows /\ [src |-> s, t |-> t] \in tl.stored]]
        /\ base' = IF base = 0 THEN t ELSE base
    BY DEF PollerJoins
<1>3. /\ \A r \in Sites : heard[r].t \in Int /\ heard[r].t <= now
      /\ heard \in [Sites -> [t : 0..MaxTime, done : BOOLEAN]] /\ now \in Int
    BY DEF Inv, RestOK, HeardIsNewest
<1>4. heard'[s].t = t /\ \A r \in Sites : r # s => heard'[r] = heard[r]
    BY <1>2, <1>3
<1> QED BY <1>1, <1>2, <1>3, <1>4

\* No step leaves the feed's clock behind what is known of a station.
LEMMA HeardStep ==
    ASSUME Inv, HeardIsNewest, [Next]_vars
    PROVE  HeardIsNewest'
<1>0. /\ \A s \in Sites : heard[s].t \in Int
      /\ now \in Int /\ base \in Int /\ frameTime \in Int
      /\ \A f \in tl.stored \cup disk : f.t \in Int
      /\ \A e \in Waiting : e.t \in Int /\ e.src \in Sites
    BY TimelineTyped, WaitingTyped DEF Inv, RestOK, SessionOK, Frame, Times, PolarEvent
<1>1. CASE NothingNew
    <2>1. \A f \in disk' : f.src \in Sites /\ f.t <= heard'[f.src].t
        <3> SUFFICES ASSUME NEW f \in disk' PROVE f.src \in Sites /\ f.t <= heard[f.src].t
            BY <1>1 DEF NothingNew
        <3>1. CASE f \in disk
            BY <3>1 DEF HeardIsNewest
        <3>2. CASE job # NoJob /\ f = FrameOf(job.event)
            BY <3>2, WaitingTyped DEF HeardIsNewest, FrameOf, PolarEvent
        <3> QED BY <1>1, <3>1, <3>2 DEF NothingNew
    <2>2. ASSUME selection' \in Sites
          PROVE  /\ base' <= heard'[selection'].t /\ frameTime' <= heard'[selection'].t
                 /\ \A f \in tl'.stored : f.t <= heard'[selection'].t
        <3>1. heard' = heard /\ 0 <= heard[selection'].t
            BY <1>1, <2>2 DEF NothingNew, Inv, RestOK
        <3>2. \A f \in Known(selection') : f.t <= heard[selection'].t
            BY <2>2, KnownIsHeard
        <3> QED BY <1>1, <2>2, <3>1, <3>2 DEF NothingNew, HeardIsNewest
    <2> QED BY <1>1, <2>1, <2>2 DEF NothingNew, HeardIsNewest
<1>2. ASSUME NEW e \in PolarEvent, PollerSends(e) PROVE HeardIsNewest'
    <2>1. \A s \in Sites : heard'[s].t \in Int
        <3>1. heard' \in [Sites -> [t : 0..MaxTime, done : BOOLEAN]]
            BY NextInv DEF Inv, RestOK
        <3> QED BY <3>1
    <2>2. Waiting' = Waiting \cup {e}
        BY <1>2, SentGives
    <2>3. /\ e.src = selection /\ e.src \in Sites
          /\ UNCHANGED <<look, disk, job, base, now>>
          /\ e.t <= heard'[e.src].t
          /\ \A s \in Sites : heard[s].t <= heard'[s].t /\ heard'[s].t <= now
        BY <1>2, SendsHeard
    <2> QED BY <1>0, <2>1, <2>2, <2>3 DEF HeardIsNewest, look
<1>3. ASSUME NEW s \in Sites, PollerJoins(s) PROVE HeardIsNewest'
    <2>1. \A r \in Sites : heard'[r].t \in Int
        <3>1. heard' \in [Sites -> [t : 0..MaxTime, done : BOOLEAN]]
            BY NextInv DEF Inv, RestOK
        <3> QED BY <3>1
    <2>2. /\ UNCHANGED <<look, disk, events, job, now>> /\ s = selection
          /\ base' = base \/ base' = heard'[s].t
          /\ \A r \in Sites : heard[r].t <= heard'[r].t /\ heard'[r].t <= now
        BY <1>3, JoinsHeard
    <2>3. Waiting' = Waiting
        BY <2>2 DEF Waiting
    <2>4. /\ UNCHANGED <<selection, frameTime, tl.stored, disk, now>>
          /\ base' = base \/ base' = heard'[selection].t
        BY <2>2 DEF look
    <2>5. \A f \in disk : f.src \in Sites /\ f.t <= heard'[f.src].t
        BY <1>0, <2>1, <2>2 DEF HeardIsNewest
    <2>6. \A e \in Waiting : e.t <= heard'[e.src].t
        BY <1>0, <2>1, <2>2 DEF HeardIsNewest
    <2>7. ASSUME selection \in Sites
          PROVE  /\ base' <= heard'[selection].t /\ frameTime <= heard'[selection].t
                 /\ \A f \in tl.stored : f.t <= heard'[selection].t
        BY <1>0, <2>1, <2>2, <2>4, <2>7 DEF HeardIsNewest
    <2> QED BY <2>2, <2>3, <2>4, <2>5, <2>6, <2>7 DEF HeardIsNewest
<1>4. CASE ClockAdvances
    <2>1. /\ UNCHANGED <<selection, tl, frameTime, base, events, job, disk, heard>>
          /\ now' = now + 1
        BY <1>4 DEF ClockAdvances, shown, feed, tasks
    <2> QED BY <1>0, <2>1 DEF HeardIsNewest, Waiting
<1> QED BY <1>1, <1>2, <1>3, <1>4, StepCases, NothingNewSteps

\* No step puts a live sweep behind a newer one of its station.
LEMMA OrderedStep ==
    ASSUME Inv, HeardIsNewest, Ordered, [Next]_vars
    PROVE  Ordered'
<1>1. CASE UNCHANGED events /\ job' \in {job, NoJob}
    BY <1>1 DEF Ordered
<1>2. CASE UNCHANGED events /\ job # NoJob /\ job'.event = job.event
    BY <1>2 DEF Ordered
<1>3. ASSUME NEW e \in PolarEvent, PollerSends(e) PROVE Ordered'
    <2>1. /\ Len(events') = Len(events) + 1 /\ Len(events) \in Nat
          /\ \A i \in 1..Len(events) : events'[i] = events[i]
          /\ events'[Len(events) + 1] = e
        BY <1>3, SentGives, LenProperties DEF Inv, RestOK
    <2>2. job' = job /\ (IsLive(e) => heard[e.src].t <= e.t) /\ e.src \in Sites /\ e.t \in Int
        BY <1>3, SendsHeard
    <2>3. \A d \in Waiting : d.src = e.src => (IsLive(e) => d.t <= e.t)
        <3>1. \A d \in Waiting : d.t \in Int /\ d.t <= heard[d.src].t
            BY WaitingTyped DEF HeardIsNewest, PolarEvent, Times
        <3>2. heard[e.src].t \in Int
            BY <2>2 DEF Inv, RestOK
        <3> QED BY <2>2, <3>1, <3>2
    <2>4. ASSUME NEW k \in 1..Len(events'), IsLive(events'[k])
          PROVE  /\ \A i \in 1..k : events'[i].src = events'[k].src => events'[i].t <= events'[k].t
                 /\ (job' # NoJob /\ job'.event.src = events'[k].src)
                      => job'.event.t <= events'[k].t
        <3>1. CASE k \in 1..Len(events)
            <4>1. events'[k] = events[k] /\ \A i \in 1..k : events'[i] = events[i]
                BY <2>1, <3>1
            <4> QED BY <2>2, <2>4, <3>1, <4>1 DEF Ordered
        <3>2. CASE k = Len(events) + 1
            <4>1. events'[k] = e
                BY <2>1, <3>2
            <4>2. \A i \in 1..k : i = k \/ (events'[i] = events[i] /\ events[i] \in Waiting)
                BY <2>1, <3>2, WaitingTyped
            <4> QED BY <2>2, <2>3, <2>4, <4>1, <4>2, WaitingTyped
        <3> QED BY <2>1, <3>1, <3>2
    <2> QED BY <2>4 DEF Ordered
<1>4. CASE TakeEvent
    <2>1. /\ Len(events) \in Nat \ {0} /\ Len(events') = Len(events) - 1
          /\ \A i \in 1..Len(events') : i + 1 \in 1..Len(events) /\ events'[i] = events[i + 1]
          /\ job' = NoJob \/ job'.event = events[1]
        BY <1>4, TakenGives
    <2>2. ASSUME NEW k \in 1..Len(events'), IsLive(events'[k])
          PROVE  /\ \A i \in 1..k : events'[i].src = events'[k].src => events'[i].t <= events'[k].t
                 /\ (job' # NoJob /\ job'.event.src = events'[k].src)
                      => job'.event.t <= events'[k].t
        <3>1. k + 1 \in 1..Len(events) /\ events'[k] = events[k + 1] /\ IsLive(events[k + 1])
            BY <2>1, <2>2
        <3>2. \A i \in 1..(k + 1) : events[i].src = events[k + 1].src
                                      => events[i].t <= events[k + 1].t
            BY <3>1 DEF Ordered
        <3>3. \A i \in 1..k : events'[i] = events[i + 1] /\ i + 1 \in 1..(k + 1)
            BY <2>1, <2>2
        <3>4. 1 \in 1..(k + 1)
            BY <2>1, <2>2
        <3> QED BY <2>1, <3>1, <3>2, <3>3, <3>4
    <2> QED BY <2>2 DEF Ordered
<1>5. ASSUME Quiet \/ Chosen \/ (\E e \in Entries(tl) : MovesTo(e))
             \/ (\E s \in Sites : PollerJoins(s)) \/ Deliver \/ TakeGridEvent \/ ClockAdvances
      PROVE  UNCHANGED events /\ job' \in {job, NoJob}
    BY <1>5, JoinsHeard, DeliverGives, MosaicArrives
       DEF Quiet, Chosen, MovesTo, ClockAdvances, tasks
<1>6. ASSUME Encode
      PROVE  \/ UNCHANGED events /\ job' \in {job, NoJob}
             \/ UNCHANGED events /\ job # NoJob /\ job'.event = job.event
    BY <1>6, EncodeGives
<1> QED BY <1>1, <1>2, <1>3, <1>4, <1>5, <1>6, StepCases

\* No step brings anything of a station that is newer than a live sweep of it
\* on its way.
LEMMA LiveStep ==
    ASSUME Inv, HeardIsNewest, Ordered, LiveIsNewest, [Next]_vars
    PROVE  LiveIsNewest'
<1>1. CASE NothingNew
    <2> SUFFICES ASSUME NEW e \in Waiting', IsLive(e)
                 PROVE  /\ \A f \in disk' : f.src = e.src => f.t <= e.t
                        /\ selection' = e.src =>
                             frameTime' <= e.t /\ \A f \in tl'.stored : f.t <= e.t
        BY DEF LiveIsNewest, IsLive
    <2>1. e \in Waiting /\ e \in PolarEvent /\ e.src \in Sites /\ 0 <= e.t
        BY <1>1, WaitingTyped DEF NothingNew, PolarEvent, Times
    <2>2. \A f \in Known(e.src) : f.t <= e.t
        BY <2>1, KnownIsOlder
    <2>3. \A f \in disk' : f.src = e.src => f \in Known(e.src)
        BY <1>1 DEF NothingNew, Known, FrameOf
    <2>4. ASSUME selection' = e.src PROVE frameTime' <= e.t
        <3>1. \/ frameTime' = 0
              \/ selection = e.src /\ frameTime' = frameTime
              \/ \E f \in Known(e.src) : frameTime' = f.t
            BY <1>1, <2>1, <2>4 DEF NothingNew
        <3> QED BY <2>1, <2>2, <3>1 DEF LiveIsNewest
    <2>5. selection' = e.src => \A f \in tl'.stored : f \in Known(e.src)
        BY <1>1, <2>1 DEF NothingNew
    <2> QED BY <2>2, <2>3, <2>4, <2>5
<1>2. ASSUME NEW d \in PolarEvent, PollerSends(d) PROVE LiveIsNewest'
    <2>1. Waiting' = Waiting \cup {d}
        BY <1>2, SentGives
    <2>2. /\ d.src = selection /\ d.src \in Sites /\ d.t \in Int
          /\ UNCHANGED <<selection, tl.stored, frameTime, disk>>
          /\ IsLive(d) => heard[d.src].t <= d.t
        BY <1>2, SendsHeard DEF look
    <2>3. ASSUME IsLive(d)
          PROVE  /\ \A f \in disk : f.src = d.src => f.t <= d.t
                 /\ frameTime <= d.t /\ \A f \in tl.stored : f.t <= d.t
        <3>1. heard[d.src].t \in Int /\ heard[d.src].t <= d.t
            BY <2>2, <2>3 DEF Inv, RestOK
        <3>2. frameTime \in Int /\ \A f \in disk \cup tl.stored : f.t \in Int
            BY TimelineTyped DEF Frame, Times
        <3>3. /\ frameTime <= heard[d.src].t /\ \A f \in tl.stored : f.t <= heard[d.src].t
              /\ \A f \in disk : f.src = d.src => f.t <= heard[d.src].t
            BY <2>2 DEF HeardIsNewest
        <3> QED BY <2>2, <3>1, <3>2, <3>3
    <2> QED BY <2>1, <2>2, <2>3 DEF LiveIsNewest
<1>3. ASSUME NEW s \in Sites, PollerJoins(s) PROVE LiveIsNewest'
    BY <1>3, JoinsHeard DEF LiveIsNewest, Waiting, look
<1>4. CASE ClockAdvances
    <2>1. UNCHANGED <<selection, tl, frameTime, events, job, disk>>
        BY <1>4 DEF ClockAdvances, shown, tasks
    <2> QED BY <2>1 DEF LiveIsNewest, Waiting
<1> QED BY <1>1, <1>2, <1>3, <1>4, StepCases, NothingNewSteps

\* A frame that leaves the ring leaves at least Ring newer ones behind.
LEMMA DroppedIsOld ==
    ASSUME NEW s, NEW S, OfOneSource(S, s), NEW f \in S, f \notin NewestOf(S, Ring)
    PROVE  Cardinality({g \in NewestOf(S, Ring) : g.t > f.t}) >= Ring
<1>0. IsFiniteSet(S) /\ f.t \in Int
    <2>1. \A g \in Frame : g.t \in Int
        BY DEF Frame, Times
    <2> QED BY <2>1, SourceFinite DEF OfOneSource
<1>1. ~(Cardinality({g \in S : g.t > f.t}) < Ring)
    BY DEF NewestOf
<1>2. Cardinality({g \in S : g.t > f.t}) \in Nat
    BY <1>0, FewerNewer
<1>3. Cardinality({g \in S : g.t > f.t}) >= Ring
    BY <1>1, <1>2, BoundsAreNat
<1> QED BY <1>0, <1>3, NewestKeepsNewer, BoundsAreNat

\* What is left of a timeline with a frame more is of the same source.
LEMMA WithOneMore ==
    ASSUME Inv, NEW f \in Frame, f.src = selection
    PROVE  OfOneSource(tl.stored \cup {f}, selection)
BY TimelineTyped DEF OfOneSource

\* A pin loses its frame only to newer ones, or moves on.
LEMMA DanglingStep ==
    ASSUME Inv, DanglingIsOld, [Next]_vars
    PROVE  DanglingIsOld'
<1>1. CASE UNCHANGED <<selection, tl.stored, tl.shown>>
    BY <1>1 DEF DanglingIsOld
<1>2. CASE tl'.shown \in tl'.stored \cup {NoFrame}
    BY <1>2 DEF DanglingIsOld
<1>3. ASSUME Chosen
      PROVE  tl'.shown = NoFrame \/ UNCHANGED <<selection, tl.stored, tl.shown>>
    BY <1>3, ChosenGives DEF Selected, Unselected
<1>4. ASSUME NEW e \in Entries(tl), MovesTo(e) PROVE tl'.shown \in tl'.stored \cup {NoFrame}
    <2>1. /\ tl'.stored = tl.stored
          /\ tl'.shown = IF IsLast(tl, e) THEN NoFrame ELSE e.frame
          /\ e.painting => tl'.shown = NoFrame
          /\ ~e.painting => e.frame \in tl.stored
        BY <1>4, MoveGives
    <2>2. e.painting \in BOOLEAN
        BY TimelineTyped, EntryIn
    <2> QED BY <2>1, <2>2
<1>5. CASE Deliver
    <2> DEFINE f == FrameOf(job.event)
    <2>1. /\ selection' = selection /\ f \in Frame /\ f.src \in Sites
          /\ \/ UNCHANGED look
             \/ f.src = selection /\ ArrivedPartial(f)
             \/ f.src = selection /\ ArrivedComplete(f)
             \/ f.src = selection /\ Backfilled(f)
        BY <1>5, DeliverGives
    <2> HIDE DEF f
    <2>2. CASE UNCHANGED look
        BY <1>1, <2>2 DEF look
    <2>3. CASE ArrivedPartial(f)
        BY <1>1, <2>1, <2>3, TimelineTyped DEF ArrivedPartial, Begin, Histories
    <2>4. CASE f.src = selection /\ ArrivedComplete(f)
        BY <1>2, <2>1, <2>4, CompleteArrives
    <2>5. CASE f.src = selection /\ Backfilled(f)
        <3>1. /\ tl'.stored = NewestOf(tl.stored \cup {f}, Ring) /\ tl'.stored # {}
              /\ PinAfter(mosaic, disk)
            BY <2>1, <2>5, BackfillArrives
        <3>2. OfOneSource(tl.stored \cup {f}, selection)
            BY <2>1, <2>5, WithOneMore
        <3>3. CASE tl'.shown = tl.shown /\ tl.shown # NoFrame /\ tl.shown \notin tl'.stored
            <4>1. CASE tl.shown \in tl.stored \cup {f}
                BY <2>1, <2>5, <3>1, <3>2, <3>3, <4>1, DroppedIsOld DEF DanglingIsOld
            <4>2. CASE tl.shown \notin tl.stored \cup {f}
                <5>1. Cardinality({g \in tl.stored : g.t > tl.shown.t}) >= Ring
                    BY <3>3, <4>2 DEF DanglingIsOld
                <5>2. IsFiniteSet(tl.stored \cup {f}) /\ tl.stored \in SUBSET (tl.stored \cup {f})
                    BY <3>2, SourceFinite
                <5>3. /\ Cardinality({g \in tl.stored : g.t > tl.shown.t}) \in Nat
                      /\ Cardinality({g \in tl.stored \cup {f} : g.t > tl.shown.t}) \in Nat
                      /\ Cardinality({g \in tl.stored : g.t > tl.shown.t})
                           <= Cardinality({g \in tl.stored \cup {f} : g.t > tl.shown.t})
                    BY <5>2, FewerNewer
                <5>4. Cardinality({g \in tl.stored \cup {f} : g.t > tl.shown.t}) >= Ring
                    BY <5>1, <5>3, BoundsAreNat
                <5>5. tl.shown.t \in Int
                    BY <3>3, TimelineTyped DEF Histories, Frame, Times
                <5>6. Cardinality({g \in tl'.stored : g.t > tl.shown.t}) >= Ring
                    BY <3>1, <3>2, <5>4, <5>5, NewestKeepsNewer, BoundsAreNat
                <5> QED BY <2>1, <2>5, <3>3, <5>6 DEF DanglingIsOld
            <4> QED BY <4>1, <4>2
        <3>4. CASE tl'.shown # tl.shown \/ tl.shown = NoFrame
            <4>1. tl'.stored \in SUBSET Frame
                BY <3>1, <3>2 DEF NewestOf, OfOneSource
            <4> QED BY <1>2, <3>1, <3>4, <4>1, EarliestIn DEF PinAfter
        <3> QED BY <1>2, <3>3, <3>4
    <2> QED BY <2>1, <2>2, <2>3, <2>4, <2>5
<1>6. ASSUME TakeGridEvent
      PROVE  \/ tl'.shown \in tl'.stored \cup {NoFrame}
             \/ UNCHANGED <<selection, tl.stored, tl.shown>>
    BY <1>6, MosaicArrives DEF look
<1>7. ASSUME Quiet \/ (\E e \in PolarEvent : PollerSends(e)) \/ (\E s \in Sites : PollerJoins(s))
             \/ TakeEvent \/ Encode \/ ClockAdvances
      PROVE  UNCHANGED <<selection, tl.stored, tl.shown>>
    BY <1>7, EncodeGives DEF Quiet, look, PollerSends, PollerJoins, TakeEvent, ClockAdvances, shown
<1> QED BY <1>1, <1>2, <1>3, <1>4, <1>5, <1>6, <1>7, StepCases

\* Nothing waits and nothing is pinned at the start.
LEMMA ArrivalsInit == Init => ArrivalsInv
<1> SUFFICES ASSUME Init PROVE ArrivalsInv
    OBVIOUS
<1>1. Waiting = {}
    BY DEF Init, Waiting
<1>2. HeardIsNewest
    <2>1. selection = NoSource /\ NoSource \notin Sites
        BY SourcesPartition DEF Init
    <2>2. \A s \in Sites : heard[s].t = 1
        BY DEF Init
    <2>3. now = 1 /\ \A f \in disk : f.src \in Sites /\ f.t = 1
        BY DEF Init
    <2> QED BY <1>1, <2>1, <2>2, <2>3 DEF HeardIsNewest
<1>3. Ordered
    BY DEF Init, Ordered
<1>4. LiveIsNewest /\ DanglingIsOld
    BY <1>1 DEF Init, LiveIsNewest, DanglingIsOld, NewHistory
<1> QED BY <1>2, <1>3, <1>4 DEF ArrivalsInv

\* Every step keeps what is on its way in order.
LEMMA ArrivalsStep == Inv /\ ArrivalsInv /\ [Next]_vars => ArrivalsInv'
BY HeardStep, OrderedStep, LiveStep, DanglingStep DEF ArrivalsInv

\* What is on its way is in order, and a lost pin is old, whatever fails.
THEOREM ArrivalsInOrder == Spec => [](Inv /\ ArrivalsInv)
<1>1. Init => Inv /\ ArrivalsInv
    BY InitInv, ArrivalsInit
<1>2. Inv /\ ArrivalsInv /\ [Next]_vars => (Inv /\ ArrivalsInv)'
    BY NextInv, ArrivalsStep
<1> QED BY <1>1, <1>2, PTL DEF Spec

-----------------------------------------------------------------------------
(* The age and the pinned screen *)

\* A newer scan time moves the observation clock, an older one leaves it.
LEMMA ClockGives ==
    ASSUME Inv, NEW f \in Frame
    PROVE  /\ ObservationClock(f) \in Int /\ f.t \in Int /\ frameTime \in Int
           /\ ObservationClock(f) >= f.t /\ ObservationClock(f) >= frameTime
           /\ ObservationClock(f) \in {f.t, frameTime}
BY TimelineTyped DEF ObservationClock, Frame, Times

\* The observation clock of a selection never moves backward, whatever pollers
\* replay or backfill and whatever fails.
THEOREM AgeNeverRewindsHolds == Spec => AgeNeverRewinds
<1>1. ASSUME Inv, ArrivalsInv, [Next]_vars
      PROVE  selection' = selection => frameTime' >= frameTime
    <2>0. frameTime \in Int
        BY <1>1, TimelineTyped
    <2>1. CASE UNCHANGED frameTime
        BY <2>0, <2>1
    <2>2. ASSUME Chosen PROVE selection' # selection \/ UNCHANGED frameTime
        BY <1>1, <2>2, ChosenGives DEF Selected, Unselected
    <2>3. ASSUME NEW e \in Entries(tl), MovesTo(e) PROVE UNCHANGED frameTime
        BY <2>3 DEF MovesTo
    <2>4. CASE Deliver
        <3> DEFINE f == FrameOf(job.event)
        <3>1. /\ f \in Frame /\ job # NoJob
              /\ \/ UNCHANGED look
                 \/ f.src = selection /\ job.event.kind = "partial" /\ ArrivedPartial(f)
                 \/ f.src = selection /\ job.event.kind = "complete" /\ ArrivedComplete(f)
                 \/ f.src = selection /\ job.event.kind = "backfill" /\ Backfilled(f)
            BY <1>1, <2>4, DeliverGives
        <3>2. CASE UNCHANGED look
            BY <2>0, <3>2 DEF look
        <3>3. CASE ArrivedPartial(f)
            BY <2>0, <3>3 DEF ArrivedPartial
        <3>4. CASE f.src = selection /\ job.event.kind = "complete" /\ ArrivedComplete(f)
            <4>1. frameTime' = f.t /\ f.t = job.event.t /\ f.src = job.event.src
                BY <1>1, <3>1, <3>4, CompleteArrives DEF FrameOf
            <4>2. job.event \in Waiting /\ IsLive(job.event)
                BY <1>1, <3>1, <3>4, WaitingTyped DEF IsLive
            <4>3. frameTime <= job.event.t
                BY <1>1, <3>4, <4>1, <4>2 DEF ArrivalsInv, LiveIsNewest
            <4>4. f.t \in Int
                BY <3>1 DEF Frame, Times
            <4> QED BY <2>0, <4>1, <4>3, <4>4
        <3>5. CASE f.src = selection /\ Backfilled(f)
            BY <1>1, <3>1, <3>5, BackfillArrives, ClockGives
        <3> HIDE DEF f
        <3> QED BY <3>1, <3>2, <3>3, <3>4, <3>5
    <2>5. CASE TakeGridEvent
        <3>1. UNCHANGED look \/ \E f \in Frame : frameTime' = ObservationClock(f)
            BY <1>1, <2>5, MosaicArrives
        <3> QED BY <1>1, <2>0, <3>1, ClockGives DEF look
    <2>6. ASSUME Quiet \/ (\E e \in PolarEvent : PollerSends(e))
                 \/ (\E s \in Sites : PollerJoins(s)) \/ TakeEvent \/ Encode \/ ClockAdvances
          PROVE  UNCHANGED frameTime
        BY <1>1, <2>6, EncodeGives
           DEF Quiet, look, PollerSends, PollerJoins, TakeEvent, ClockAdvances
    <2> QED BY <1>1, <2>1, <2>2, <2>3, <2>4, <2>5, <2>6, StepCases
<1>2. Inv /\ ArrivalsInv /\ [Next]_vars => [selection' = selection => frameTime' >= frameTime]_vars
    BY <1>1
<1> QED BY <1>2, ArrivalsInOrder, PTL DEF Spec, AgeNeverRewinds

\* A pin that stays where the user put it holds the screen, whatever arrives,
\* expires, plays or fails.
THEOREM PinHoldsScreenHolds == Spec => PinHoldsScreen
<1>1. ASSUME Inv, [Next]_vars, tl.shown # NoFrame, tl'.shown = tl.shown, selection' = selection
      PROVE  screen' = screen
    <2>1. ASSUME Chosen PROVE screen' = screen
        BY <1>1, <2>1, ChosenGives DEF Selected, Unselected
    <2>2. ASSUME NEW e \in Entries(tl), MovesTo(e) PROVE screen' = screen
        BY <1>1, <2>2, MoveGives DEF Missed
    <2>3. CASE Deliver
        <3> DEFINE f == FrameOf(job.event)
        <3>1. /\ f \in Frame
              /\ \/ UNCHANGED look
                 \/ f.src = selection /\ ArrivedPartial(f)
                 \/ f.src = selection /\ ArrivedComplete(f)
                 \/ f.src = selection /\ Backfilled(f)
            BY <1>1, <2>3, DeliverGives
        <3> HIDE DEF f
        <3>2. CASE UNCHANGED look
            BY <3>2 DEF look
        <3>3. CASE ArrivedPartial(f)
            BY <1>1, <3>3 DEF ArrivedPartial, Following
        <3>4. CASE f.src = selection /\ ArrivedComplete(f)
            BY <1>1, <3>1, <3>4, CompleteArrives DEF PinAfter
        <3>5. CASE f.src = selection /\ Backfilled(f)
            BY <1>1, <3>1, <3>5, BackfillArrives DEF PinAfter
        <3> QED BY <3>1, <3>2, <3>3, <3>4, <3>5
    <2>4. CASE TakeGridEvent
        BY <1>1, <2>4, MosaicArrives DEF look, PinAfter
    <2>5. ASSUME Quiet \/ (\E e \in PolarEvent : PollerSends(e))
                 \/ (\E s \in Sites : PollerJoins(s)) \/ TakeEvent \/ Encode \/ ClockAdvances
          PROVE  screen' = screen
        BY <1>1, <2>5, EncodeGives
           DEF Quiet, look, PollerSends, PollerJoins, TakeEvent, ClockAdvances, shown
    <2> QED BY <1>1, <2>1, <2>2, <2>3, <2>4, <2>5, StepCases
<1>2. Inv /\ [Next]_vars =>
        [(/\ tl.shown # NoFrame /\ tl'.shown = tl.shown
          /\ selection' = selection) => screen' = screen]_vars
    BY <1>1
<1> QED BY <1>2, ArrivalsInOrder, PTL DEF Spec, PinHoldsScreen

\* A live sweep that is delivered is at least as new as all that is listed.
LEMMA DeliveredIsNewest ==
    ASSUME Inv, ArrivalsInv, job # NoJob, IsLive(job.event), job.event.src = selection
    PROVE  /\ \A g \in tl.stored : g.t <= FrameOf(job.event).t
           /\ frameTime <= FrameOf(job.event).t
BY WaitingTyped DEF ArrivalsInv, LiveIsNewest, FrameOf

\* The age is counted from the newest listed frame or a newer one.
LEMMA AgeStep ==
    ASSUME "load" \notin Faults, Inv, ArrivalsInv, AgeCoversListed, [Next]_vars
    PROVE  AgeCoversListed'
<1>0. frameTime \in Int /\ \A g \in tl.stored : g.t \in Int
    BY TimelineTyped DEF Frame, Times
<1>1. CASE UNCHANGED <<tl.stored, frameTime>>
    BY <1>1 DEF AgeCoversListed
<1>2. CASE Chosen
    <2>1. CASE Unselected
        BY <1>1, <2>1 DEF Unselected
    <2>2. CASE Selected
        <3>1. tl'.stored \in SUBSET Frame
            BY NextInv, NoFrameNotIn DEF Inv, SessionOK, Sound, Histories
        <3>2. tl'.stored # {} => \A g \in tl'.stored : g.t <= LatestOf(tl'.stored).t
            BY <3>1, LatestIn
        <3>3. tl'.stored = {} \/ frameTime' = LatestOf(tl'.stored).t
            <4>1. CASE SelectedSite
                BY <4>1, OutcomesGive DEF SelectedSite
            <4>2. CASE SelectedEmpty \/ SelectedStatic
                BY <4>2 DEF SelectedEmpty, SelectedStatic
            <4> QED BY <2>2, <4>1, <4>2 DEF Selected
        <3> QED BY <3>2, <3>3 DEF AgeCoversListed
    <2> QED BY <1>2, <2>1, <2>2, ChosenGives
<1>3. ASSUME NEW e \in Entries(tl), MovesTo(e) PROVE UNCHANGED <<tl.stored, frameTime>>
    BY <1>3, MoveGives DEF MovesTo
<1>4. CASE Deliver
    <2> DEFINE f == FrameOf(job.event)
    <2>1. /\ f \in Frame /\ job # NoJob /\ f.t \in Int /\ f.src = job.event.src
          /\ \/ UNCHANGED look
             \/ f.src = selection /\ job.event.kind = "partial" /\ ArrivedPartial(f)
             \/ f.src = selection /\ job.event.kind = "complete" /\ ArrivedComplete(f)
             \/ f.src = selection /\ job.event.kind = "backfill" /\ Backfilled(f)
        <3>1. \A g \in Frame : g.t \in Int
            BY DEF Frame, Times
        <3> QED BY <1>4, <3>1, DeliverGives DEF FrameOf
    <2>2. CASE UNCHANGED look
        BY <1>1, <2>2 DEF look
    <2>3. CASE ArrivedPartial(f)
        BY <1>1, <2>3, TimelineTyped DEF ArrivedPartial, Begin, Histories
    <2>4. CASE f.src = selection /\ job.event.kind = "complete" /\ ArrivedComplete(f)
        <3>1. frameTime' = f.t /\ tl'.stored = Since(NewestOf(tl.stored \cup {f}, Ring), Cutoff)
            BY <2>1, <2>4, CompleteArrives
        <3>2. \A g \in tl.stored : g.t <= f.t
            BY <2>1, <2>4, DeliveredIsNewest DEF IsLive
        <3>3. tl'.stored \subseteq tl.stored \cup {f}
            BY <3>1 DEF Since, NewestOf
        <3> QED BY <2>1, <3>1, <3>2, <3>3 DEF AgeCoversListed
    <2>5. CASE f.src = selection /\ Backfilled(f)
        <3>1. /\ frameTime' = ObservationClock(f)
              /\ tl'.stored = NewestOf(tl.stored \cup {f}, Ring)
            BY <2>1, <2>5, BackfillArrives
        <3>2. tl'.stored \subseteq tl.stored \cup {f}
            BY <3>1 DEF NewestOf
        <3>3. /\ frameTime' \in Int
              /\ f.t <= frameTime' /\ frameTime <= frameTime'
            BY <2>1, <3>1, ClockGives
        <3>4. \A g \in tl.stored : g.t <= frameTime
            BY DEF AgeCoversListed
        <3> QED BY <1>0, <3>2, <3>3, <3>4 DEF AgeCoversListed
    <2> HIDE DEF f
    <2> QED BY <2>1, <2>2, <2>3, <2>4, <2>5
<1>5. CASE TakeGridEvent
    <2>1. CASE UNCHANGED look
        BY <1>1, <2>1 DEF look
    <2>2. ASSUME NEW f \in Frame,
                 tl'.stored = NewestOf(Within(NewestOf(tl.stored \cup {f}, Ring),
                                              ObservationClock(f), GridWindow), GridMax),
                 frameTime' = ObservationClock(f)
          PROVE  AgeCoversListed'
        <3>1. \A g \in tl'.stored : g.t <= ObservationClock(f)
            BY <2>2 DEF NewestOf, Within, InWindow
        <3> QED BY <2>2, <3>1 DEF AgeCoversListed
    <2>3. \/ UNCHANGED look
          \/ \E f \in Frame :
               /\ tl'.stored = NewestOf(Within(NewestOf(tl.stored \cup {f}, Ring),
                                              ObservationClock(f), GridWindow), GridMax)
               /\ frameTime' = ObservationClock(f)
        BY <1>5, MosaicArrives
    <2> QED BY <2>1, <2>2, <2>3
<1>6. ASSUME Quiet \/ (\E e \in PolarEvent : PollerSends(e)) \/ (\E s \in Sites : PollerJoins(s))
             \/ TakeEvent \/ Encode \/ ClockAdvances
      PROVE  UNCHANGED <<tl.stored, frameTime>>
    BY <1>6, EncodeGives
       DEF Quiet, look, PollerSends, PollerJoins, TakeEvent, ClockAdvances, shown
<1> QED BY <1>1, <1>2, <1>3, <1>4, <1>5, <1>6, StepCases

\* No listed frame is newer than the one the age is counted from, as long as
\* the frames a selection shows can be read back.
THEOREM AgeCoversListedHolds == ASSUME "load" \notin Faults PROVE Spec => []AgeCoversListed
<1>1. Init => AgeCoversListed
    BY DEF Init, AgeCoversListed, NewHistory
<1>2. Inv /\ ArrivalsInv /\ AgeCoversListed /\ [Next]_vars => AgeCoversListed'
    BY AgeStep
<1> QED BY <1>1, <1>2, ArrivalsInOrder, PTL DEF Spec

-----------------------------------------------------------------------------
(* Mosaics: the newest stays, textures stay, the pin and the screen agree. *)

\* The newest frame of the observation clock survives the ring, the window and
\* the limit, and is what the timeline then ends with.
LEMMA NewestIsAccepted ==
    ASSUME NEW s, NEW S, OfOneSource(S, s), NEW newest \in Int,
           NEW m \in S, m.t = newest, \A g \in S : g.t <= newest
    PROVE  LET T == NewestOf(Within(NewestOf(S, Ring), newest, GridWindow), GridMax) IN
           m \in T /\ LatestOf(T) = m
<1> DEFINE ringed == NewestOf(S, Ring)
           inside == Within(ringed, newest, GridWindow)
           T == NewestOf(inside, GridMax)
<1>0. S \subseteq Frame /\ \A g \in Frame : g.t \in Int
    BY DEF OfOneSource, Frame, Times
<1>1. ASSUME NEW U, U \subseteq S, m \in U, NEW n \in Nat \ {0} PROVE m \in NewestOf(U, n)
    <2>1. {g \in U : g.t > m.t} = {}
        BY <1>0, <1>1
    <2>2. Cardinality({g \in U : g.t > m.t}) = 0
        BY <2>1, FS_EmptySet
    <2> QED BY <1>1, <2>2 DEF NewestOf
<1>2. m \in ringed /\ ringed \subseteq S
    BY <1>1, BoundsAreNat DEF NewestOf
<1>3. m \in inside /\ inside \subseteq S
    <2>1. InWindow(m.t, newest, GridWindow)
        BY BoundsAreNat DEF InWindow
    <2> QED BY <1>2, <2>1 DEF Within
<1>4. m \in T /\ T \subseteq S
    BY <1>1, <1>3, BoundsAreNat DEF NewestOf
<1> HIDE DEF T
<1>5. LatestOf(T) \in T /\ m.t <= LatestOf(T).t
    BY <1>0, <1>4, LatestIn
<1>6. LatestOf(T).t = m.t
    BY <1>0, <1>4, <1>5
<1>7. LatestOf(T) = m
    BY <1>4, <1>5, <1>6, SameTime
<1> QED BY <1>4, <1>7 DEF T

MosaicInv == ListedHasTexture /\ MosaicPin /\ GridAge /\ FollowingShowsNewest

\* A mosaic that arrives keeps the pin, the age and the screen with the timeline.
LEMMA MosaicArrivalKeeps ==
    ASSUME "publish" \notin Faults, Inv, MosaicInv, TakeGridEvent
    PROVE  MosaicInv'
<1> USE DEF MosaicInv
<1>1. CASE UNCHANGED look
    BY <1>1 DEF look, ListedHasTexture, MosaicPin, GridAge, FollowingShowsNewest, Following
<1>2. ASSUME NEW f \in Frame,
             f.src = selection, selection \in Grids, selection' = selection,
             tl'.stored = NewestOf(Within(NewestOf(tl.stored \cup {f}, Ring),
                                          ObservationClock(f), GridWindow), GridMax),
             tl'.shown # NoFrame => tl'.shown \in tl'.stored,
             tl.partial = NoFrame,
             frameTime' = ObservationClock(f),
             mosaic' = (mosaic \cup {f}) \cap tl'.stored,
             tl.shown = NoFrame => screen' = IF f.t = ObservationClock(f) THEN f ELSE screen,
             PinAfter(mosaic', disk)
      PROVE  MosaicInv'
    <2> DEFINE all == tl.stored \cup {f}
               newest == ObservationClock(f)
    <2>0. OfOneSource(all, selection) /\ NoFrame \notin all /\ all \in SUBSET Frame
        BY <1>2, WithOneMore, NoFrameNotIn DEF OfOneSource
    <2>1. tl'.stored \subseteq all
        BY <1>2 DEF NewestOf, Within
    <2>2. ListedHasTexture'
        <3>1. tl.stored \subseteq mosaic
            BY <1>2 DEF ListedHasTexture
        <3>2. tl'.stored \subseteq mosaic'
            BY <1>2, <2>1, <3>1
        <3> QED BY <1>2, <3>2 DEF ListedHasTexture
    <2>3. MosaicPin'
        <3> SUFFICES ASSUME tl'.shown \in tl'.stored PROVE screen' = tl'.shown
            BY DEF MosaicPin
        <3>1. tl'.shown # NoFrame /\ tl.shown # NoFrame /\ tl'.stored # {}
            BY <1>2, <2>0, <2>1 DEF PinAfter
        <3>2. CASE tl'.shown = tl.shown
            <4>1. tl.shown \in tl.stored
                BY <1>2, <3>1, TimelineTyped DEF Sound, Pinned
            <4>2. screen = tl.shown
                BY <1>2, <4>1 DEF MosaicPin
            <4> QED BY <1>2, <3>1, <3>2, <4>2 DEF PinAfter
        <3>3. CASE tl'.shown # tl.shown
            <4>1. tl'.shown = EarliestOf(tl'.stored)
                BY <1>2, <3>1, <3>3 DEF PinAfter
            <4>2. EarliestOf(tl'.stored) \in mosaic'
                BY <1>2, <2>2, <4>1 DEF ListedHasTexture
            <4> QED BY <1>2, <3>1, <3>3, <4>1, <4>2 DEF PinAfter
        <3> QED BY <3>2, <3>3
    <2>4. newest \in Int /\ f.t \in Int /\ newest >= f.t /\ newest >= frameTime
          /\ newest \in {f.t, frameTime} /\ frameTime \in Int
        BY ClockGives
    <2>5. tl.stored = {} => frameTime = 0 /\ f.t > 0
        <3>1. f.t > 0
            BY MaxTimeIsPositive DEF Frame, Times
        <3> QED BY <1>2, <3>1 DEF GridAge
    <2>6. tl.stored # {} =>
            /\ LatestOf(tl.stored) \in tl.stored /\ LatestOf(tl.stored).t = frameTime
            /\ \A g \in tl.stored : g.t <= frameTime
        <3>1. tl.stored # {} =>
                LatestOf(tl.stored) \in tl.stored /\ \A g \in tl.stored : g.t <= LatestOf(tl.stored).t
            BY TimelineTyped, LatestIn
        <3> QED BY <1>2, <3>1 DEF GridAge
    <2>7. \A g \in all : g.t <= newest
        <3>1. \A g \in tl.stored : g.t <= frameTime /\ g.t \in Int
            BY <2>0, <2>6 DEF Frame, Times
        <3> QED BY <2>4, <3>1
    <2> DEFINE m == IF f.t = newest THEN f ELSE LatestOf(tl.stored)
    <2>8. m \in all /\ m.t = newest
        BY <2>4, <2>5, <2>6
    <2>9. m \in tl'.stored /\ LatestOf(tl'.stored) = m
        <3> HIDE DEF m, all, newest
        <3>1. tl'.stored = NewestOf(Within(NewestOf(all, Ring), newest, GridWindow), GridMax)
            BY <1>2 DEF all, newest
        <3> QED BY <2>0, <2>4, <2>7, <2>8, <3>1, NewestIsAccepted
    <2>10. GridAge'
        BY <1>2, <2>8, <2>9 DEF GridAge
    <2>11. FollowingShowsNewest'
        <3> SUFFICES ASSUME tl'.shown = NoFrame PROVE screen' = m
            BY <2>9 DEF FollowingShowsNewest, Following
        <3>1. tl.shown = NoFrame
            <4>1. tl.shown # NoFrame => tl'.shown = EarliestOf(tl'.stored)
                BY <1>2, <2>9 DEF PinAfter
            <4>2. EarliestOf(tl'.stored) \in tl'.stored
                BY <2>0, <2>1, <2>9, EarliestIn
            <4> QED BY <2>0, <2>1, <4>1, <4>2
        <3>2. CASE f.t = newest
            BY <1>2, <3>1, <3>2
        <3>3. CASE f.t # newest
            <4>1. screen' = screen /\ tl.stored # {}
                BY <1>2, <2>4, <2>5, <3>1, <3>3
            <4> QED BY <1>2, <3>1, <3>3, <4>1 DEF FollowingShowsNewest, Following
        <3> QED BY <3>2, <3>3
    <2> QED BY <2>2, <2>3, <2>10, <2>11
<1> QED BY <1>1, <1>2, MosaicArrives

\* A move lands on what has its texture, and the screen goes with it.
LEMMA MosaicMoveKeeps ==
    ASSUME Inv, MosaicInv, NEW e \in Entries(tl), MovesTo(e)
    PROVE  MosaicInv'
<1> USE DEF MosaicInv
<1>1. /\ UNCHANGED <<selection, mosaic, frameTime, tl.stored>>
      /\ tl'.partial = tl.partial
      /\ tl'.shown = IF IsLast(tl, e) THEN NoFrame ELSE e.frame
      /\ e.painting \in BOOLEAN
      /\ e.painting => tl.partial # NoFrame
      /\ ~e.painting => e.frame \in tl.stored
    BY MoveGives, TimelineTyped, EntryIn DEF MovesTo
<1>2. ListedHasTexture' /\ GridAge'
    BY <1>1 DEF ListedHasTexture, GridAge
<1>3. ASSUME selection \in Grids \cup Statics
      PROVE  /\ ~e.painting /\ e.frame \in tl.stored /\ e.frame # NoFrame /\ tl.partial = NoFrame
             /\ \/ /\ screen' = screen
                   /\ tl.shown = NoFrame => tl'.shown = NoFrame
                   /\ tl.shown # NoFrame => e.frame = tl.shown
                \/ screen' = e.frame
    <2>1. tl.partial = NoFrame
        BY <1>3, TimelineTyped, SourcesPartition
    <2>2. ~e.painting /\ e.frame \in tl.stored /\ e.frame # NoFrame
        BY <1>1, <2>1, TimelineTyped
    <2>3. e.frame \in mosaic
        BY <1>3, <2>2 DEF ListedHasTexture
    <2> QED BY <2>1, <2>2, <2>3, MoveGives DEF Missed
<1>4. MosaicPin'
    BY <1>1, <1>3, TimelineTyped DEF MosaicPin
<1>5. FollowingShowsNewest'
    <2> SUFFICES ASSUME selection \in Grids, tl'.shown = NoFrame, tl.stored # {}
                 PROVE  screen' = LatestOf(tl.stored)
        BY <1>1 DEF FollowingShowsNewest, Following
    <2>1. e.frame = LatestOf(tl.stored)
        BY <1>1, <1>3 DEF IsLast
    <2>2. tl.shown = NoFrame => screen = LatestOf(tl.stored)
        BY DEF FollowingShowsNewest, Following
    <2>3. tl.shown # NoFrame /\ e.frame = tl.shown => screen = tl.shown
        BY <1>3 DEF MosaicPin
    <2> QED BY <1>3, <2>1, <2>2, <2>3
<1> QED BY <1>2, <1>4, <1>5

\* Every step keeps the screen, the textures and the age of a mosaic.
LEMMA MosaicStep ==
    ASSUME "publish" \notin Faults, Inv, MosaicInv, [Next]_vars
    PROVE  MosaicInv'
<1>1. CASE UNCHANGED look
    BY <1>1 DEF MosaicInv, look, ListedHasTexture, MosaicPin, GridAge, FollowingShowsNewest,
                Following
<1>2. CASE selection' \in Sites
    BY <1>2, SourcesPartition DEF MosaicInv, ListedHasTexture, MosaicPin, GridAge,
                                  FollowingShowsNewest
<1>3. CASE Chosen
    <2>1. Selected
        BY <1>3, ChosenGives DEF Unselected
    <2>2. NoFrame \notin tl'.stored
        BY NextInv, NoFrameNotIn DEF Inv, SessionOK, Sound, Histories
    <2>3. CASE SelectedSite
        BY <1>2, <2>3 DEF SelectedSite
    <2>4. CASE SelectedEmpty
        BY <2>4 DEF SelectedEmpty, MosaicInv, ListedHasTexture, MosaicPin, GridAge,
                    FollowingShowsNewest
    <2>5. CASE SelectedStatic
        BY <2>1, <2>2, <2>5, SourcesPartition
           DEF SelectedStatic, Selected, MosaicInv, ListedHasTexture, MosaicPin, GridAge,
               FollowingShowsNewest
    <2> QED BY <2>1, <2>3, <2>4, <2>5 DEF Selected
<1>4. ASSUME NEW e \in Entries(tl), MovesTo(e) PROVE MosaicInv'
    BY <1>4, MosaicMoveKeeps
<1>5. ASSUME Deliver PROVE UNCHANGED look \/ selection' \in Sites
    BY <1>5, DeliverGives
<1>6. CASE TakeGridEvent
    BY <1>6, MosaicArrivalKeeps
<1>7. ASSUME Quiet \/ (\E e \in PolarEvent : PollerSends(e)) \/ (\E s \in Sites : PollerJoins(s))
             \/ TakeEvent \/ Encode \/ ClockAdvances
      PROVE  UNCHANGED look
    BY <1>7, EncodeGives
       DEF Quiet, look, PollerSends, PollerJoins, TakeEvent, ClockAdvances, shown
<1> QED BY <1>1, <1>2, <1>3, <1>4, <1>5, <1>6, <1>7, StepCases

\* A sweep in progress that is followed stays on screen.
LEMMA SweepStep ==
    ASSUME "publish" \notin Faults, Inv, ArrivalsInv, FollowingShowsSweep, [Next]_vars
    PROVE  FollowingShowsSweep'
<1>1. CASE UNCHANGED look
    BY <1>1 DEF look, FollowingShowsSweep, Following
<1>2. CASE tl'.partial = NoFrame
    BY <1>2 DEF FollowingShowsSweep
<1>3. ASSUME Chosen PROVE tl'.partial = NoFrame
    BY <1>3, ChosenGives DEF Selected, Unselected
<1>4. ASSUME NEW e \in Entries(tl), MovesTo(e) PROVE FollowingShowsSweep'
    <2>1. /\ tl'.stored = tl.stored /\ tl'.partial = tl.partial
          /\ tl'.shown = IF IsLast(tl, e) THEN NoFrame ELSE e.frame
          /\ e.painting \in BOOLEAN
          /\ e.painting => e.frame = tl.partial
          /\ ~e.painting => e.frame \in tl.stored
        BY <1>4, MoveGives, TimelineTyped, EntryIn
    <2> SUFFICES ASSUME tl'.shown = NoFrame, tl.partial # NoFrame,
                        \A g \in tl.stored : g.t < tl.partial.t
                 PROVE  screen' = tl.partial
        BY <2>1 DEF FollowingShowsSweep, Following
    <2>2. e.painting /\ e.frame = tl.partial
        BY <2>1, TimelineTyped DEF IsLast
    <2>3. tl.shown = NoFrame => screen = tl.partial
        BY DEF FollowingShowsSweep, Following
    <2>4. ASSUME tl.shown # NoFrame, tl.partial = tl.shown, tl.shown \notin tl.stored PROVE FALSE
        <3>1. Cardinality({g \in tl.stored : g.t > tl.shown.t}) >= Ring
            BY <2>4 DEF ArrivalsInv, DanglingIsOld
        <3>2. {g \in tl.stored : g.t > tl.shown.t} = {}
            <4>1. tl.shown.t \in Int /\ \A g \in tl.stored : g.t \in Int
                BY <2>4, TimelineTyped DEF Histories, Frame, Times
            <4> QED BY <2>4, <4>1
        <3>3. Cardinality({g \in tl.stored : g.t > tl.shown.t}) = 0
            BY <3>2, FS_EmptySet
        <3> QED BY <3>1, <3>3, BoundsAreNat
    <2> QED BY <1>4, <2>2, <2>3, <2>4, MoveGives DEF Missed
<1>5. CASE Deliver
    <2> DEFINE f == FrameOf(job.event)
    <2>1. /\ f \in Frame
          /\ \/ UNCHANGED look
             \/ f.src = selection /\ ArrivedPartial(f)
             \/ f.src = selection /\ ArrivedComplete(f)
             \/ f.src = selection /\ Backfilled(f)
        BY <1>5, DeliverGives
    <2> HIDE DEF f
    <2>2. CASE ArrivedPartial(f)
        <3>1. tl'.partial = f /\ tl'.shown = tl.shown
            BY <2>2, TimelineTyped DEF ArrivedPartial, Begin, Histories
        <3>2. tl.shown = NoFrame => screen' = f
            BY <2>2, OutcomesGive DEF ArrivedPartial, Following
        <3> QED BY <3>1, <3>2 DEF FollowingShowsSweep, Following
    <2>3. CASE f.src = selection /\ ArrivedComplete(f)
        BY <1>2, <2>1, <2>3, CompleteArrives
    <2>4. CASE f.src = selection /\ Backfilled(f)
        <3> DEFINE all == tl.stored \cup {f}
        <3>1. /\ tl'.stored = NewestOf(all, Ring) /\ tl'.stored # {}
              /\ tl'.partial = tl.partial /\ PinAfter(mosaic, disk)
            BY <2>1, <2>4, BackfillArrives
        <3>2. OfOneSource(all, selection) /\ all \in SUBSET Frame
            BY <2>1, <2>4, WithOneMore DEF OfOneSource
        <3> SUFFICES ASSUME tl'.shown = NoFrame, tl.partial # NoFrame,
                            \A g \in tl'.stored : g.t < tl.partial.t
                     PROVE  screen' = tl.partial
            BY <3>1 DEF FollowingShowsSweep, Following
        <3>3. tl.shown = NoFrame
            <4>1. tl'.stored \subseteq all
                BY <3>1 DEF NewestOf
            <4>2. EarliestOf(tl'.stored) \in tl'.stored /\ NoFrame \notin tl'.stored
                BY <3>1, <3>2, <4>1, EarliestIn, NoFrameNotIn
            <4> QED BY <3>1, <4>2 DEF PinAfter
        <3>4. LatestOf(all) \in tl'.stored /\ \A g \in all : g.t <= LatestOf(all).t
            BY <3>1, <3>2, LatestStays, LatestIn, BoundsAreNat
        <3>5. \A g \in tl.stored : g.t < tl.partial.t
            <4>1. tl.partial.t \in Int /\ \A g \in all : g.t \in Int
                BY <3>2, TimelineTyped DEF Histories, Frame, Times
            <4>2. LatestOf(all) \in all
                BY <3>2, LatestIn
            <4> QED BY <3>4, <4>1, <4>2
        <3>6. screen = tl.partial
            BY <3>3, <3>5 DEF FollowingShowsSweep, Following
        <3>7. screen' = screen
            <4>1. UNCHANGED tl.shown
                BY <3>3
            <4> QED BY <2>4, <4>1 DEF Backfilled, Repinned
        <3> QED BY <3>6, <3>7
    <2> QED BY <1>1, <2>1, <2>2, <2>3, <2>4
<1>6. ASSUME TakeGridEvent PROVE UNCHANGED look \/ tl'.partial = NoFrame
    BY <1>6, MosaicArrives
<1>7. ASSUME Quiet \/ (\E e \in PolarEvent : PollerSends(e)) \/ (\E s \in Sites : PollerJoins(s))
             \/ TakeEvent \/ Encode \/ ClockAdvances
      PROVE  UNCHANGED look
    BY <1>7, EncodeGives
       DEF Quiet, look, PollerSends, PollerJoins, TakeEvent, ClockAdvances, shown
<1> QED BY <1>1, <1>2, <1>3, <1>4, <1>5, <1>6, <1>7, StepCases

\* What mosaics list has its texture, and what is followed is on screen, as
\* long as files can be published.
THEOREM TexturesHold == ASSUME "publish" \notin Faults PROVE Spec => []TexturesInv
<1>1. Init => TexturesInv
    <2> SUFFICES ASSUME Init PROVE TexturesInv
        OBVIOUS
    <2>1. selection \notin Sites \cup Grids \cup Statics
        BY SourcesPartition DEF Init
    <2>2. tl.partial = NoFrame
        BY DEF Init, NewHistory
    <2> QED BY <2>1, <2>2 DEF TexturesInv, ListedHasTexture, MosaicPin, GridAge,
                              FollowingShowsNewest, FollowingShowsSweep
<1>2. Inv /\ ArrivalsInv /\ TexturesInv /\ [Next]_vars => TexturesInv'
    BY MosaicStep, SweepStep DEF TexturesInv, MosaicInv
<1> QED BY <1>1, <1>2, ArrivalsInOrder, PTL DEF Spec

\* Every listed mosaic keeps its texture.
THEOREM ListedHasTextureHolds == ASSUME "publish" \notin Faults PROVE Spec => []ListedHasTexture
BY TexturesHold, PTL DEF TexturesInv

\* The newest mosaic is on screen while it is followed, in whatever order
\* observations and backfills come.
THEOREM FollowingShowsNewestHolds ==
    ASSUME "publish" \notin Faults PROVE Spec => []FollowingShowsNewest
BY TexturesHold, PTL DEF TexturesInv

\* A sweep in progress that is the newest entry never paints unseen while the
\* user follows.
THEOREM FollowingShowsSweepHolds ==
    ASSUME "publish" \notin Faults PROVE Spec => []FollowingShowsSweep
BY TexturesHold, PTL DEF TexturesInv

-----------------------------------------------------------------------------
(* The catalog and the timeline *)

\* A sweep in the encoder is typed, also for what is on its way.
LEMMA StoredTyped ==
    ASSUME Inv, Stored
    PROVE  job # NoJob /\ FrameOf(job.event) \in Frame /\ FrameOf(job.event).src = job.event.src
<1>1. job # NoJob
    BY DEF Stored, NoJob
<1> QED BY <1>1, WaitingTyped, SourcesPartition DEF FrameOf, PolarEvent, Frame

\* What the catalog, the timeline and the encoder hold of a station is of it.
LEMMA CatalogTyped ==
    ASSUME Inv, NEW s \in Sites
    PROVE  /\ Cutoff \in Int /\ Ring \in Nat
           /\ FramesOf(s, disk) \in SUBSET Frame /\ tl.stored \in SUBSET Frame
           /\ OfOneSource(Catalogued(s) \cup OnTheWay(s), s)
           /\ selection = s => OfOneSource(Recent \cup OnTheWay(s), s)
           /\ selection = s /\ Stored /\ job.event.src = s
                => OfOneSource(tl.stored \cup {FrameOf(job.event)}, s)
<1>1. Cutoff \in Int /\ Ring \in Nat
    BY CutoffIsInt, BoundsAreNat
<1>2. FramesOf(s, disk) \in SUBSET Frame /\ \A f \in FramesOf(s, disk) : f.src = s
    BY TimelineTyped DEF FramesOf
<1>3. tl.stored \in SUBSET Frame /\ \A f \in tl.stored : f.src = selection
    BY TimelineTyped DEF OfOneSource
<1>4. \A f \in OnTheWay(s) : f \in Frame /\ f.src = s
    BY StoredTyped DEF OnTheWay, Since
<1>5. OfOneSource(Catalogued(s) \cup OnTheWay(s), s)
    BY <1>2, <1>4 DEF OfOneSource, Catalogued, Since
<1>6. selection = s => OfOneSource(Recent \cup OnTheWay(s), s)
    BY <1>3, <1>4 DEF OfOneSource, Recent, Since
<1>7. selection = s /\ Stored /\ job.event.src = s
        => OfOneSource(tl.stored \cup {FrameOf(job.event)}, s)
    BY <1>3, StoredTyped DEF OfOneSource
<1> QED BY <1>1, <1>2, <1>3, <1>5, <1>6, <1>7

\* Outside of the encoder the catalog of the retention window does not change.
LEMMA CatalogStays ==
    ASSUME Inv, Evicted, now' = now
    PROVE  Cutoff' = Cutoff /\ \A s \in Sites : Catalogued(s)' = Catalogued(s)
<1>1. Cutoff' = Cutoff
    BY DEF Cutoff
<1>2. ASSUME NEW s \in Sites PROVE Since(FramesOf(s, disk'), Cutoff) = Since(FramesOf(s, disk), Cutoff)
    <2>1. disk' \subseteq disk /\ \A f \in disk : f.t >= Cutoff => f \in disk'
        BY EvictedGives
    <2> QED BY <2>1 DEF Since, FramesOf
<1> QED BY <1>1, <1>2 DEF Catalogued

\* With nothing on its way, the catalog and the timeline are trimmed and agree.
LEMMA SettledMeans ==
    ASSUME Inv, CatalogInv, NEW s \in Sites
    PROVE  /\ NewestOf(Catalogued(s), Ring) = Catalogued(s)
           /\ OnTheWay(s) = {} /\ selection = s => Catalogued(s) = Recent
<1>1. NewestOf(Catalogued(s), Ring) = Catalogued(s)
    <2>1. NewestOf(Catalogued(s) \cup OnTheWay(s), Ring) = Catalogued(s)
        BY DEF CatalogInv, StoredOnce
    <2> DEFINE all == Catalogued(s) \cup OnTheWay(s)
    <2>2. OfOneSource(all, s) /\ Ring \in Nat
        BY CatalogTyped
    <2> HIDE DEF all
    <2>3. NewestOf(NewestOf(all, Ring), Ring) = NewestOf(all, Ring)
        BY <2>2, NewestTwice
    <2> QED BY <2>1, <2>3 DEF all
<1>2. ASSUME OnTheWay(s) = {}, selection = s PROVE Catalogued(s) = Recent
    BY <1>2 DEF CatalogInv, DiskMatches, ListedTrimmed
<1> QED BY <1>1, <1>2

\* A step that leaves the catalog, the timeline and the encoder's sweep alone.
LEMMA CatalogKept ==
    ASSUME Inv, CatalogInv, Evicted, now' = now, UNCHANGED <<selection, tl.stored>>,
           \A s \in Sites : OnTheWay(s)' = OnTheWay(s)
    PROVE  CatalogInv'
<1>1. Recent' = Recent /\ \A s \in Sites : Catalogued(s)' = Catalogued(s)
    BY CatalogStays DEF Recent
<1> QED BY <1>1 DEF CatalogInv, StoredOnce, ListedTrimmed, DiskMatches

\* A selection lists what the catalog has kept of the station.
LEMMA CatalogSelected ==
    ASSUME "list" \notin Faults, Inv, CatalogInv, Evicted, SelectedSite, UNCHANGED <<now, job>>
    PROVE  CatalogInv'
<1>1. selection' \in Sites /\ tl'.stored = NewestOf(FramesOf(selection', disk'), Ring)
    BY OutcomesGive DEF SelectedSite
<1>2. PICK s \in Sites : selection' = s
    BY <1>1
<1>3. Cutoff' = Cutoff /\ \A r \in Sites : Catalogued(r)' = Catalogued(r)
    BY CatalogStays
<1>4. \A r \in Sites : OnTheWay(r)' = OnTheWay(r)
    BY <1>3 DEF OnTheWay, Stored
<1>5. Recent' = Catalogued(s)
    <2>1. FramesOf(s, disk') \in SUBSET Frame /\ Cutoff \in Int
        BY CutoffIsInt, TimelineTyped, EvictedGives DEF FramesOf
    <2>2. Since(tl'.stored, Cutoff) = NewestOf(Since(FramesOf(s, disk'), Cutoff), Ring)
        BY <1>1, <1>2, <2>1, NewestSince
    <2>3. Since(FramesOf(s, disk'), Cutoff) = Catalogued(s)
        BY <1>3 DEF Catalogued
    <2>4. Since(tl'.stored, Cutoff) = Catalogued(s)
        BY <2>2, <2>3, SettledMeans
    <2> QED BY <1>3, <2>4 DEF Recent
<1>6. NewestOf(Recent', Ring) = Recent'
    BY <1>5, SettledMeans
<1>7. \A r \in Sites : NewestOf(Catalogued(r) \cup OnTheWay(r), Ring) = Catalogued(r)
    BY DEF CatalogInv, StoredOnce
<1>8. StoredOnce'
    BY <1>3, <1>4, <1>7 DEF StoredOnce
<1>9. ListedTrimmed'
    BY <1>6 DEF ListedTrimmed
<1>10. DiskMatches'
    BY <1>2, <1>3, <1>4, <1>5, <1>7 DEF DiskMatches
<1> QED BY <1>8, <1>9, <1>10 DEF CatalogInv

\* The encoder puts a complete sweep on its way to the timeline and, at once,
\* in the catalog.
LEMMA CatalogEncoded ==
    ASSUME "store" \notin Faults, Inv, CatalogInv, Encode
    PROVE  CatalogInv'
<1> DEFINE f == FrameOf(job.event)
<1>1. /\ job # NoJob /\ job.phase = "encoding" /\ f \in Frame /\ f.src \in Sites
      /\ job'.event = job.event /\ job'.phase = "encoded"
      /\ UNCHANGED <<look, now>> /\ Cutoff' = Cutoff /\ Cutoff \in Int
      /\ disk' = IF job.event.kind = "partial" THEN disk ELSE Store(f, disk)
      /\ f.src = job.event.src
    BY EncodeGives, CutoffIsInt DEF FrameOf, Cutoff, NoJob
<1>0. \A s \in Sites : OnTheWay(s)' = IF job.event.kind # "partial" /\ s = f.src
                                      THEN Since({f}, Cutoff) ELSE {}
    BY <1>1 DEF OnTheWay, Stored
<1> HIDE DEF f
<1>2. \A s \in Sites : OnTheWay(s) = {}
    BY <1>1 DEF OnTheWay, Stored
<1>3. UNCHANGED <<selection, tl.stored>> /\ Recent' = Recent
    BY <1>1 DEF look, Recent
<1>4. CASE job.event.kind = "partial"
    <2>1. \A s \in Sites : OnTheWay(s)' = {}
        BY <1>4, <1>0
    <2> QED BY <1>1, <1>2, <1>3, <1>4, <2>1, CatalogKept DEF Evicted
<1>5. CASE job.event.kind # "partial"
    <2>1. PICK r \in Sites : r = f.src
        BY <1>1
    <2> DEFINE X == Since({f}, Cutoff)
               all == Catalogued(r) \cup X
    <2>2. disk' = Store(f, disk)
        BY <1>1, <1>5
    <2>3. /\ FramesOf(r, disk') = NewestOf(FramesOf(r, disk) \cup {f}, Ring)
          /\ \A s \in Sites : s # r => FramesOf(s, disk') = FramesOf(s, disk)
        BY <2>1, <2>2, StoreGives
    <2>4. \A s \in Sites : OnTheWay(s)' = IF s = r THEN X ELSE {}
        BY <1>5, <1>0, <2>1
    <2>5. \A s \in Sites : s # r => Catalogued(s)' = Catalogued(s)
        BY <1>1, <2>3 DEF Catalogued
    <2>6. Catalogued(r)' = NewestOf(all, Ring)
        <3>1. FramesOf(r, disk) \in SUBSET Frame /\ {f} \in SUBSET Frame
            BY <1>1, CatalogTyped
        <3>2. Since(FramesOf(r, disk'), Cutoff)
                = NewestOf(Since(FramesOf(r, disk) \cup {f}, Cutoff), Ring)
            BY <1>1, <2>3, <3>1, NewestSince
        <3>3. Since(FramesOf(r, disk) \cup {f}, Cutoff) = all
            <4>1. Since(FramesOf(r, disk) \cup {f}, Cutoff)
                    = Since(FramesOf(r, disk), Cutoff) \cup Since({f}, Cutoff)
                BY DEF Since
            <4> QED BY <4>1 DEF Catalogued
        <3> QED BY <1>1, <3>2, <3>3 DEF Catalogued
    <2>7. OfOneSource(all, r) /\ X \subseteq all /\ Ring \in Nat
        <3>1. OfOneSource(Catalogued(r) \cup OnTheWay(r), r)
            BY CatalogTyped
        <3>2. X \subseteq {f}
            BY DEF Since
        <3> QED BY <1>1, <2>1, <3>1, <3>2, BoundsAreNat DEF OfOneSource
    <2>8. StoredOnce'
        <3>1. NewestOf(Catalogued(r)' \cup OnTheWay(r)', Ring) = Catalogued(r)'
            <4> HIDE DEF all, X
            <4>1. NewestOf(NewestOf(all, Ring) \cup X, Ring) = NewestOf(all, Ring)
                BY <2>7, NewestRejoins
            <4> QED BY <2>4, <2>6, <4>1
        <3>2. ASSUME NEW s \in Sites, s # r
              PROVE  NewestOf(Catalogued(s)' \cup OnTheWay(s)', Ring) = Catalogued(s)'
            BY <2>4, <2>5, <3>2, SettledMeans
        <3> QED BY <3>1, <3>2 DEF StoredOnce
    <2>9. ListedTrimmed'
        BY <1>3 DEF ListedTrimmed, CatalogInv
    <2>10. DiskMatches'
        <3> SUFFICES ASSUME NEW s \in Sites, selection = s
                     PROVE  Catalogued(s)' = NewestOf(Recent' \cup OnTheWay(s)', Ring)
            BY <1>3 DEF DiskMatches
        <3>1. Catalogued(s) = Recent /\ NewestOf(Recent, Ring) = Recent
            BY <1>2, SettledMeans
        <3>2. CASE s = r
            BY <1>3, <2>4, <2>6, <3>1, <3>2
        <3>3. CASE s # r
            BY <1>3, <2>4, <2>5, <3>1, <3>3
        <3> QED BY <3>2, <3>3
    <2> QED BY <2>8, <2>9, <2>10 DEF CatalogInv
<1> QED BY <1>4, <1>5

\* A sweep that is delivered is listed as the catalog has it.
LEMMA CatalogDelivered ==
    ASSUME Inv, CatalogInv, Deliver
    PROVE  CatalogInv'
<1> DEFINE f == FrameOf(job.event)
<1>1. /\ job # NoJob /\ job.phase = "encoded" /\ job' = NoJob
      /\ f \in Frame /\ f.src \in Sites /\ f.src = job.event.src
      /\ UNCHANGED <<selection, now>>
      /\ \/ /\ UNCHANGED <<look, disk>>
            /\ (f.src = selection /\ job.event.kind # "partial") => f \in tl.stored
         \/ f.src = selection /\ job.event.kind = "partial" /\ ArrivedPartial(f)
         \/ f.src = selection /\ job.event.kind = "complete" /\ ArrivedComplete(f)
         \/ f.src = selection /\ job.event.kind = "backfill" /\ Backfilled(f)
    BY DeliverGives DEF FrameOf
<1>2. \A s \in Sites : OnTheWay(s) = IF job.event.kind # "partial" /\ s = f.src
                                     THEN Since({f}, Cutoff) ELSE {}
    BY <1>1 DEF OnTheWay, Stored
<1>3. \A s \in Sites : OnTheWay(s)' = {}
    BY <1>1 DEF OnTheWay, Stored, NoJob
<1> HIDE DEF f
<1>4. Evicted
    <2>1. CASE disk' = disk
        BY <2>1 DEF Evicted
    <2>2. CASE f.src = selection /\ ArrivedComplete(f)
        BY <1>1, <2>2, CompleteArrives DEF Evicted
    <2>3. CASE ArrivedPartial(f)
        BY <2>3 DEF ArrivedPartial, Evicted
    <2>4. CASE Backfilled(f)
        BY <2>4 DEF Backfilled, Evicted
    <2> QED BY <1>1, <2>1, <2>2, <2>3, <2>4
<1>5. Cutoff' = Cutoff /\ \A s \in Sites : Catalogued(s)' = Catalogued(s)
    BY <1>1, <1>4, CatalogStays
<1>6. StoredOnce'
    BY <1>3, <1>5, SettledMeans DEF StoredOnce
\* It is enough that the timeline of a selected station is the catalog's list.
<1>7. ASSUME \A s \in Sites : selection = s => Recent' = Catalogued(s) PROVE CatalogInv'
    <2>1. ASSUME NEW s \in Sites, selection = s
          PROVE  NewestOf(Recent', Ring) = Recent' /\ Catalogued(s)' = Recent'
        BY <1>5, <1>7, <2>1, SettledMeans
    <2>2. ListedTrimmed'
        BY <1>1, <2>1 DEF ListedTrimmed
    <2>3. DiskMatches'
        BY <1>1, <1>3, <2>1 DEF DiskMatches
    <2> QED BY <1>6, <2>2, <2>3 DEF CatalogInv
<1>8. ASSUME NEW s \in Sites, selection = s PROVE Recent' = Catalogued(s)
    <2>0. Recent' = Since(tl'.stored, Cutoff) /\ Catalogued(s) = NewestOf(Recent \cup OnTheWay(s), Ring)
        BY <1>5, <1>8 DEF Recent, CatalogInv, DiskMatches
    <2>1. CASE tl'.stored = tl.stored /\ OnTheWay(s) = {}
        BY <1>8, <2>0, <2>1, SettledMeans DEF Recent
    <2>2. CASE tl'.stored = tl.stored /\ f \in tl.stored /\ s = f.src
        <3>1. OnTheWay(s) \subseteq Recent
            BY <1>2, <2>2 DEF Recent, Since
        <3>2. Recent \cup OnTheWay(s) = Recent
            BY <3>1
        <3>3. Catalogued(s) = NewestOf(Recent, Ring) /\ NewestOf(Recent, Ring) = Recent
            BY <1>8, <2>0, <3>2 DEF CatalogInv, ListedTrimmed
        <3> QED BY <2>0, <2>2, <3>3 DEF Recent
    <2>3. ASSUME s = f.src, job.event.kind # "partial",
                 Recent' = Since(NewestOf(tl.stored \cup {f}, Ring), Cutoff)
          PROVE  Recent' = Catalogued(s)
        <3>1. tl.stored \cup {f} \in SUBSET Frame /\ Cutoff \in Int
            BY <1>1, CutoffIsInt, TimelineTyped
        <3>2. Recent' = NewestOf(Since(tl.stored \cup {f}, Cutoff), Ring)
            BY <2>3, <3>1, NewestSince
        <3>3. Since(tl.stored \cup {f}, Cutoff) = Recent \cup OnTheWay(s)
            <4>1. Since(tl.stored \cup {f}, Cutoff) = Recent \cup Since({f}, Cutoff)
                BY DEF Since, Recent
            <4> QED BY <1>2, <2>3, <4>1
        <3> QED BY <2>0, <3>2, <3>3
    <2>4. CASE UNCHANGED <<look, disk>>
              /\ ((f.src = selection /\ job.event.kind # "partial") => f \in tl.stored)
        <3>1. tl'.stored = tl.stored
            BY <2>4 DEF look
        <3> QED BY <1>2, <1>8, <2>1, <2>2, <2>4, <3>1
    <2>5. CASE f.src = selection /\ job.event.kind = "partial" /\ ArrivedPartial(f)
        <3>1. tl'.stored = tl.stored
            BY <2>5, TimelineTyped DEF ArrivedPartial, Begin, Histories
        <3> QED BY <1>2, <1>8, <2>1, <2>5, <3>1
    <2>6. CASE f.src = selection /\ job.event.kind = "complete" /\ ArrivedComplete(f)
        <3>1. tl'.stored = Since(NewestOf(tl.stored \cup {f}, Ring), Cutoff)
            BY <1>1, <2>6, CompleteArrives
        <3>2. Since(tl'.stored, Cutoff) = tl'.stored
            BY <3>1 DEF Since
        <3> QED BY <1>8, <2>0, <2>3, <2>6, <3>1, <3>2
    <2>7. CASE f.src = selection /\ job.event.kind = "backfill" /\ Backfilled(f)
        <3>1. tl'.stored = NewestOf(tl.stored \cup {f}, Ring)
            BY <1>1, <2>7, BackfillArrives
        <3> QED BY <1>8, <2>0, <2>3, <2>7, <3>1
    <2> QED BY <1>1, <2>4, <2>5, <2>6, <2>7
<1> QED BY <1>7, <1>8

\* Time passes for the catalog, the timeline and the encoder alike.
LEMMA CatalogAges ==
    ASSUME Inv, CatalogInv, ClockAdvances
    PROVE  CatalogInv'
<1> DEFINE later == Cutoff + 1
<1>1. UNCHANGED <<selection, tl, disk, job>> /\ now' = now + 1
    BY DEF ClockAdvances, shown, tasks
<1>2. Cutoff' = later /\ Cutoff \in Int /\ later \in Int /\ Cutoff <= later
    <2>1. now \in Int /\ Ttl \in Int
        BY BoundsAreNat DEF Inv, RestOK
    <2> QED BY <1>1, <2>1 DEF Cutoff
<1> HIDE DEF later
<1>3. ASSUME NEW s \in Sites
      PROVE  /\ Catalogued(s)' = Since(Catalogued(s), later)
             /\ OnTheWay(s)' = Since(OnTheWay(s), later)
             /\ Catalogued(s) \in SUBSET Frame /\ OnTheWay(s) \in SUBSET Frame
    <2>1. FramesOf(s, disk) \in SUBSET Frame
        BY CatalogTyped
    <2>2. Catalogued(s)' = Since(Catalogued(s), later)
        <3>1. Since(Since(FramesOf(s, disk), Cutoff), later) = Since(FramesOf(s, disk), later)
            BY <1>2, <2>1, SinceGives
        <3> QED BY <1>1, <1>2, <3>1 DEF Catalogued
    <2>3. OnTheWay(s)' = Since(OnTheWay(s), later)
        <3>1. CASE Stored /\ job.event.src = s
            <4>1. {FrameOf(job.event)} \in SUBSET Frame
                BY <3>1, StoredTyped
            <4>2. Since(Since({FrameOf(job.event)}, Cutoff), later)
                    = Since({FrameOf(job.event)}, later)
                BY <1>2, <4>1, SinceGives
            <4> QED BY <1>1, <1>2, <3>1, <4>2 DEF OnTheWay, Stored
        <3>2. CASE ~(Stored /\ job.event.src = s)
            <4>1. OnTheWay(s)' = {} /\ OnTheWay(s) = {}
                BY <1>1, <3>2 DEF OnTheWay, Stored
            <4> QED BY <4>1 DEF Since
        <3> QED BY <3>1, <3>2
    <2>4. Catalogued(s) \in SUBSET Frame /\ OnTheWay(s) \in SUBSET Frame
        BY CatalogTyped DEF OfOneSource
    <2> QED BY <2>2, <2>3, <2>4
<1>4. Recent' = Since(Recent, later) /\ Recent \in SUBSET Frame
    <2>1. tl.stored \in SUBSET Frame
        BY TimelineTyped
    <2>2. Since(Since(tl.stored, Cutoff), later) = Since(tl.stored, later)
          /\ Since(tl.stored, Cutoff) \subseteq tl.stored
        BY <1>2, <2>1, SinceGives
    <2> QED BY <1>1, <1>2, <2>1, <2>2 DEF Recent
\* The newest of two sets that age together are the aged newest.
<1>5. ASSUME NEW S \in SUBSET Frame, NEW X \in SUBSET Frame
      PROVE  NewestOf(Since(S, later) \cup Since(X, later), Ring) = Since(NewestOf(S \cup X, Ring), later)
    <2>1. Since(S \cup X, later) = Since(S, later) \cup Since(X, later)
        BY DEF Since
    <2>2. S \cup X \in SUBSET Frame
        OBVIOUS
    <2>3. Since(NewestOf(S \cup X, Ring), later) = NewestOf(Since(S \cup X, later), Ring)
        BY <1>2, <2>2, NewestSince
    <2> QED BY <2>1, <2>3
<1>6. StoredOnce'
    <2> SUFFICES ASSUME NEW s \in Sites
                 PROVE  NewestOf(Catalogued(s)' \cup OnTheWay(s)', Ring) = Catalogued(s)'
        BY DEF StoredOnce
    <2>1. NewestOf(Catalogued(s) \cup OnTheWay(s), Ring) = Catalogued(s)
        BY DEF CatalogInv, StoredOnce
    <2>2. NewestOf(Since(Catalogued(s), later) \cup Since(OnTheWay(s), later), Ring)
            = Since(NewestOf(Catalogued(s) \cup OnTheWay(s), Ring), later)
        BY <1>3, <1>5
    <2> QED BY <1>3, <2>1, <2>2
<1>7. ListedTrimmed'
    <2>1. Since(NewestOf(Recent, Ring), later) = NewestOf(Since(Recent, later), Ring)
        BY <1>2, <1>4, NewestSince
    <2> QED BY <1>1, <1>4, <2>1 DEF CatalogInv, ListedTrimmed
<1>8. DiskMatches'
    <2> SUFFICES ASSUME NEW s \in Sites, selection = s
                 PROVE  Catalogued(s)' = NewestOf(Recent' \cup OnTheWay(s)', Ring)
        BY <1>1 DEF DiskMatches
    <2>1. Catalogued(s) = NewestOf(Recent \cup OnTheWay(s), Ring)
        BY DEF CatalogInv, DiskMatches
    <2>2. NewestOf(Since(Recent, later) \cup Since(OnTheWay(s), later), Ring)
            = Since(NewestOf(Recent \cup OnTheWay(s), Ring), later)
        BY <1>3, <1>4, <1>5
    <2> QED BY <1>3, <1>4, <2>1, <2>2
<1> QED BY <1>6, <1>7, <1>8 DEF CatalogInv

\* Every step keeps the catalog and the timeline together.
LEMMA CatalogStep ==
    ASSUME Faults \cap {"list", "store"} = {}, Inv, CatalogInv, [Next]_vars
    PROVE  CatalogInv'
<1>0. "list" \notin Faults /\ "store" \notin Faults
    OBVIOUS
<1>1. ASSUME UNCHANGED <<selection, tl.stored, job, disk, now>> PROVE CatalogInv'
    <2>1. \A s \in Sites : OnTheWay(s)' = OnTheWay(s)
        BY <1>1 DEF OnTheWay, Stored, Cutoff
    <2> QED BY <1>1, <2>1, CatalogKept DEF Evicted
<1>2. ASSUME Quiet \/ (\E e \in PolarEvent : PollerSends(e)) \/ (\E s \in Sites : PollerJoins(s))
      PROVE  UNCHANGED <<selection, tl.stored, job, disk, now>>
    BY <1>2 DEF Quiet, look, PollerSends, PollerJoins, shown, tasks
<1>3. ASSUME NEW e \in Entries(tl), MovesTo(e)
      PROVE  UNCHANGED <<selection, tl.stored, job, disk, now>>
    BY <1>3, MoveGives DEF MovesTo
<1>4. CASE Chosen
    <2>1. UNCHANGED <<job, now>> /\ Evicted /\ (Selected \/ Unselected)
        BY <1>4, ChosenGives
    <2>2. CASE Unselected
        <3>1. \A s \in Sites : OnTheWay(s)' = OnTheWay(s)
            BY <2>1 DEF OnTheWay, Stored, Cutoff
        <3> QED BY <2>1, <2>2, <3>1, CatalogKept DEF Unselected
    <2>3. CASE SelectedSite
        BY <1>0, <2>1, <2>3, CatalogSelected
    <2>4. CASE SelectedEmpty \/ SelectedStatic
        <3>1. selection' \notin Sites
            BY <2>4, SourcesPartition DEF SelectedEmpty, SelectedStatic
        <3>2. \A s \in Sites : OnTheWay(s)' = OnTheWay(s) /\ Catalogued(s)' = Catalogued(s)
            BY <2>1, CatalogStays DEF OnTheWay, Stored
        <3> QED BY <3>1, <3>2 DEF CatalogInv, StoredOnce, ListedTrimmed, DiskMatches
    <2> QED BY <2>1, <2>2, <2>3, <2>4 DEF Selected
<1>5. CASE TakeEvent
    <2>1. UNCHANGED <<selection, tl, disk, now>>
        BY <1>5 DEF TakeEvent, shown, world
    <2>2. \A s \in Sites : OnTheWay(s)' = {} /\ OnTheWay(s) = {}
        BY <1>5, TakenGives DEF OnTheWay, Stored, NoJob
    <2> QED BY <2>1, <2>2, CatalogKept DEF Evicted
<1>6. CASE Encode
    BY <1>0, <1>6, CatalogEncoded
<1>7. CASE Deliver
    BY <1>7, CatalogDelivered
<1>8. CASE TakeGridEvent
    <2>1. UNCHANGED <<selection, job, disk, now>> /\ (UNCHANGED look \/ selection \in Grids)
        BY <1>8, MosaicArrives
    <2>2. CASE UNCHANGED look
        BY <1>1, <2>1, <2>2 DEF look
    <2>3. CASE selection \in Grids
        <3>1. selection \notin Sites /\ selection' \notin Sites
            BY <2>1, <2>3, SourcesPartition
        <3>2. \A s \in Sites : OnTheWay(s)' = OnTheWay(s) /\ Catalogued(s)' = Catalogued(s)
            BY <2>1, CatalogStays DEF OnTheWay, Stored, Evicted
        <3> QED BY <3>1, <3>2 DEF CatalogInv, StoredOnce, ListedTrimmed, DiskMatches
    <2> QED BY <2>1, <2>2, <2>3
<1>9. CASE ClockAdvances
    BY <1>9, CatalogAges
<1> QED BY <1>1, <1>2, <1>3, <1>4, <1>5, <1>6, <1>7, <1>8, <1>9, StepCases

\* The catalogs of earlier sessions are trimmed, and nothing is listed.
LEMMA CatalogInit == Init => CatalogInv
<1> SUFFICES ASSUME Init PROVE CatalogInv
    OBVIOUS
<1>1. selection \notin Sites /\ \A s \in Sites : OnTheWay(s) = {}
    BY SourcesPartition DEF Init, OnTheWay, Stored, NoJob
<1>2. ASSUME NEW s \in Sites PROVE NewestOf(Catalogued(s), Ring) = Catalogued(s)
    <2>1. \A f \in Catalogued(s) : f.t = 1
        BY DEF Init, Catalogued, Since, FramesOf
    <2>2. \A f \in Catalogued(s) : {g \in Catalogued(s) : g.t > f.t} = {}
        BY <2>1
    <2>3. \A f \in Catalogued(s) : Cardinality({g \in Catalogued(s) : g.t > f.t}) < Ring
        BY <2>2, FS_EmptySet, BoundsAreNat
    <2> QED BY <2>3 DEF NewestOf
<1> QED BY <1>1, <1>2 DEF CatalogInv, StoredOnce, ListedTrimmed, DiskMatches

\* The catalog and the timeline of the retention window agree, up to what is on
\* its way, as long as the catalog can be listed and written.
THEOREM CatalogAgrees ==
    ASSUME Faults \cap {"list", "store"} = {} PROVE Spec => [](Inv /\ CatalogInv)
<1>1. Init => Inv /\ CatalogInv
    BY InitInv, CatalogInit
<1>2. Inv /\ CatalogInv /\ [Next]_vars => (Inv /\ CatalogInv)'
    BY NextInv, CatalogStep
<1> QED BY <1>1, <1>2, PTL DEF Spec

\* With no sweep on its way, a listed frame in the retention window is in the
\* catalog.
LEMMA SettledOnDisk ==
    ASSUME Inv, CatalogInv, NEW f \in tl.stored, selection \in Sites,
           job.phase # "encoded", f.t >= Cutoff
    PROVE  f \in disk
<1>1. PICK s \in Sites : selection = s
    OBVIOUS
<1>2. OnTheWay(s) = {} /\ f \in Recent
    BY DEF OnTheWay, Stored, Recent, Since
<1>3. f \in Catalogued(s)
    BY <1>1, <1>2, SettledMeans
<1> QED BY <1>3 DEF Catalogued, Since, FramesOf

\* Every listed frame of a station that is inside the retention window can be
\* read back, whatever a poller replays, a ring drops or a selection evicts.
THEOREM ListedOnDiskHolds ==
    ASSUME Faults \cap {"list", "store"} = {} PROVE Spec => []ListedOnDisk
<1>1. Inv /\ CatalogInv => ListedOnDisk
    BY SettledOnDisk DEF ListedOnDisk
<1> QED BY <1>1, CatalogAgrees, PTL

-----------------------------------------------------------------------------
(* The pin and the screen *)

\* A sweep that arrives leaves the pin on the screen, or takes it to the oldest.
LEMMA PinArrives ==
    ASSUME Faults \subseteq {"evict"}, Inv, ArrivalsInv, SitePin, NEW f \in Frame, f.src = selection,
           UNCHANGED <<selection, now>>, disk' \subseteq disk,
           tl'.stored \subseteq NewestOf(tl.stored \cup {f}, Ring),
           NEW ring, PinAfter(ring, disk')
    PROVE  SitePin'
<1> SUFFICES ASSUME selection \in Sites, tl'.shown \in tl'.stored, tl'.shown \in disk',
                    tl'.shown.t >= Cutoff
             PROVE  screen' = tl'.shown
    BY DEF SitePin, Cutoff
<1>1. tl.stored \cup {f} \in SUBSET Frame /\ tl'.stored \subseteq tl.stored \cup {f}
    BY TimelineTyped DEF NewestOf
<1>2. tl'.shown # NoFrame /\ tl'.stored # {}
    BY <1>1, NoFrameNotIn
<1>3. tl.shown # NoFrame
    BY <1>2 DEF PinAfter
<1>4. CASE tl'.shown = tl.shown
    <2>1. ASSUME tl.shown \notin tl.stored PROVE FALSE
        <3>1. Cardinality({g \in tl.stored : g.t > tl.shown.t}) >= Ring
            BY <1>3, <2>1 DEF ArrivalsInv, DanglingIsOld
        <3> DEFINE all == tl.stored \cup {f}
        <3>2. OfOneSource(all, selection) /\ IsFiniteSet(all) /\ tl.stored \in SUBSET all
            BY TimelineTyped, WithOneMore, SourceFinite
        <3>5. Cardinality({g \in all : g.t > tl.shown.t}) < Ring
            BY <1>4 DEF NewestOf
        <3> HIDE DEF all
        <3>3. /\ Cardinality({g \in tl.stored : g.t > tl.shown.t}) \in Nat
              /\ Cardinality({g \in all : g.t > tl.shown.t}) \in Nat
              /\ Cardinality({g \in tl.stored : g.t > tl.shown.t})
                    <= Cardinality({g \in all : g.t > tl.shown.t})
            BY <3>2, FewerNewer
        <3> QED BY <3>1, <3>3, <3>5, BoundsAreNat
    <2>2. screen = tl.shown
        BY <1>4, <2>1 DEF SitePin
    <2> QED BY <1>3, <1>4, <2>2 DEF PinAfter
<1>5. CASE tl'.shown # tl.shown
    <2>1. tl'.shown = EarliestOf(tl'.stored)
        BY <1>2, <1>3, <1>5 DEF PinAfter
    <2> QED BY <1>2, <1>3, <1>5, <2>1 DEF PinAfter
<1> QED BY <1>4, <1>5

\* Every step keeps a pinned frame of a station on screen while the catalog has it.
LEMMA SitePinStep ==
    ASSUME Faults \subseteq {"evict"}, Inv, ArrivalsInv, CatalogInv, SitePin, [Next]_vars
    PROVE  SitePin'
<1>1. ASSUME UNCHANGED <<look, now>>, tl.shown \in tl.stored /\ tl.shown \in disk' => tl.shown \in disk
      PROVE  SitePin'
    BY <1>1 DEF look, SitePin, Cutoff
<1>2. ASSUME Quiet \/ (\E e \in PolarEvent : PollerSends(e)) \/ (\E s \in Sites : PollerJoins(s))
             \/ TakeEvent
      PROVE  UNCHANGED <<look, disk, now>>
    BY <1>2 DEF Quiet, look, PollerSends, PollerJoins, TakeEvent, shown, feed, world
<1>3. ASSUME Chosen PROVE SitePin'
    <2>1. tl'.shown = NoFrame
        BY <1>3, ChosenGives DEF Selected, Unselected
    <2>2. NoFrame \notin tl'.stored
        BY NextInv, NoFrameNotIn DEF Inv, SessionOK, Sound, Histories
    <2> QED BY <2>1, <2>2 DEF SitePin
<1>4. ASSUME NEW e \in Entries(tl), MovesTo(e) PROVE SitePin'
    <2>1. /\ UNCHANGED <<selection, disk, now>> /\ tl'.stored = tl.stored
          /\ NoFrame \notin tl.stored /\ e.painting \in BOOLEAN
        BY <1>4, MoveGives, TimelineTyped, EntryIn DEF MovesTo
    <2> SUFFICES ASSUME selection \in Sites, tl'.shown \in tl.stored, tl'.shown \in disk,
                        tl'.shown.t >= Cutoff
                 PROVE  screen' = tl'.shown
        BY <2>1 DEF SitePin, Cutoff
    <2>2. tl'.shown = e.frame /\ tl'.shown # NoFrame /\ ~e.painting
        BY <1>4, <2>1, MoveGives
    <2>3. e.frame \in disk /\ Faults \cap {"publish", "load"} = {}
        BY <2>2
    <2>4. ~Missed(e)
        BY <2>3 DEF Missed
    <2>5. CASE screen' = screen /\ tl.shown # NoFrame /\ e.frame = tl.shown
        BY <2>2, <2>5 DEF SitePin
    <2> QED BY <1>4, <2>2, <2>4, <2>5, MoveGives
<1>5. ASSUME Encode PROVE SitePin'
    <2>1. UNCHANGED <<look, now>> /\ job.phase = "encoding"
        BY <1>5, EncodeGives
    <2>2. selection \in Sites /\ tl.shown \in tl.stored /\ tl.shown.t >= Cutoff
            => tl.shown \in disk
        BY <2>1, SettledOnDisk
    <2> QED BY <2>1, <2>2 DEF look, SitePin, Cutoff
<1>6. ASSUME Deliver PROVE SitePin'
    <2> DEFINE f == FrameOf(job.event)
    <2>1. /\ f \in Frame /\ UNCHANGED <<selection, now>>
          /\ \/ UNCHANGED <<look, disk>>
             \/ f.src = selection /\ ArrivedPartial(f)
             \/ f.src = selection /\ ArrivedComplete(f)
             \/ f.src = selection /\ Backfilled(f)
        BY <1>6, DeliverGives
    <2> HIDE DEF f
    <2>2. CASE UNCHANGED <<look, disk>>
        BY <1>1, <2>1, <2>2
    <2>3. CASE ArrivedPartial(f)
        <3>1. tl'.stored = tl.stored /\ tl'.shown = tl.shown /\ disk' = disk
              /\ NoFrame \notin tl.stored
            BY <2>3, TimelineTyped DEF ArrivedPartial, Begin, Histories
        <3>2. tl.shown # NoFrame => screen' = screen
            BY <2>3 DEF ArrivedPartial, Following
        <3> QED BY <2>1, <3>1, <3>2 DEF SitePin, Cutoff
    <2>4. CASE f.src = selection /\ ArrivedComplete(f)
        <3>1. /\ tl'.stored = Since(NewestOf(tl.stored \cup {f}, Ring), Cutoff)
              /\ disk' \in Evictions(selection, Cutoff, disk) /\ PinAfter(mosaic, disk')
            BY <2>1, <2>4, CompleteArrives
        <3>2. tl'.stored \subseteq NewestOf(tl.stored \cup {f}, Ring) /\ disk' \subseteq disk
            BY <3>1, EvictedGives DEF Since, Evicted
        <3> QED BY <2>1, <2>4, <3>1, <3>2, PinArrives
    <2>5. CASE f.src = selection /\ Backfilled(f)
        <3>1. /\ tl'.stored = NewestOf(tl.stored \cup {f}, Ring)
              /\ disk' = disk /\ PinAfter(mosaic, disk')
            BY <2>1, <2>5, BackfillArrives
        <3> QED BY <2>1, <2>5, <3>1, PinArrives
    <2> QED BY <2>1, <2>2, <2>3, <2>4, <2>5
<1>7. ASSUME TakeGridEvent PROVE SitePin'
    <2>1. UNCHANGED <<selection, disk, now>> /\ (UNCHANGED look \/ selection \in Grids)
        BY <1>7, MosaicArrives
    <2> QED BY <1>1, <2>1, SourcesPartition DEF SitePin
<1>8. ASSUME ClockAdvances PROVE SitePin'
    <2>1. UNCHANGED <<selection, tl, screen, disk>> /\ now' = now + 1
        BY <1>8 DEF ClockAdvances, shown
    <2>2. tl.shown \in tl.stored /\ tl.shown.t >= Cutoff' => tl.shown.t >= Cutoff
        <3>1. now \in Int /\ Ttl \in Int /\ \A g \in tl.stored : g.t \in Int
            BY BoundsAreNat, TimelineTyped DEF Inv, RestOK, Frame, Times
        <3> QED BY <2>1, <3>1 DEF Cutoff
    <2> QED BY <2>1, <2>2 DEF SitePin
<1> QED BY <1>1, <1>2, <1>3, <1>4, <1>5, <1>6, <1>7, <1>8, StepCases

\* The whole of it is inductive when no operation on files fails but eviction.
THEOREM ScreenAgrees == ASSUME Faults \subseteq {"evict"} PROVE Spec => []ScreenInv
<1>1. Init => SitePin
    BY SourcesPartition DEF Init, SitePin
<1>2. Inv /\ ArrivalsInv /\ CatalogInv /\ SitePin /\ [Next]_vars => SitePin'
    BY SitePinStep
<1>3. Spec => [](Inv /\ CatalogInv) /\ []AgeCoversListed /\ []TexturesInv
    <2>1. /\ Faults \cap {"list", "store"} = {}
          /\ "load" \notin Faults /\ "publish" \notin Faults
        OBVIOUS
    <2> QED BY <2>1, CatalogAgrees, AgeCoversListedHolds, TexturesHold, PTL
<1>4. Spec => []SitePin
    BY <1>1, <1>2, <1>3, ArrivalsInOrder, PTL DEF Spec
<1> QED BY <1>3, <1>4, ArrivalsInOrder, PTL DEF ScreenInv

\* The position that step and play start from is what the user sees, inside the
\* retention window and while nothing is on its way.
THEOREM PinnedOnScreenHolds == ASSUME Faults \subseteq {"evict"} PROVE Spec => []PinnedOnScreen
<1>1. ASSUME Inv, ScreenInv, tl.shown \in tl.stored,
             selection \in Sites => job.phase # "encoded" /\ tl.shown.t >= Cutoff
      PROVE  screen = tl.shown
    <2>1. tl.shown \in Frame /\ tl.shown.src = selection
        BY <1>1, TimelineTyped DEF OfOneSource
    <2>2. selection \in Sites \cup Grids \cup Statics
        BY <2>1, SourcesPartition DEF Frame
    <2>3. CASE selection \in Grids \cup Statics
        BY <1>1, <2>3 DEF ScreenInv, TexturesInv, MosaicPin
    <2>4. CASE selection \in Sites
        <3>1. tl.shown \in disk
            BY <1>1, <2>4, SettledOnDisk DEF ScreenInv
        <3> QED BY <1>1, <2>4, <3>1 DEF ScreenInv, SitePin
    <2> QED BY <2>2, <2>3, <2>4
<1>2. Inv /\ ScreenInv => PinnedOnScreen
    BY <1>1 DEF PinnedOnScreen
<1> QED BY <1>2, ScreenAgrees, ArrivalsInOrder, PTL
=============================================================================

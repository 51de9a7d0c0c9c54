------------------------------ MODULE History ------------------------------
(***************************************************************************)
(* What a client can step through: the complete frames of one source, the  *)
(* sweep in progress after them, and which of them is on screen (struct    *)
(* Timeline in main.rs).  The Vec<Entry> the code keeps sorted by start_ms *)
(* is the set of its frames here; a frame is named by its source and the   *)
(* time its scan began, which is what its id is made of.  Module Timeline  *)
(* keeps the Vec and its index arithmetic and is proved to implement the   *)
(* operators below.                                                        *)
(***************************************************************************)
EXTENDS Integers, FiniteSets

CONSTANTS
    Sources,     \* everything that can be selected
    MaxTime,     \* bound on the clock: scans begin in 1..MaxTime
    NoFrame      \* "no frame": no partial, no pin, no captured loop start

ASSUME MaxTimeIsPositive == MaxTime \in Nat \ {0}

Times == 1..MaxTime

Frame == [src : Sources, t : Times]

ASSUME NoFrameIsNoFrame == NoFrame \notin [src : Sources, t : 0..MaxTime]

\* `shown` is the frame the user stepped or sought to; NoFrame follows the newest.
Histories ==
    [stored : SUBSET Frame,
     partial : Frame \cup {NoFrame},
     shown : Frame \cup {NoFrame},
     loopStart : Frame \cup {NoFrame}]

EarliestOf(S) == CHOOSE f \in S : \A g \in S : f.t <= g.t
LatestOf(S) == CHOOSE f \in S : \A g \in S : g.t <= f.t

\* The newest n of S: what draining the excess from the front of the Vec leaves.
NewestOf(S, n) == {f \in S : Cardinality({g \in S : g.t > f.t}) < n}

NewHistory(frames) ==
    [stored |-> frames, partial |-> NoFrame, shown |-> NoFrame, loopStart |-> NoFrame]

Following(h) == h.shown = NoFrame

Listed(h) == h.stored \cup ({h.partial} \ {NoFrame})

\* What a client can land on: a complete frame, or the sweep in progress, which
\* stays an entry of its own when a complete frame carries the same id.
Entries(h) ==
    [frame : h.stored, painting : {FALSE}]
        \cup [frame : {h.partial} \ {NoFrame}, painting : {TRUE}]

\* The entry on screen as far as the history knows; {} when there is none.
Position(h) ==
    IF ~Following(h)
    THEN {e \in Entries(h) : e.frame = h.shown /\ (e.painting => h.shown \notin h.stored)}
    ELSE IF h.partial # NoFrame THEN {e \in Entries(h) : e.painting}
    ELSE {e \in Entries(h) : e.frame = LatestOf(h.stored)}

\* Landing on the last entry follows again.
IsLast(h, e) == e.painting \/ (h.partial = NoFrame /\ e.frame = LatestOf(h.stored))
Pin(h, e) == [h EXCEPT !.shown = IF IsLast(h, e) THEN NoFrame ELSE e.frame]

\* Keep the identity of the selected complete frame; the last complete frame
\* or a partial sweep starts a complete-history loop instead.
StartPlayback(h) ==
    LET starts == {e \in Position(h) : ~e.painting /\ e.frame # LatestOf(h.stored)} IN
    [h EXCEPT !.loopStart = IF starts = {} THEN NoFrame
                            ELSE (CHOOSE e \in starts : TRUE).frame]

\* Mutant: playback stays on the last frame.
NextAndStop(h) ==
    LET from == {e.frame : e \in Position(h)}
        later == {g \in h.stored : \E f \in from : g.t > f.t}
    IN  IF later # {} THEN EarliestOf(later) ELSE LatestOf(h.stored)

\* The frame a playback tick moves to: the next complete one, and after the
\* last (or from the sweep in progress) the captured start, or the oldest.  A
\* pin that is not listed counts as the oldest.
NextInLoop(h) ==
    LET from == IF Position(h) = {} THEN {EarliestOf(h.stored)}
                ELSE {e.frame : e \in {p \in Position(h) : ~p.painting}}
        later == {g \in h.stored : \E f \in from : g.t > f.t}
    IN  IF later # {} THEN EarliestOf(later)
        ELSE IF h.loopStart \in h.stored THEN h.loopStart
        ELSE EarliestOf(h.stored)

\* Mutant: a pin outlives its frame.
PinStays(h) == h

\* After frames left: a pin on one of them moves to the oldest.
Repin(h) ==
    IF Following(h) \/ h.shown \in Listed(h) THEN h
    ELSE [h EXCEPT !.shown = IF h.stored = {} THEN NoFrame ELSE EarliestOf(h.stored)]

Begin(h, f) == [h EXCEPT !.partial = f]

\* A complete frame takes its place in time order; the ring drops the oldest.
Insert(h, f, ring) == Repin([h EXCEPT !.stored = NewestOf(@ \cup {f}, ring)])

Complete(h, f, ring) == Insert([h EXCEPT !.partial = NoFrame], f, ring)

Since(S, cutoff) == {f \in S : f.t >= cutoff}

Expire(h, cutoff) == Repin([h EXCEPT !.stored = Since(@, cutoff)])

\* HistoryPolicy::contains: within the window that ends at the newest.
InWindow(t, newest, window) == t <= newest /\ t > newest - window
Within(S, newest, window) == {f \in S : InWindow(f.t, newest, window)}

RetainHistory(h, newest, window, max) ==
    Repin([h EXCEPT !.stored = NewestOf(Within(@, newest, window), max)])

\* insert, expire and retain_history answer whether the pin had to move.
Repinned(before, after) == before.shown # after.shown
=============================================================================

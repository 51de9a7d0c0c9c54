---------------------------- MODULE HistorySpec ----------------------------
(***************************************************************************)
(* What the session needs of its timeline, whatever holds it: a history of *)
(* one source as a state machine over the operators of History.  `call` is *)
(* the operation last called, with its argument, and `landed` what it asks *)
(* the session to put on screen: the entry moved to, {} when nothing       *)
(* moved.  Module Timeline implements it.                                  *)
(***************************************************************************)
EXTENDS History

CONSTANTS Ring, Window, MaxFrames

VARIABLES h, landed, call

Init ==
    /\ h \in {NewHistory(S) : S \in {T \in SUBSET Frame : Cardinality(T) <= Ring}}
    /\ landed = {}
    /\ call = <<"new", 0>>

-----------------------------------------------------------------------------
\* A pin on a frame that left moved to the oldest entry.
Shows(before, after) ==
    landed' = IF ~Repinned(before, after) THEN {}
              ELSE {e \in Entries(after) : IF after.stored = {} THEN e.painting
                        ELSE ~e.painting /\ e.frame = EarliestOf(after.stored)}

Grows(f) == call' = <<"begin", f>> /\ h' = Begin(h, f) /\ landed' = {}
Completes(f) == call' = <<"complete", f>> /\ h' = Complete(h, f, Ring) /\ Shows(h, h')
Joins(f) == call' = <<"insert", f>> /\ h' = Insert(h, f, Ring) /\ Shows(h, h')
Expires(cutoff) == call' = <<"expire", cutoff>> /\ h' = Expire(h, cutoff) /\ Shows(h, h')
Retains(newest) ==
    /\ call' = <<"retain", newest>>
    /\ h' = RetainHistory(h, newest, Window, MaxFrames)
    /\ Shows(h, h')

LandsOn(e) == h' = Pin(h, e) /\ landed' = {e} \ Position(h)

\* How many entries come before e.
Rank(e) ==
    Cardinality({d \in Entries(h) : ~d.painting /\ (e.painting \/ d.frame.t < e.frame.t)})

Nearest(rank) ==
    LET last == Cardinality(Entries(h)) - 1
    IN  IF rank < 0 THEN 0 ELSE IF rank > last THEN last ELSE rank

\* delta entries on from the position, stopping at the ends.
Steps(delta) ==
    /\ call' = <<"step", delta>>
    /\ \E from \in Position(h), e \in Entries(h) :
        Rank(e) = Nearest(Rank(from) + delta) /\ LandsOn(e)

\* The complete frame of that id, else the sweep in progress.
Seeks(f) ==
    /\ call' = <<"seek", f>>
    /\ \E e \in Entries(h) :
        /\ e.frame = f
        /\ e.painting => f \notin h.stored
        /\ LandsOn(e)

Plays == call' = <<"play", 0>> /\ h' = StartPlayback(h) /\ landed' = {}

Ticks ==
    /\ call' = <<"advance", 0>>
    /\ Cardinality(h.stored) >= 2
    /\ LandsOn([frame |-> NextInLoop(h), painting |-> FALSE])

Next ==
    \/ \E f \in Frame : Grows(f) \/ Completes(f) \/ Joins(f) \/ Seeks(f)
    \/ \E t \in Times : Expires(t) \/ Retains(t)
    \/ \E delta \in -MaxTime..MaxTime : Steps(delta)
    \/ Plays
    \/ Ticks

Spec == Init /\ [][Next]_<<h, landed, call>>
=============================================================================

------------------------------ MODULE Timeline ------------------------------
(***************************************************************************)
(* struct Timeline of main.rs with its Vec, its indices and its early      *)
(* returns: `stored` is kept sorted by start_ms, the sweep in progress     *)
(* takes the index after the last, and the frame on screen is remembered   *)
(* by id.  Indices are 1-based here, and None is the index 0.  An entry is *)
(* the time its scan began; with the one source of the history it is the   *)
(* entry's id.                                                             *)
(***************************************************************************)
EXTENDS Integers, FiniteSets, SequencesExt, Ordering

CONSTANTS
    Source,      \* the selected source
    MaxTime,     \* bound on the clock
    NoFrame,     \* Option::None of an entry
    Ring,        \* catalog::RING
    Window,      \* HistoryPolicy.window_ms
    MaxFrames    \* HistoryPolicy.max_frames

ASSUME TimelineBounds == /\ MaxTime \in Nat /\ Ring \in Nat \ {0}
                         /\ Window \in Nat \ {0} /\ MaxFrames \in Nat \ {0}
                         /\ NoFrame \notin [src : {Source}, t : 0..MaxTime]

Times == 1..MaxTime
Ids == [src : {Source}, t : Times]

VARIABLES
    stored, partial, shown, loopStart,
    landed,      \* what the last operation asks the session to show
    call         \* that operation, with its argument

timeline == <<stored, partial, shown, loopStart>>
vars == <<stored, partial, shown, loopStart, landed, call>>

\* Timeline::new on what Catalog::list or an adapter returns, oldest first.
Init ==
    /\ \E T \in SUBSET Times :
        /\ Cardinality(T) <= Ring
        /\ stored = Retain([t \in Times |-> [src |-> Source, t |-> t]], T)
    /\ partial = NoFrame /\ shown = NoFrame /\ loopStart = NoFrame
    /\ landed = {}
    /\ call = <<"new", 0>>

-----------------------------------------------------------------------------
(* Indices *)

Length(s, p) == Len(s) + (IF p = NoFrame THEN 0 ELSE 1)

\* The index of an id: among the stored entries first, then the sweep's.
IndexOf(id, s, p) ==
    IF \E i \in 1..Len(s) : s[i] = id THEN CHOOSE i \in 1..Len(s) : s[i] = id
    ELSE IF p # NoFrame /\ p = id THEN Len(s) + 1
    ELSE 0

IdAt(index) == IF index <= Len(stored) THEN stored[index] ELSE partial

\* The entry show_position will show for an index.
EntryAt(index, s, p) ==
    IF index <= Len(s) THEN [frame |-> s[index], painting |-> FALSE]
    ELSE [frame |-> p, painting |-> TRUE]

Position == IF shown = NoFrame THEN Length(stored, partial) ELSE IndexOf(shown, stored, partial)

\* pin: remember the id, or follow when the index is the last; the index is
\* to be shown when it is not the one that was.
Pin(index) ==
    /\ shown' = IF index = Length(stored, partial) THEN NoFrame ELSE IdAt(index)
    /\ landed' = IF Position = index THEN {} ELSE {EntryAt(index, stored, partial)}

Clamp(n, low, high) == IF n < low THEN low ELSE IF n > high THEN high ELSE n

-----------------------------------------------------------------------------
(* Commands and playback *)

Step(delta) ==
    /\ call' = <<"step", delta>>
    /\ Position # 0
    /\ Pin(Clamp(Position + delta, 1, Length(stored, partial)))
    /\ UNCHANGED <<stored, partial, loopStart>>

Seek(id) ==
    /\ call' = <<"seek", id>>
    /\ IndexOf(id, stored, partial) # 0
    /\ Pin(IndexOf(id, stored, partial))
    /\ UNCHANGED <<stored, partial, loopStart>>

\* start_playback: only a stored entry before the last one is remembered.
Play ==
    /\ call' = <<"play", 0>>
    /\ loopStart' = IF Position # 0 /\ Position < Len(stored) THEN stored[Position] ELSE NoFrame
    /\ landed' = {}
    /\ UNCHANGED <<stored, partial, shown>>

\* Mutant: every loop starts at the oldest frame.
LoopFromOldest == 1

LoopIndex == IF IndexOf(loopStart, stored, NoFrame) = 0 THEN 1
             ELSE IndexOf(loopStart, stored, NoFrame)

Advance ==
    /\ call' = <<"advance", 0>>
    /\ Len(stored) >= 2
    /\ LET from == IF Position = 0 THEN 1 ELSE Position IN
       Pin(IF from >= Len(stored) THEN LoopIndex ELSE from + 1)
    /\ UNCHANGED <<stored, partial, loopStart>>

-----------------------------------------------------------------------------
(* Arrivals and retention *)

\* partition_point over start_ms, on a sorted Vec.
PartitionPoint(s, t) == Cardinality({i \in 1..Len(s) : s[i].t <= t})

DrainFront(s, keep) == SubSeq(s, (IF Len(s) > keep THEN Len(s) - keep ELSE 0) + 1, Len(s))

\* repin, once `stored` and `partial` are s and p; when the pin moved the
\* session shows index 0 of the code.
Repin(s, p) ==
    IF shown # NoFrame /\ IndexOf(shown, s, p) = 0
    THEN /\ shown' = IF s = <<>> THEN NoFrame ELSE s[1]
         /\ landed' = IF Length(s, p) = 0 THEN {} ELSE {EntryAt(1, s, p)}
    ELSE shown' = shown /\ landed' = {}

Inserted(f) ==
    LET others == Retain(stored, {i \in 1..Len(stored) : stored[i] # f})
    IN  DrainFront(InsertAt(others, PartitionPoint(others, f.t) + 1, f), Ring)

Insert(f) ==
    /\ call' = <<"insert", f>>
    /\ stored' = Inserted(f)
    /\ Repin(stored', partial)
    /\ UNCHANGED <<partial, loopStart>>

Complete(f) ==
    /\ call' = <<"complete", f>>
    /\ partial' = NoFrame
    /\ stored' = Inserted(f)
    /\ Repin(stored', NoFrame)
    /\ UNCHANGED loopStart

Begin(f) ==
    /\ call' = <<"begin", f>>
    /\ partial' = f
    /\ landed' = {}
    /\ UNCHANGED <<stored, shown, loopStart>>

Expire(cutoff) ==
    /\ call' = <<"expire", cutoff>>
    /\ stored' = Retain(stored, {i \in 1..Len(stored) : stored[i].t >= cutoff})
    /\ Repin(stored', partial)
    /\ UNCHANGED <<partial, loopStart>>

\* HistoryPolicy::contains
WithinWindow(t, newest) == t <= newest /\ newest - t < Window

RetainHistory(newest) ==
    /\ call' = <<"retain", newest>>
    /\ LET within == {i \in 1..Len(stored) : WithinWindow(stored[i].t, newest)}
       IN  stored' = DrainFront(Retain(stored, within), MaxFrames)
    /\ Repin(stored', partial)
    /\ UNCHANGED <<partial, loopStart>>

Next ==
    \/ \E delta \in -MaxTime..MaxTime : Step(delta)
    \/ \E f \in Ids : Seek(f)
    \/ Play
    \/ Advance
    \/ \E f \in Ids : Begin(f)
    \/ \E f \in Ids : Complete(f)
    \/ \E f \in Ids : Insert(f)
    \/ \E t \in Times : Expire(t)
    \/ \E t \in Times : RetainHistory(t)

Spec == Init /\ [][Next]_vars

-----------------------------------------------------------------------------
\* The Vec and its indices keep what the session is promised of a history: a
\* tick, a step or a repin lands on the frame that the set of listed frames
\* says it does, whatever was inserted or dropped in between.
Promised ==
    INSTANCE HistorySpec
        WITH Sources <- {Source},
             h <- [stored |-> ToSet(stored), partial |-> partial, shown |-> shown,
                   loopStart |-> loopStart]

ImplementsHistory == Promised!Spec
=============================================================================

---------------------------- MODULE EngineProofs ----------------------------
(***************************************************************************)
(* The session's inductive invariant, for any set of sources, any bounds,  *)
(* any commands and whatever fails on disk: types, a pin that is listed,   *)
(* a texture for the sweep in progress, one source on screen and in the    *)
(* timeline, no lock without a selection, no playback without a wake;      *)
(* after what the operators of History return, on which all of it rests.   *)
(***************************************************************************)
EXTENDS Engine, FiniteSetTheorems, WellFoundedInduction, TLAPS

-----------------------------------------------------------------------------
(* What the operators of History return, for every history of the right type *)

USE MaxTimeIsPositive


\* Every nonempty set of naturals has a least element.
LEMMA LeastNatural ==
    ASSUME NEW S \in SUBSET Nat, S # {}
    PROVE  \E n \in S : \A m \in S : n <= m
<1> DEFINE R == OpToRel(<, Nat)
<1>1. IsWellFoundedOn(R, Nat)
    BY NatLessThanWellFounded
<1>2. \A x, y \in Nat : x < y => <<x, y>> \in R
    BY DEF OpToRel
<1> HIDE DEF R
<1>3. PICK n \in S : \A m \in S : ~ (<<m, n>> \in R)
    BY <1>1, WFMin
<1>4. \A m \in S : ~ (m < n)
    BY <1>2, <1>3
<1> QED BY <1>4

\* The first entry of a nonempty Vec is one of them, and none is earlier
\* (Timeline::repin).
LEMMA EarliestIn ==
    ASSUME NEW S \in SUBSET Frame, S # {}
    PROVE  EarliestOf(S) \in S /\ \A g \in S : EarliestOf(S).t <= g.t
<1> DEFINE T == {f.t : f \in S}
<1>1. T \in SUBSET Nat /\ T # {}
    BY DEF Frame, Times
<1>2. PICK n \in T : \A m \in T : n <= m
    BY <1>1, LeastNatural
<1>3. \E f \in S : \A g \in S : f.t <= g.t
    BY <1>2
<1> QED BY <1>3 DEF EarliestOf

\* The last entry of a nonempty Vec is one of them, and none is later
\* (select_site shows it).
LEMMA LatestIn ==
    ASSUME NEW S \in SUBSET Frame, S # {}
    PROVE  LatestOf(S) \in S /\ \A g \in S : g.t <= LatestOf(S).t
<1> DEFINE T == {MaxTime - f.t : f \in S}
<1>1. T \in SUBSET Nat /\ T # {}
    BY DEF Frame, Times
<1>2. PICK n \in T : \A m \in T : n <= m
    BY <1>1, LeastNatural
<1>3. PICK f \in S : n = MaxTime - f.t
    BY <1>2
<1>4. \A g \in S : g.t <= f.t
    <2> TAKE g \in S
    <2>1. MaxTime - f.t <= MaxTime - g.t
        BY <1>2, <1>3
    <2>2. f.t \in Int /\ g.t \in Int
        BY DEF Frame, Times
    <2> QED BY <2>1, <2>2
<1> QED BY <1>4 DEF LatestOf

-----------------------------------------------------------------------------
(* The newest n frames of one source: what the ring, the catalog and the   *)
(* retention policy keep.                                                  *)

OfOneSource(S, s) == S \subseteq Frame /\ \A f \in S : f.src = s

\* The clock is bounded, so a source has finitely many frames.
LEMMA SourceFinite ==
    ASSUME NEW s, NEW S, OfOneSource(S, s)
    PROVE  IsFiniteSet(S)
<1> DEFINE named == [t \in Times |-> [src |-> s, t |-> t]]
           all == {named[t] : t \in Times}
<1>1. IsFiniteSet(Times)
    BY FS_Interval DEF Times
<1>2. named \in Surjection(Times, all)
    BY DEF Surjection
<1>3. IsFiniteSet(all)
    BY <1>1, <1>2, FS_Surjection
<1>4. S \subseteq all
    <2> SUFFICES ASSUME NEW f \in S PROVE f \in all
        OBVIOUS
    <2>1. f \in [src : Sources, t : Times] /\ f.src = s
        BY DEF OfOneSource, Frame
    <2>2. f = named[f.t] /\ f.t \in Times
        BY <2>1
    <2> QED BY <2>2
<1> QED BY <1>3, <1>4, FS_Subset

\* A frame is known by its source and its time.
LEMMA SameTime ==
    ASSUME NEW s, NEW S, OfOneSource(S, s), NEW f \in S, NEW g \in S, f.t = g.t
    PROVE  f = g
BY DEF OfOneSource, Frame

\* How many are newer than a time, in a part of a set of frames and in all of it.
LEMMA FewerNewer ==
    ASSUME NEW S, IsFiniteSet(S), NEW T \in SUBSET S, NEW t
    PROVE  /\ IsFiniteSet({g \in S : g.t > t})
           /\ Cardinality({g \in T : g.t > t}) \in Nat
           /\ Cardinality({g \in S : g.t > t}) \in Nat
           /\ Cardinality({g \in T : g.t > t}) <= Cardinality({g \in S : g.t > t})
<1> DEFINE inS == {g \in S : g.t > t}
           inT == {g \in T : g.t > t}
<1>1. inS \in SUBSET S /\ inT \in SUBSET inS
    OBVIOUS
<1>2. IsFiniteSet(inS)
    BY <1>1, FS_Subset
<1> HIDE DEF inS, inT
<1>3. IsFiniteSet(inT) /\ Cardinality(inT) <= Cardinality(inS)
    BY <1>1, <1>2, FS_Subset
<1>4. Cardinality(inS) \in Nat /\ Cardinality(inT) \in Nat
    BY <1>2, <1>3, FS_CardinalityType
<1> QED BY <1>2, <1>3, <1>4 DEF inS, inT

\* n frames newer than a time leave n such frames among the newest n: those
\* that are dropped are older than all that stay.
LEMMA NewestKeepsNewer ==
    ASSUME NEW s, NEW S, OfOneSource(S, s), NEW n \in Nat, NEW t \in Int,
           Cardinality({g \in S : g.t > t}) >= n
    PROVE  Cardinality({g \in NewestOf(S, n) : g.t > t}) >= n
<1> DEFINE Z == {g \in S : g.t > t}
           kept == {g \in NewestOf(S, n) : g.t > t}
           gone == Z \ kept
<1>0. IsFiniteSet(S) /\ S \subseteq Frame
    BY SourceFinite DEF OfOneSource
<1>1. CASE gone = {}
    <2>1. kept = Z
        BY <1>1 DEF NewestOf
    <2> QED BY <2>1
<1>2. CASE gone # {}
    <2>1. gone \in SUBSET Frame
        BY <1>0
    <2> DEFINE f == LatestOf(gone)
               newer == {g \in S : g.t > f.t}
    <2>2. f \in gone /\ \A g \in gone : g.t <= f.t
        BY <1>2, <2>1, LatestIn
    <2>3. f \in S /\ f.t \in Int /\ f.t > t /\ ~(Cardinality(newer) < n)
        BY <1>0, <2>2 DEF NewestOf, Frame, Times
    <2>4. newer \subseteq kept
        <3> SUFFICES ASSUME NEW g \in newer PROVE g \in kept
            OBVIOUS
        <3>1. g \in S /\ g.t > f.t /\ g.t \in Int
            BY <1>0 DEF Frame, Times
        <3>2. g \in Z
            BY <2>3, <3>1
        <3>3. g \notin gone
            BY <2>2, <2>3, <3>1
        <3> QED BY <3>2, <3>3
    <2>5. IsFiniteSet(kept) /\ IsFiniteSet(newer)
        <3>1. kept \in SUBSET S /\ newer \in SUBSET S
            BY DEF NewestOf
        <3> QED BY <1>0, <3>1, FS_Subset
    <2> HIDE DEF f, newer, kept
    <2>6. Cardinality(newer) <= Cardinality(kept)
        BY <2>4, <2>5, FS_Subset
    <2>7. Cardinality(newer) \in Nat /\ Cardinality(kept) \in Nat
        BY <2>5, FS_CardinalityType
    <2>8. Cardinality(kept) >= n
        BY <2>3, <2>6, <2>7
    <2> QED BY <2>8 DEF kept
<1> QED BY <1>1, <1>2

\* What was trimmed once is not trimmed further: between the newest n and all
\* there are the same newest n.
LEMMA NewestAbsorbs ==
    ASSUME NEW s, NEW S, OfOneSource(S, s), NEW n \in Nat,
           NEW T \in SUBSET S, NewestOf(S, n) \subseteq T
    PROVE  NewestOf(T, n) = NewestOf(S, n)
<1>0. IsFiniteSet(S)
    BY SourceFinite
<1>1. ASSUME NEW f \in NewestOf(S, n) PROVE f \in NewestOf(T, n)
    <2>1. /\ Cardinality({g \in T : g.t > f.t}) \in Nat
          /\ Cardinality({g \in S : g.t > f.t}) \in Nat
          /\ Cardinality({g \in T : g.t > f.t}) <= Cardinality({g \in S : g.t > f.t})
        BY <1>0, FewerNewer
    <2>2. f \in T /\ Cardinality({g \in S : g.t > f.t}) < n
        BY <1>1 DEF NewestOf
    <2> QED BY <2>1, <2>2 DEF NewestOf
<1>2. ASSUME NEW f \in NewestOf(T, n), f \notin NewestOf(S, n) PROVE FALSE
    <2> DEFINE inN == {g \in NewestOf(S, n) : g.t > f.t}
               inT == {g \in T : g.t > f.t}
               inS == {g \in S : g.t > f.t}
    <2>1. f \in S /\ f.t \in Int /\ Cardinality(inT) < n /\ ~(Cardinality(inS) < n)
        BY <1>2 DEF NewestOf, OfOneSource, Frame, Times
    <2>2. IsFiniteSet(T)
        BY <1>0, FS_Subset
    <2>3. /\ Cardinality(inN) \in Nat /\ Cardinality(inT) \in Nat
          /\ Cardinality(inN) <= Cardinality(inT)
        BY <2>2, FewerNewer
    <2>4. Cardinality(inS) \in Nat
        BY <1>0, FewerNewer
    <2>5. Cardinality(inN) >= n
        BY <2>1, <2>4, NewestKeepsNewer
    <2> QED BY <2>1, <2>3, <2>5
<1> QED BY <1>1, <1>2

\* The cutoff of expiry and the limit of the ring commute.
LEMMA NewestSince ==
    ASSUME NEW S \in SUBSET Frame, NEW n, NEW cutoff \in Int
    PROVE  Since(NewestOf(S, n), cutoff) = NewestOf(Since(S, cutoff), n)
<1> USE DEF Since
<1> DEFINE since == {f \in S : f.t >= cutoff}
<1>1. ASSUME NEW f \in since
      PROVE  {g \in S : g.t > f.t} = {g \in since : g.t > f.t}
    <2>1. f.t \in Int /\ f.t >= cutoff /\ \A g \in S : g.t \in Int
        BY DEF Frame, Times
    <2> QED BY <2>1
<1>2. \A f \in since : f \in NewestOf(S, n) <=> f \in NewestOf(since, n)
    BY <1>1 DEF NewestOf
<1> QED BY <1>2 DEF NewestOf

\* A limit that has been kept already changes nothing.
LEMMA NewestTwice ==
    ASSUME NEW s, NEW S, OfOneSource(S, s), NEW n \in Nat
    PROVE  NewestOf(NewestOf(S, n), n) = NewestOf(S, n)
<1>1. NewestOf(S, n) \in SUBSET S
    BY DEF NewestOf
<1> QED BY <1>1, NewestAbsorbs

\* Nor does it when frames that were there join once more.
LEMMA NewestRejoins ==
    ASSUME NEW s, NEW S, OfOneSource(S, s), NEW X, X \subseteq S, NEW n \in Nat
    PROVE  NewestOf(NewestOf(S, n) \cup X, n) = NewestOf(S, n)
<1> DEFINE T == NewestOf(S, n) \cup X
<1>1. T \in SUBSET S /\ NewestOf(S, n) \subseteq T
    BY DEF NewestOf
<1> QED BY <1>1, NewestAbsorbs

\* What is inside a window is taken frame by frame, and a later cutoff is stricter.
LEMMA SinceGives ==
    ASSUME NEW S \in SUBSET Frame, NEW X \in SUBSET Frame,
           NEW cutoff \in Int, NEW later \in Int, cutoff <= later
    PROVE  /\ Since(S \cup X, cutoff) = Since(S, cutoff) \cup Since(X, cutoff)
           /\ Since(Since(S, cutoff), later) = Since(S, later)
           /\ Since(S, cutoff) \subseteq S
<1>1. \A f \in S : f.t \in Int
    BY DEF Frame, Times
<1>2. \A f \in S : f.t >= later => f.t >= cutoff
    BY <1>1
<1>3. Since(Since(S, cutoff), later) = Since(S, later)
    BY <1>2 DEF Since
<1>4. Since(S \cup X, cutoff) = Since(S, cutoff) \cup Since(X, cutoff)
    BY DEF Since
<1> QED BY <1>3, <1>4 DEF Since

\* The newest frame stays, whatever the limit.
LEMMA LatestStays ==
    ASSUME NEW s, NEW S, OfOneSource(S, s), S # {}, NEW n \in Nat \ {0}
    PROVE  LatestOf(S) \in NewestOf(S, n)
<1>1. LatestOf(S) \in S /\ \A g \in S : g.t <= LatestOf(S).t
    BY LatestIn DEF OfOneSource
<1>2. \A g \in S : g.t \in Int
    BY DEF OfOneSource, Frame, Times
<1>3. {g \in S : g.t > LatestOf(S).t} = {}
    BY <1>1, <1>2
<1>4. Cardinality({g \in S : g.t > LatestOf(S).t}) = 0
    BY <1>3, FS_EmptySet
<1> QED BY <1>1, <1>4 DEF NewestOf

-----------------------------------------------------------------------------
(* What every operator keeps: a typed history of one source whose pin names *)
(* a complete frame unless a sweep paints.                                  *)

Pinned(h) == (h.shown # NoFrame /\ h.partial = NoFrame) => h.shown \in h.stored

FromSource(h, s) == \A f \in Listed(h) : f.src = s

Sound(h, s) == h \in Histories /\ Pinned(h) /\ FromSource(h, s)

\* NoFrame is no frame, not even a placeholder.
LEMMA NoFrameNotIn == NoFrame \notin Frame
BY NoFrameIsNoFrame DEF Frame, Times

\* Timeline::new
LEMMA NewSound ==
    ASSUME NEW s, NEW S \in SUBSET Frame, \A f \in S : f.src = s
    PROVE  Sound(NewHistory(S), s)
BY DEF Sound, NewHistory, Histories, Pinned, FromSource, Listed

\* Timeline::begin
LEMMA BeginSound ==
    ASSUME NEW s, NEW h, Sound(h, s), NEW f \in Frame, f.src = s
    PROVE  Sound(Begin(h, f), s)
BY NoFrameNotIn DEF Sound, Begin, Histories, Pinned, FromSource, Listed

\* Timeline::repin puts a dangling pin right and touches nothing else.
LEMMA RepinSound ==
    ASSUME NEW s, NEW h \in Histories, FromSource(h, s)
    PROVE  /\ Sound(Repin(h), s)
           /\ Repin(h).partial = h.partial
           /\ Repin(h).stored = h.stored
<1>1. CASE Following(h) \/ h.shown \in Listed(h)
    BY <1>1 DEF Repin, Sound, Pinned, Following, Listed
<1>2. CASE ~Following(h) /\ h.shown \notin Listed(h)
    <2> DEFINE pin == IF h.stored = {} THEN NoFrame ELSE EarliestOf(h.stored)
    <2>1. h.stored \in SUBSET Frame
        BY DEF Histories
    <2>2. pin \in h.stored \cup {NoFrame}
        BY <2>1, EarliestIn
    <2> HIDE DEF pin
    <2>3. Repin(h) = [h EXCEPT !.shown = pin]
        BY <1>2 DEF Repin, pin
    <2>4. pin \in Frame \cup {NoFrame}
        BY <2>1, <2>2
    <2> QED BY <2>2, <2>3, <2>4 DEF Sound, Histories, Pinned, FromSource, Listed
<1> QED BY <1>1, <1>2

\* Timeline::insert, complete, expire and retain_history end with repin on a
\* stored set of the same source.
LEMMA InsertSound ==
    ASSUME NEW s, NEW h, Sound(h, s), NEW f \in Frame, f.src = s, NEW ring
    PROVE  Sound(Insert(h, f, ring), s) /\ Insert(h, f, ring).partial = h.partial
<1> DEFINE k == [h EXCEPT !.stored = NewestOf(@ \cup {f}, ring)]
<1>1. k \in Histories /\ FromSource(k, s) /\ k.partial = h.partial
    BY DEF Sound, Histories, FromSource, Listed, NewestOf
<1> HIDE DEF k
<1>2. Insert(h, f, ring) = Repin(k)
    BY DEF Insert, k
<1> QED BY <1>1, <1>2, RepinSound

\* Completing a frame keeps a history sound and ends its partial frame.
LEMMA CompleteSound ==
    ASSUME NEW s, NEW h, Sound(h, s), NEW f \in Frame, f.src = s, NEW ring
    PROVE  Sound(Complete(h, f, ring), s) /\ Complete(h, f, ring).partial = NoFrame
<1> DEFINE k == [h EXCEPT !.partial = NoFrame, !.stored = NewestOf(@ \cup {f}, ring)]
<1>1. k \in Histories /\ FromSource(k, s) /\ k.partial = NoFrame
    BY DEF Sound, Histories, FromSource, Listed, NewestOf
<1>2. Complete(h, f, ring) = Repin(k)
    BY DEF Complete, Insert, Sound, Histories
<1> HIDE DEF k
<1> QED BY <1>1, <1>2, RepinSound

\* Expiring old frames keeps a history sound and its partial frame as it was.
LEMMA ExpireSound ==
    ASSUME NEW s, NEW h, Sound(h, s), NEW cutoff
    PROVE  Sound(Expire(h, cutoff), s) /\ Expire(h, cutoff).partial = h.partial
<1> DEFINE k == [h EXCEPT !.stored = Since(@, cutoff)]
<1>1. k \in Histories /\ FromSource(k, s) /\ k.partial = h.partial
    BY DEF Sound, Histories, FromSource, Listed, Since
<1> HIDE DEF k
<1>2. Expire(h, cutoff) = Repin(k)
    BY DEF Expire, k
<1> QED BY <1>1, <1>2, RepinSound

\* Trimming a history to its window and length keeps it sound and its partial frame as it was.
LEMMA RetainSound ==
    ASSUME NEW s, NEW h, Sound(h, s), NEW newest, NEW window, NEW max
    PROVE  /\ Sound(RetainHistory(h, newest, window, max), s)
           /\ RetainHistory(h, newest, window, max).partial = h.partial
<1> DEFINE k == [h EXCEPT !.stored = NewestOf(Within(@, newest, window), max)]
<1>1. k \in Histories /\ FromSource(k, s) /\ k.partial = h.partial
    BY DEF Sound, Histories, FromSource, Listed, NewestOf, Within
<1> HIDE DEF k
<1>2. RetainHistory(h, newest, window, max) = Repin(k)
    BY DEF RetainHistory, k
<1> QED BY <1>1, <1>2, RepinSound

\* An entry is a listed frame; the one that paints is the partial.
LEMMA EntryIn ==
    ASSUME NEW h \in Histories, NEW e \in Entries(h)
    PROVE  /\ e.frame \in Listed(h) /\ e.frame \in Frame /\ e.painting \in BOOLEAN
           /\ ~e.painting => e.frame \in h.stored
           /\ e.painting => (e.frame = h.partial /\ h.partial # NoFrame)
BY DEF Histories, Entries, Listed

\* Timeline::pin
LEMMA PinSound ==
    ASSUME NEW s, NEW h, Sound(h, s), NEW e \in Entries(h)
    PROVE  Sound(Pin(h, e), s) /\ Pin(h, e).partial = h.partial
<1> DEFINE pin == IF IsLast(h, e) THEN NoFrame ELSE e.frame
<1>1. pin \in Frame \cup {NoFrame} /\ (pin # NoFrame /\ h.partial = NoFrame => pin \in h.stored)
    BY EntryIn DEF Sound
<1> HIDE DEF pin
<1>2. Pin(h, e) = [h EXCEPT !.shown = pin]
    BY DEF Pin, pin
<1> QED BY <1>1, <1>2 DEF Sound, Histories, Pinned, FromSource, Listed

\* Timeline::start_playback
LEMMA StartPlaybackSound ==
    ASSUME NEW s, NEW h, Sound(h, s)
    PROVE  Sound(StartPlayback(h), s) /\ StartPlayback(h).partial = h.partial
<1> DEFINE starts == {e \in Position(h) : ~e.painting /\ e.frame # LatestOf(h.stored)}
           start == IF starts = {} THEN NoFrame ELSE (CHOOSE e \in starts : TRUE).frame
<1>1. Position(h) \subseteq Entries(h)
    BY DEF Position
<1>2. start \in Frame \cup {NoFrame}
    BY <1>1, EntryIn DEF Sound
<1> HIDE DEF start
<1>3. StartPlayback(h) = [h EXCEPT !.loopStart = start]
    BY DEF StartPlayback, start
<1> QED BY <1>2, <1>3 DEF Sound, Histories, Pinned, FromSource, Listed

\* Timeline::advance lands on a complete frame.
LEMMA NextInLoopIn ==
    ASSUME NEW h \in Histories, h.stored # {}
    PROVE  NextInLoop(h) \in h.stored
<1> DEFINE from == IF Position(h) = {} THEN {EarliestOf(h.stored)}
                   ELSE {e.frame : e \in {p \in Position(h) : ~p.painting}}
           later == {g \in h.stored : \E f \in from : g.t > f.t}
<1>1. h.stored \in SUBSET Frame /\ later \in SUBSET h.stored
    BY DEF Histories
<1>2. EarliestOf(h.stored) \in h.stored
    BY <1>1, EarliestIn
<1>3. later # {} => EarliestOf(later) \in h.stored
    BY <1>1, EarliestIn
<1>4. NextInLoop(h) = IF later # {} THEN EarliestOf(later)
                      ELSE IF h.loopStart \in h.stored THEN h.loopStart
                      ELSE EarliestOf(h.stored)
    BY DEF NextInLoop
<1> QED BY <1>2, <1>3, <1>4

-----------------------------------------------------------------------------
(* What an operator makes of the stored frames and of the pin.             *)

\* Timeline::repin: a pin that stays, or one that moved to the oldest.
LEMMA RepinGives ==
    ASSUME NEW h \in Histories
    PROVE  LET k == Repin(h) IN
           /\ k.stored = h.stored /\ k.partial = h.partial
           /\ \/ k.shown = h.shown /\ (h.shown # NoFrame => h.shown \in Listed(h))
              \/ /\ h.shown # NoFrame /\ h.shown \notin Listed(h)
                 /\ h.stored = {} /\ k.shown = NoFrame
              \/ /\ h.shown # NoFrame /\ h.shown \notin Listed(h)
                 /\ h.stored # {} /\ k.shown = EarliestOf(h.stored)
BY DEF Repin, Histories, Following, Listed

\* Timeline::insert drops what the ring has no room for; the newest stays, so
\* the pin is never lost.
LEMMA InsertGives ==
    ASSUME NEW s, NEW h, Sound(h, s), NEW f \in Frame, f.src = s, NEW ring \in Nat \ {0}
    PROVE  LET k == Insert(h, f, ring) IN
           /\ k.stored = NewestOf(h.stored \cup {f}, ring) /\ k.stored # {}
           /\ k.partial = h.partial
           /\ \/ k.shown = h.shown
              \/ /\ h.shown # NoFrame /\ h.shown \notin k.stored
                 /\ k.shown = EarliestOf(k.stored)
<1> DEFINE all == h.stored \cup {f}
           j == [h EXCEPT !.stored = NewestOf(all, ring)]
<1>1. OfOneSource(all, s) /\ all # {}
    BY DEF Sound, Histories, FromSource, Listed, OfOneSource
<1>2. NewestOf(all, ring) # {} /\ NewestOf(all, ring) \in SUBSET Frame
    BY <1>1, LatestStays DEF NewestOf, OfOneSource
<1> HIDE DEF all
<1>3. j \in Histories /\ j.stored = NewestOf(all, ring) /\ j.shown = h.shown /\ j.partial = h.partial
    BY <1>2 DEF Sound, Histories
<1> HIDE DEF j
<1>4. Insert(h, f, ring) = Repin(j)
    BY DEF Insert, j, all
<1>5. j.shown \notin Listed(j) => j.shown \notin j.stored
    BY DEF Listed
<1>6. Repin(j).stored = j.stored /\ Repin(j).partial = j.partial
    BY <1>3, RepinGives
<1>7. \/ Repin(j).shown = h.shown
      \/ h.shown # NoFrame /\ h.shown \notin j.stored /\ Repin(j).shown = EarliestOf(j.stored)
    BY <1>2, <1>3, <1>5, RepinGives
<1> QED BY <1>2, <1>3, <1>4, <1>6, <1>7 DEF all

\* The sweep in progress is left out of a history that completes.
LEMMA CompleteGives ==
    ASSUME NEW s, NEW h, Sound(h, s), NEW f \in Frame, f.src = s, NEW ring \in Nat \ {0}
    PROVE  LET k == Complete(h, f, ring) IN
           /\ k.stored = NewestOf(h.stored \cup {f}, ring) /\ k.stored # {}
           /\ k.partial = NoFrame
           /\ k.shown # NoFrame => k.shown \in k.stored
           /\ \/ k.shown = h.shown
              \/ /\ h.shown # NoFrame /\ h.shown \notin k.stored
                 /\ k.shown = EarliestOf(k.stored)
<1> DEFINE all == h.stored \cup {f}
           j == [h EXCEPT !.partial = NoFrame, !.stored = NewestOf(all, ring)]
<1>1. OfOneSource(all, s) /\ all # {}
    BY DEF Sound, Histories, FromSource, Listed, OfOneSource
<1>2. NewestOf(all, ring) # {} /\ NewestOf(all, ring) \in SUBSET Frame
    BY <1>1, LatestStays DEF NewestOf, OfOneSource
<1> HIDE DEF all
<1>3. /\ j \in Histories /\ j.stored = NewestOf(all, ring) /\ j.shown = h.shown
      /\ j.partial = NoFrame
    BY <1>2 DEF Sound, Histories
<1>4. Complete(h, f, ring) = Repin(j)
    BY DEF Complete, Insert, Sound, Histories, all
<1> HIDE DEF j
<1>5. Listed(j) = j.stored
    BY <1>3 DEF Listed
<1>6. Repin(j).stored = j.stored /\ Repin(j).partial = j.partial
    BY <1>3, RepinGives
<1>7. \/ Repin(j).shown = h.shown /\ (h.shown # NoFrame => h.shown \in j.stored)
      \/ h.shown # NoFrame /\ h.shown \notin j.stored /\ Repin(j).shown = EarliestOf(j.stored)
    BY <1>2, <1>3, <1>5, RepinGives
<1>8. EarliestOf(j.stored) \in j.stored
    BY <1>2, <1>3, EarliestIn
<1> QED BY <1>2, <1>3, <1>4, <1>6, <1>7, <1>8 DEF all

\* Frames leave and the pin is put right.
LeaveOnly(h, left) == Repin([h EXCEPT !.stored = left])

\* Timeline::complete, then frames past a cutoff or out of a window leave: the
\* pin is on a frame that is left, its own or the oldest.
LEMMA CompleteThenCut ==
    ASSUME NEW s, NEW h, Sound(h, s), NEW f \in Frame, f.src = s, NEW ring \in Nat \ {0},
           NEW left, left \subseteq NewestOf(h.stored \cup {f}, ring)
    PROVE  LET k == LeaveOnly(Complete(h, f, ring), left) IN
           /\ k.stored = left /\ k.partial = NoFrame
           /\ k.shown # NoFrame => k.shown \in left
           /\ \/ k.shown = h.shown
              \/ h.shown # NoFrame /\ h.shown \notin left /\ left = {} /\ k.shown = NoFrame
              \/ h.shown # NoFrame /\ h.shown \notin left /\ left # {} /\ k.shown = EarliestOf(left)
<1> DEFINE c == Complete(h, f, ring)
           j == [c EXCEPT !.stored = left]
<1>1. /\ c.stored = NewestOf(h.stored \cup {f}, ring) /\ c.stored # {} /\ c.partial = NoFrame
      /\ \/ c.shown = h.shown
         \/ h.shown # NoFrame /\ h.shown \notin c.stored /\ c.shown = EarliestOf(c.stored)
    BY CompleteGives
<1>2. c \in Histories /\ OfOneSource(c.stored, s)
    <2>1. Sound(c, s)
        BY CompleteSound
    <2> QED BY <2>1 DEF Sound, Histories, FromSource, Listed, OfOneSource
<1> HIDE DEF c
<1>3. left \subseteq c.stored
    BY <1>1
<1>4. left \in SUBSET Frame /\ OfOneSource(left, s) /\ c.stored \in SUBSET Frame
    BY <1>2, <1>3 DEF OfOneSource
<1>5. /\ j \in Histories /\ j.stored = left /\ j.shown = c.shown /\ j.partial = NoFrame
    BY <1>1, <1>2, <1>4 DEF Histories
<1> HIDE DEF j
<1>6. Listed(j) = left
    BY <1>5 DEF Listed
<1>7. /\ Repin(j).stored = left /\ Repin(j).partial = NoFrame
      /\ LeaveOnly(Complete(h, f, ring), left) = Repin(j)
    BY <1>5, RepinGives DEF LeaveOnly, j, c
<1>8. \/ Repin(j).shown = c.shown /\ (c.shown # NoFrame => c.shown \in left)
      \/ c.shown # NoFrame /\ c.shown \notin left /\ left = {} /\ Repin(j).shown = NoFrame
      \/ /\ c.shown # NoFrame /\ c.shown \notin left /\ left # {}
         /\ Repin(j).shown = EarliestOf(left)
    BY <1>5, <1>6, RepinGives
<1>9. left # {} => EarliestOf(left) \in left
    BY <1>4, EarliestIn
<1>10. Repin(j).shown # NoFrame => Repin(j).shown \in left
    BY <1>8, <1>9
<1>11. EarliestOf(c.stored) \in left => EarliestOf(c.stored) = EarliestOf(left)
    <2>1. SUFFICES ASSUME EarliestOf(c.stored) \in left
                   PROVE  EarliestOf(c.stored) = EarliestOf(left)
        OBVIOUS
    <2>2. EarliestOf(c.stored) \in left /\ EarliestOf(left) \in left
        BY <1>9, <2>1
    <2>3. EarliestOf(c.stored).t <= EarliestOf(left).t
        BY <1>1, <1>3, <1>4, <2>2, EarliestIn
    <2>4. EarliestOf(left).t <= EarliestOf(c.stored).t
        BY <1>4, <2>2, EarliestIn
    <2>5. EarliestOf(left).t \in Int /\ EarliestOf(c.stored).t \in Int
        BY <1>4, <2>2 DEF Frame, Times
    <2> QED BY <1>4, <2>2, <2>3, <2>4, <2>5, SameTime
<1>12. CASE c.shown = h.shown
    BY <1>7, <1>8, <1>10, <1>12
<1>13. CASE h.shown # NoFrame /\ h.shown \notin c.stored /\ c.shown = EarliestOf(c.stored)
    <2>1. h.shown \notin left
        BY <1>3, <1>13
    <2>2. EarliestOf(c.stored) \in c.stored /\ NoFrame \notin c.stored
        BY <1>1, <1>4, EarliestIn, NoFrameNotIn
    <2>3. CASE left = {}
        BY <1>7, <1>8, <1>13, <2>1, <2>2, <2>3
    <2>4. CASE left # {}
        <3>1. Repin(j).shown = EarliestOf(left)
            BY <1>8, <1>11, <1>13, <2>2, <2>4
        <3> QED BY <1>7, <1>10, <1>13, <2>1, <2>4, <3>1
    <2> QED BY <2>3, <2>4
<1> QED BY <1>1, <1>12, <1>13

\* What `arrived` leaves of a timeline when a sweep completes.
LEMMA ArrivedGives ==
    ASSUME NEW s, NEW h, Sound(h, s), NEW f \in Frame, f.src = s, NEW ring \in Nat \ {0},
           NEW cutoff
    PROVE  LET k == Expire(Complete(h, f, ring), cutoff) IN
           /\ k.stored = Since(NewestOf(h.stored \cup {f}, ring), cutoff)
           /\ k.partial = NoFrame
           /\ k.shown # NoFrame => k.shown \in k.stored
           /\ \/ k.shown = h.shown
              \/ /\ h.shown # NoFrame /\ h.shown \notin k.stored
                 /\ k.shown = IF k.stored = {} THEN NoFrame ELSE EarliestOf(k.stored)
<1> DEFINE left == Since(NewestOf(h.stored \cup {f}, ring), cutoff)
           k == LeaveOnly(Complete(h, f, ring), left)
<1>1. Complete(h, f, ring).stored = NewestOf(h.stored \cup {f}, ring)
    BY CompleteGives
<1>2. Expire(Complete(h, f, ring), cutoff) = k
    BY <1>1 DEF Expire, LeaveOnly
<1>3. left \subseteq NewestOf(h.stored \cup {f}, ring)
    BY DEF Since
<1>4. left = Since(NewestOf(h.stored \cup {f}, ring), cutoff)
    OBVIOUS
<1> HIDE DEF left
<1>5. /\ k.stored = left /\ k.partial = NoFrame
      /\ k.shown # NoFrame => k.shown \in left
      /\ \/ k.shown = h.shown
         \/ h.shown # NoFrame /\ h.shown \notin left /\ left = {} /\ k.shown = NoFrame
         \/ h.shown # NoFrame /\ h.shown \notin left /\ left # {} /\ k.shown = EarliestOf(left)
    BY <1>3, CompleteThenCut
<1> HIDE DEF k
<1> QED BY <1>2, <1>4, <1>5

\* What accept_mosaic leaves of a timeline.
LEMMA AcceptGives ==
    ASSUME NEW s, NEW h, Sound(h, s), NEW f \in Frame, f.src = s, NEW ring \in Nat \ {0},
           NEW newest, NEW window, NEW max
    PROVE  LET k == RetainHistory(Complete(h, f, ring), newest, window, max) IN
           /\ k.stored = NewestOf(Within(NewestOf(h.stored \cup {f}, ring), newest, window), max)
           /\ k.partial = NoFrame
           /\ k.shown # NoFrame => k.shown \in k.stored
           /\ \/ k.shown = h.shown
              \/ /\ h.shown # NoFrame /\ h.shown \notin k.stored
                 /\ k.shown = IF k.stored = {} THEN NoFrame ELSE EarliestOf(k.stored)
<1> DEFINE within == Within(NewestOf(h.stored \cup {f}, ring), newest, window)
           left == NewestOf(within, max)
           k == LeaveOnly(Complete(h, f, ring), left)
<1>1. Complete(h, f, ring).stored = NewestOf(h.stored \cup {f}, ring)
    BY CompleteGives
<1>2. RetainHistory(Complete(h, f, ring), newest, window, max) = k
    BY <1>1 DEF RetainHistory, LeaveOnly
<1>3. left \subseteq NewestOf(h.stored \cup {f}, ring)
    BY DEF NewestOf, Within
<1>4. left = NewestOf(within, max)
    OBVIOUS
<1> HIDE DEF left
<1>5. /\ k.stored = left /\ k.partial = NoFrame
      /\ k.shown # NoFrame => k.shown \in left
      /\ \/ k.shown = h.shown
         \/ h.shown # NoFrame /\ h.shown \notin left /\ left = {} /\ k.shown = NoFrame
         \/ h.shown # NoFrame /\ h.shown \notin left /\ left # {} /\ k.shown = EarliestOf(left)
    BY <1>3, CompleteThenCut
<1> HIDE DEF k
<1> QED BY <1>2, <1>4, <1>5

-----------------------------------------------------------------------------
(* The session *)

USE SourcesPartition, BoundsAreNat, NoEventIsNoEvent, NoFrameIsNoFrame

ScreenOf(x, s) == x \in Frame \cup Blanks \cup {NoFrame} /\ (x # NoFrame => x.src = s)

\* The half of the invariant that selecting a source, an arrival or a move can
\* disturb, and the half they leave alone.
SessionOK ==
    /\ selection \in Sources \cup {NoSource}
    /\ ScreenOf(screen, selection)
    /\ Sound(tl, selection)
    /\ PendingIsPartial
    /\ playing \in BOOLEAN
    /\ mosaic \subseteq Frame \cup Blanks
    /\ frameTime \in 0..MaxTime
    /\ live \in BOOLEAN /\ base \in 0..MaxTime
    /\ gridEvent \in GridMessage \cup {NoEvent}
    /\ disk \subseteq Frame
    /\ reply \in {"ok", "error"}

RestOK ==
    /\ follow \in BOOLEAN /\ locked \in BOOLEAN /\ centred \in BOOLEAN
    /\ wake \in BOOLEAN /\ player \in {"waiting", "sleeping"}
    /\ events \in Seq(PolarEvent)
    /\ job \in Job \cup {NoJob}
    /\ heard \in [Sites -> [t : 0..MaxTime, done : BOOLEAN]]
    /\ now \in 1..MaxTime

\* The two halves and the two properties across them make the invariant.
LEMMA Halves ==
    IndInv <=> SessionOK /\ RestOK /\ LockedHasSelection /\ NoLostWakeup
BY DEF IndInv, SessionOK, RestOK, TypeOK, PinListed, PendingIsPartial, OneSource, ScreenOf,
       Sound, Pinned, FromSource, Histories

\* The placeholder of a source is of that source and at time zero.
LEMMA BlankIn == \A s \in Sources : Blank(s) \in Blanks /\ Blank(s).src = s /\ Blank(s).t = 0
BY DEF Blank, Blanks

-----------------------------------------------------------------------------
(* Selecting a source *)

\* abort_live keeps a queued grid message typed; it only ages its session.
LEMMA AbortTyped ==
    ASSUME SessionOK, AbortLive
    PROVE  gridEvent' \in GridMessage \cup {NoEvent} /\ base' \in 0..MaxTime
BY DEF SessionOK, AbortLive, GridMessage

\* Switching to a radar keeps the session consistent, starts no playback and clears no selection.
LEMMA SiteSwitchOK ==
    ASSUME SessionOK, NEW s \in Sites, SwitchToSite(s)
    PROVE  SessionOK' /\ (playing' => playing) /\ (selection' = NoSource => selection = NoSource)
<1>1. PICK kept \in Evictions(s, Cutoff, disk), listed \in Outcomes("list"),
           loaded \in Outcomes("load"), published \in Outcomes("publish") :
        LET frames == IF listed THEN NewestOf(FramesOf(s, kept), Ring) ELSE {}
            first == IF frames # {} /\ loaded THEN LatestOf(frames) ELSE Blank(s)
        IN  /\ mosaic' = {}
            /\ disk' = kept
            /\ Answer(published)
            /\ IF published
               THEN /\ screen' = first
                    /\ frameTime' = first.t
                    /\ tl' = NewHistory(frames)
                    /\ pending' = NoFrame
                    /\ playing' = FALSE
                    /\ selection' = s
                    /\ RestartLive
               ELSE UNCHANGED <<screen, frameTime, tl, pending, playing, selection,
                                feed, gridEvent>>
    BY DEF SwitchToSite
<1> DEFINE frames == IF listed THEN NewestOf(FramesOf(s, kept), Ring) ELSE {}
           first == IF frames # {} /\ loaded THEN LatestOf(frames) ELSE Blank(s)
<1>2. kept \subseteq Frame
    BY <1>1 DEF Evictions, SessionOK
<1>3. frames \in SUBSET Frame /\ \A f \in frames : f.src = s
    BY <1>2 DEF NewestOf, FramesOf
<1>4. first \in Frame \cup Blanks /\ first.src = s /\ first.t \in 0..MaxTime
    BY <1>3, LatestIn, BlankIn DEF Frame, Times
<1>5. Sound(NewHistory(frames), s) /\ NewHistory(frames).partial = NoFrame
    BY <1>3, NewSound DEF NewHistory
<1>6. /\ mosaic' = {} /\ disk' = kept /\ reply' \in {"ok", "error"}
      /\ \/ /\ screen' = first /\ frameTime' = first.t /\ tl' = NewHistory(frames)
            /\ pending' = NoFrame /\ playing' = FALSE /\ selection' = s /\ RestartLive
         \/ UNCHANGED <<screen, frameTime, tl, pending, playing, selection, feed, gridEvent>>
    BY <1>1 DEF Answer
<1> HIDE DEF frames, first
<1>7. CASE UNCHANGED <<screen, frameTime, tl, pending, playing, selection, feed, gridEvent>>
    BY <1>2, <1>6, <1>7 DEF SessionOK, PendingIsPartial, feed
<1>8. CASE /\ screen' = first /\ frameTime' = first.t /\ tl' = NewHistory(frames)
           /\ pending' = NoFrame /\ playing' = FALSE /\ selection' = s /\ RestartLive
    <2>1. gridEvent' \in GridMessage \cup {NoEvent} /\ base' \in 0..MaxTime /\ live' \in BOOLEAN
        BY <1>8, AbortTyped DEF RestartLive
    <2>2. ScreenOf(screen', selection')
        BY <1>4, <1>8 DEF ScreenOf
    <2> QED BY <1>2, <1>4, <1>5, <1>6, <1>8, <2>1, <2>2 DEF SessionOK, PendingIsPartial
<1> QED BY <1>6, <1>7, <1>8

\* The empty history belongs to every source.
LEMMA EmptySound ==
    ASSUME NEW s
    PROVE  Sound(NewHistory({}), s) /\ NewHistory({}).partial = NoFrame
BY NewSound DEF NewHistory

\* Switching to a mosaic keeps the session consistent, starts no playback and clears no selection.
LEMMA GridSwitchOK ==
    ASSUME SessionOK, NEW g \in Grids, SwitchToGrid(g)
    PROVE  SessionOK' /\ (playing' => playing) /\ (selection' = NoSource => selection = NoSource)
<1>1. gridEvent' \in GridMessage \cup {NoEvent} /\ base' \in 0..MaxTime /\ live' \in BOOLEAN
    BY AbortTyped DEF SwitchToGrid, RestartLive
<1>2. /\ mosaic' \subseteq Frame \cup Blanks /\ ScreenOf(screen', g)
      /\ selection' = g /\ frameTime' = 0 /\ tl' = NewHistory({}) /\ pending' = NoFrame
      /\ playing' = FALSE /\ disk' = disk /\ reply' = "ok"
    BY BlankIn DEF SwitchToGrid, Answer, ScreenOf
<1>3. Sound(tl', selection') /\ pending' = tl'.partial
    BY <1>2, EmptySound
<1>4. selection' \in Sources /\ frameTime' \in 0..MaxTime
    BY <1>2
<1> QED BY <1>1, <1>2, <1>3, <1>4 DEF SessionOK, PendingIsPartial

\* Switching to a static mosaic keeps the session consistent, starts no playback and clears no selection.
LEMMA StaticSwitchOK ==
    ASSUME SessionOK, NEW s \in Statics, SwitchToStatic(s)
    PROVE  SessionOK' /\ (playing' => playing) /\ (selection' = NoSource => selection = NoSource)
<1> DEFINE frames == StaticFrames(s)
<1>1. frames \in SUBSET Frame /\ frames # {} /\ \A f \in frames : f.src = s
    <2>1. 1 \in Times \cap {1, 2}
        BY DEF Times
    <2>2. [src |-> s, t |-> 1] \in frames
        BY <2>1 DEF StaticFrames
    <2>3. \A f \in frames : f \in Frame /\ f.src = s
        BY DEF StaticFrames, Frame
    <2> QED BY <2>2, <2>3
<1>2. gridEvent' \in GridMessage \cup {NoEvent} /\ base' \in 0..MaxTime /\ live' \in BOOLEAN
    BY AbortTyped DEF SwitchToStatic
<1>3. LatestOf(frames) \in frames
    BY <1>1, LatestIn
<1>4. mosaic' \subseteq frames /\ disk' = disk /\ reply' \in {"ok", "error"}
    BY <1>1, EarliestIn DEF SwitchToStatic, Answer
<1>5. \/ /\ screen' = LatestOf(frames) /\ frameTime' = LatestOf(frames).t
         /\ tl' = NewHistory(frames) /\ pending' = NoFrame /\ playing' = FALSE /\ selection' = s
      \/ UNCHANGED <<screen, frameTime, tl, pending, playing, selection>>
    BY DEF SwitchToStatic
<1> HIDE DEF frames
<1>6. CASE UNCHANGED <<screen, frameTime, tl, pending, playing, selection>>
    BY <1>1, <1>2, <1>4, <1>6 DEF SessionOK, PendingIsPartial
<1>7. CASE /\ screen' = LatestOf(frames) /\ frameTime' = LatestOf(frames).t
           /\ tl' = NewHistory(frames) /\ pending' = NoFrame /\ playing' = FALSE
           /\ selection' = s
    <2>1. Sound(tl', s) /\ tl'.partial = NoFrame
        BY <1>1, <1>7, NewSound DEF NewHistory
    <2>2. ScreenOf(screen', s) /\ frameTime' \in 0..MaxTime
        BY <1>1, <1>3, <1>7 DEF ScreenOf, Frame, Times
    <2> QED BY <1>1, <1>2, <1>4, <1>7, <2>1, <2>2 DEF SessionOK, PendingIsPartial
<1> QED BY <1>5, <1>6, <1>7

\* Whatever the source, a switch keeps the session consistent.
LEMMA SwitchOK ==
    ASSUME SessionOK, NEW s, SwitchTo(s)
    PROVE  SessionOK' /\ (playing' => playing) /\ (selection' = NoSource => selection = NoSource)
BY SiteSwitchOK, GridSwitchOK, StaticSwitchOK DEF SwitchTo

\* A selection that changes nothing keeps the session and changes neither playback nor selection.
LEMMA KeepOK ==
    ASSUME SessionOK, KeepSelection
    PROVE  SessionOK' /\ UNCHANGED <<playing, selection>>
BY DEF SessionOK, PendingIsPartial, KeepSelection, Answer, feed

\* Applying the covering source keeps the session consistent and starts no playback.
LEMMA CoveringOK ==
    ASSUME SessionOK, NEW wanted, ApplyCovering(wanted)
    PROVE  SessionOK' /\ (playing' => playing)
<1>1. CASE KeepSelection
    BY <1>1, KeepOK
<1>2. CASE ClearSelection
    <2>1. gridEvent' \in GridMessage \cup {NoEvent} /\ base' \in 0..MaxTime
        BY <1>2, AbortTyped DEF ClearSelection
    <2>2. /\ selection' = NoSource /\ screen' = NoFrame /\ tl' = NewHistory({})
          /\ pending' = NoFrame /\ frameTime' = 0 /\ playing' = FALSE /\ mosaic' = {}
          /\ reply' = "ok" /\ live' = FALSE /\ disk' = disk
        BY <1>2 DEF ClearSelection, Answer
    <2>3. Sound(tl', selection') /\ pending' = tl'.partial
        BY <2>2, EmptySound
    <2>4. ScreenOf(screen', selection') /\ frameTime' \in 0..MaxTime
        BY <2>2 DEF ScreenOf
    <2> QED BY <2>1, <2>2, <2>3, <2>4 DEF SessionOK, PendingIsPartial
<1>3. CASE SwitchTo(wanted)
    BY <1>3, SwitchOK
<1> QED BY <1>1, <1>2, <1>3 DEF ApplyCovering

-----------------------------------------------------------------------------
(* What goes on screen *)

\* show_position after a repin shows an entry of the timeline, or nothing new.
LEMMA ShowOldestOK ==
    ASSUME NEW s, NEW h, Sound(h, s), ScreenOf(screen, s),
           NEW pend, pend # NoFrame => pend = h.partial,
           NEW ring, NEW files, NEW pub, NEW read
    PROVE  ScreenOf(ShowOldest(h, pend, ring, files, pub, read), s)
<1> DEFINE firsts == {e \in Entries(h) : IF h.stored = {} THEN e.painting
                                         ELSE e.frame = EarliestOf(h.stored) /\ ~e.painting}
           shows == {e \in firsts : Showable(e, pend, ring, files, pub, read)}
           first == CHOOSE e \in shows : TRUE
<1>1. \A e \in shows : ScreenOf(Displayed(e, pend), s)
    <2> TAKE e \in shows
    <2>1. e \in Entries(h) /\ (e.painting => pend # NoFrame)
        BY DEF Showable
    <2>2. e.frame \in Listed(h) /\ e.frame \in Frame /\ (e.painting => e.frame = h.partial)
        BY <2>1, EntryIn DEF Sound
    <2>3. Displayed(e, pend) = e.frame
        BY <2>1, <2>2 DEF Displayed
    <2> QED BY <2>2, <2>3 DEF ScreenOf, Sound, FromSource
<1>2. shows # {} => first \in shows
    OBVIOUS
<1>3. ShowOldest(h, pend, ring, files, pub, read) =
          IF shows = {} THEN screen ELSE Displayed(first, pend)
    BY DEF ShowOldest
<1> HIDE DEF shows, first
<1> QED BY <1>1, <1>2, <1>3

\* A listed frame on screen is of the history's source.
LEMMA ListedOnScreen ==
    ASSUME NEW s, NEW h, Sound(h, s), NEW f \in Listed(h)
    PROVE  ScreenOf(f, s)
BY DEF Sound, FromSource, Listed, Histories, ScreenOf

-----------------------------------------------------------------------------
(* Moves *)

\* What a move leaves alone.
LEMMA MoveOK ==
    ASSUME SessionOK,
           Sound(tl', selection), tl'.partial = tl.partial,
           ScreenOf(screen', selection), playing' \in BOOLEAN, reply' \in {"ok", "error"},
           UNCHANGED <<selection, pending, mosaic, frameTime, live, base, gridEvent, disk>>
    PROVE  SessionOK'
BY DEF SessionOK, PendingIsPartial

\* Showing an entry of the timeline keeps the session consistent.
LEMMA NavigateOK ==
    ASSUME SessionOK, NEW e \in Entries(tl), Navigate(e)
    PROVE  SessionOK'
<1>1. Sound(Pin(tl, e), selection) /\ Pin(tl, e).partial = tl.partial
    BY PinSound DEF SessionOK
<1>2. ScreenOf(e.frame, selection) /\ (e.painting => e.frame = tl.partial)
    BY EntryIn, ListedOnScreen DEF SessionOK, Sound
<1>3. ScreenOf(Displayed(e, pending), selection)
    BY <1>2 DEF Displayed, SessionOK, PendingIsPartial
<1>4. tl' \in {tl, Pin(tl, e)} /\ screen' \in {screen, Displayed(e, pending)}
    BY DEF Navigate, Answer
<1>5. playing' = FALSE /\ reply' \in {"ok", "error"}
    BY DEF Navigate, Answer
<1>6. UNCHANGED <<selection, pending, mosaic, frameTime, live, base, gridEvent, disk>>
    BY DEF Navigate, UnchangedByMoves, feed
<1> QED BY <1>1, <1>3, <1>4, <1>5, <1>6, MoveOK DEF SessionOK, PendingIsPartial

\* tick lands on a complete frame of the loop.
LEMMA TickOK ==
    ASSUME SessionOK, Tick
    PROVE  /\ Sound(tl', selection) /\ tl'.partial = tl.partial
           /\ ScreenOf(screen', selection) /\ playing' \in BOOLEAN
<1>1. CASE Cardinality(tl.stored) < 2
    BY <1>1 DEF Tick, SessionOK
<1>2. CASE ~(Cardinality(tl.stored) < 2)
    <2> DEFINE e == CompleteEntry(NextInLoop(tl))
    <2>1. tl \in Histories /\ tl.stored # {}
        <3>1. Cardinality({}) = 0
            BY FS_EmptySet
        <3>2. ASSUME tl.stored = {} PROVE FALSE
            <4>1. Cardinality(tl.stored) = 0
                BY <3>1, <3>2
            <4> QED BY <1>2, <4>1
        <3> QED BY <3>2 DEF SessionOK, Sound
    <2>2. NextInLoop(tl) \in tl.stored
        BY <2>1, NextInLoopIn
    <2>3. e \in Entries(tl) /\ e.frame \in Listed(tl)
        BY <2>2 DEF CompleteEntry, Entries, Listed
    <2>4. Sound(Pin(tl, e), selection) /\ Pin(tl, e).partial = tl.partial
        BY <2>3, PinSound DEF SessionOK
    <2>5. ScreenOf(e.frame, selection)
        BY <2>3, ListedOnScreen DEF SessionOK
    <2>6. tl' = Pin(tl, e) /\ screen' \in {screen, e.frame} /\ playing' \in {playing, FALSE}
        BY <1>2 DEF Tick
    <2> QED BY <2>4, <2>5, <2>6 DEF SessionOK
<1> QED BY <1>1, <1>2

-----------------------------------------------------------------------------
(* Arrivals *)

\* The lock is back and the sweep is of the selection, whatever was selected
\* while it was encoded.
LEMMA DeliverOK ==
    ASSUME SessionOK, RestOK, Deliver
    PROVE  SessionOK'
<1> DEFINE e == job.event
           f == FrameOf(e)
           known == \E g \in tl.stored : g.t = f.t
<1>1. e \in PolarEvent
    BY DEF Deliver, RestOK, Job, NoJob
<1>2. f \in Frame /\ f.src = e.src /\ f.t \in 0..MaxTime
    BY <1>1 DEF FrameOf, PolarEvent, Frame, Times
<1>3. reply' = "ok" /\ UNCHANGED <<selection, playing, mosaic, live, base, gridEvent>>
    BY DEF Deliver, Answer, feed
<1>4. \/ UNCHANGED <<tl, pending, screen, frameTime, disk>>
      \/ e.src = selection /\ ArrivedPartial(f)
      \/ e.src = selection /\ ArrivedComplete(f)
      \/ e.src = selection /\ Backfilled(f)
    BY <1>1 DEF Deliver, LiveSelected, PolarEvent, SweepKinds
<1> HIDE DEF e, f
<1>5. CASE UNCHANGED <<tl, pending, screen, frameTime, disk>>
    BY <1>3, <1>5 DEF SessionOK, PendingIsPartial
<1>6. CASE e.src = selection /\ ArrivedPartial(f)
    <2>1. tl' = Begin(tl, f) /\ pending' = f /\ frameTime' = frameTime /\ disk' = disk
        BY <1>6 DEF ArrivedPartial
    <2>2. Sound(tl', selection) /\ tl'.partial = f
        BY <1>2, <1>6, <2>1, BeginSound DEF SessionOK, Begin, Sound, Histories
    <2>3. screen' \in {screen, f}
        BY <1>6 DEF ArrivedPartial
    <2>4. ScreenOf(screen', selection)
        BY <1>2, <1>6, <2>3 DEF ScreenOf, SessionOK
    <2>5. selection \in Sites
        BY <1>1, <1>6 DEF PolarEvent
    <2> QED BY <1>3, <2>1, <2>2, <2>4, <2>5 DEF SessionOK, PendingIsPartial
<1>7. CASE e.src = selection /\ ArrivedComplete(f)
    <2> DEFINE h == Expire(Complete(tl, f, Ring), Cutoff)
    <2>1. Sound(h, selection) /\ h.partial = NoFrame
        BY <1>2, <1>7, CompleteSound, ExpireSound DEF SessionOK
    <2>2. tl' = h /\ pending' = NoFrame /\ frameTime' = f.t /\ disk' \subseteq Frame
        BY <1>7 DEF ArrivedComplete, Evictions, SessionOK
    <2>3. \E kept, pub, read : screen' \in {screen, f, ShowOldest(h, NoFrame, mosaic, kept, pub, read)}
        BY <1>7 DEF ArrivedComplete
    <2> HIDE DEF h
    <2>4. ScreenOf(f, selection) /\ ScreenOf(screen, selection)
        BY <1>2, <1>7 DEF ScreenOf, SessionOK
    <2>5. ScreenOf(screen', selection)
        BY <2>1, <2>3, <2>4, ShowOldestOK
    <2> QED BY <1>2, <1>3, <2>1, <2>2, <2>5 DEF SessionOK, PendingIsPartial
<1>8. CASE e.src = selection /\ Backfilled(f)
    <2> DEFINE h == Insert(tl, f, Ring)
    <2>1. Sound(h, selection) /\ h.partial = tl.partial
        BY <1>2, <1>8, InsertSound DEF SessionOK
    <2>2. tl' = h /\ frameTime' \in {f.t, frameTime} /\ pending' = pending /\ disk' = disk
        BY <1>8 DEF Backfilled, ObservationClock
    <2>3. \E pub, read : screen' \in {screen, ShowOldest(h, pending, mosaic, disk, pub, read)}
        BY <1>8 DEF Backfilled
    <2> HIDE DEF h
    <2>4. ScreenOf(screen, selection) /\ pending = h.partial
        BY <2>1 DEF SessionOK, PendingIsPartial
    <2>5. ScreenOf(screen', selection)
        BY <2>1, <2>3, <2>4, ShowOldestOK
    <2> QED BY <1>2, <1>3, <2>1, <2>2, <2>5 DEF SessionOK, PendingIsPartial
<1> QED BY <1>4, <1>5, <1>6, <1>7, <1>8

\* A grid message of this session is of the selected mosaic.
LEMMA GridOK ==
    ASSUME SessionOK, TakeGridEvent
    PROVE  SessionOK'
<1> DEFINE f == [src |-> gridEvent.src, t |-> gridEvent.t]
           newest == IF f.t > frameTime THEN f.t ELSE frameTime
           h == RetainHistory(Complete(tl, f, Ring), newest, GridWindow, GridMax)
           ring == (mosaic \cup {f}) \cap h.stored
<1>1. f \in Frame /\ f.t \in 0..MaxTime
    BY DEF TakeGridEvent, SessionOK, GridMessage, Frame, Times
<1>2. /\ reply' = "ok" /\ gridEvent' = NoEvent
      /\ UNCHANGED <<selection, playing, pending, live, base, disk>>
    BY DEF TakeGridEvent, Answer, feed
<1>3. \/ UNCHANGED <<tl, mosaic, frameTime, screen>>
      \/ /\ f.src = selection
         /\ tl' = h /\ mosaic' = ring /\ frameTime' = newest
         /\ screen' \in {screen, f, ShowOldest(h, pending, ring, disk, TRUE, TRUE)}
    BY DEF TakeGridEvent, AcceptMosaic, ObservationClock, Textured, TakesScreen, Matches
<1> HIDE DEF f
<1>4. CASE UNCHANGED <<tl, mosaic, frameTime, screen>>
    BY <1>2, <1>4 DEF SessionOK, PendingIsPartial
<1>5. CASE /\ f.src = selection
           /\ tl' = h /\ mosaic' = ring /\ frameTime' = newest
           /\ screen' \in {screen, f, ShowOldest(h, pending, ring, disk, TRUE, TRUE)}
    <2>1. Sound(h, selection) /\ h.partial = NoFrame
        BY <1>1, <1>5, CompleteSound, RetainSound DEF SessionOK
    <2>2. selection \in Grids /\ selection \notin Sites
        BY <1>5 DEF f, SessionOK, GridMessage, TakeGridEvent
    <2>3. pending = NoFrame /\ pending' = NoFrame
        BY <1>2, <2>2 DEF SessionOK, PendingIsPartial
    <2>4. newest \in 0..MaxTime /\ ring \subseteq Frame \cup Blanks
        BY <1>1 DEF SessionOK
    <2> HIDE DEF h, ring, newest
    <2>5. ScreenOf(f, selection) /\ ScreenOf(screen, selection)
        BY <1>1, <1>5 DEF ScreenOf, SessionOK
    <2>6. ScreenOf(screen', selection)
        BY <1>5, <2>1, <2>3, <2>5, ShowOldestOK
    <2> QED BY <1>2, <1>5, <2>1, <2>3, <2>4, <2>6 DEF SessionOK, PendingIsPartial
<1> QED BY <1>3, <1>4, <1>5

-----------------------------------------------------------------------------
(* The other half of the invariant *)

\* What a command that goes through the session leaves alone.
LEMMA RestKept ==
    ASSUME RestOK, UNCHANGED <<tasks, world>>,
           follow' \in BOOLEAN, locked' \in BOOLEAN, centred' \in BOOLEAN
    PROVE  RestOK'
BY DEF RestOK, tasks, world

\* A step that starts no playback and leaves the player alone loses no wakeup.
LEMMA WakeKept ==
    ASSUME NoLostWakeup, playing' => playing, UNCHANGED <<wake, player>>
    PROVE  NoLostWakeup'
BY DEF NoLostWakeup

Inv == SessionOK /\ RestOK /\ LockedHasSelection /\ NoLostWakeup

\* The engine starts with the invariant.
LEMMA InitInv == Init => Inv
<1> SUFFICES ASSUME Init PROVE Inv
    OBVIOUS
<1>1. Sound(tl, selection) /\ tl.partial = NoFrame
    BY EmptySound DEF Init
<1>2. disk \subseteq Frame
    <2>1. \A s \in Sites : [src |-> s, t |-> 1] \in Frame
        BY DEF Frame, Times
    <2> QED BY <2>1 DEF Init
<1>3. SessionOK
    <2>1. /\ selection = NoSource /\ screen = NoFrame /\ pending = NoFrame /\ playing = FALSE
          /\ mosaic = {} /\ frameTime = 0 /\ live = FALSE /\ base = 0 /\ gridEvent = NoEvent
          /\ reply = "ok"
        BY DEF Init
    <2>2. ScreenOf(screen, selection) /\ PendingIsPartial /\ 0 \in 0..MaxTime
        BY <1>1, <2>1 DEF ScreenOf, PendingIsPartial
    <2> QED BY <1>1, <1>2, <2>1, <2>2 DEF SessionOK
<1>4. RestOK
    <2>1. heard \in [Sites -> [t : 0..MaxTime, done : BOOLEAN]]
        BY DEF Init
    <2>2. events \in Seq(PolarEvent) /\ now \in 1..MaxTime
        BY DEF Init
    <2>3. /\ follow = TRUE /\ locked = FALSE /\ centred = FALSE /\ wake = FALSE
          /\ player = "waiting" /\ job = NoJob
        BY DEF Init
    <2> QED BY <2>1, <2>2, <2>3 DEF RestOK
<1>5. LockedHasSelection /\ NoLostWakeup
    BY DEF Init, LockedHasSelection, NoLostWakeup
<1> QED BY <1>3, <1>4, <1>5 DEF Inv

\* One step per kind of command.
LEMMA CommandInv ==
    ASSUME Inv, Command
    PROVE  Inv'
<1> USE DEF Inv
<1>1. ASSUME NEW s \in Sources, Select(s) PROVE Inv'
    <2>1. UNCHANGED <<follow, locked, centred, tasks, world>>
        BY <1>1 DEF Select, nav
    <2>2. RestOK'
        BY <2>1, RestKept DEF RestOK
    <2>3. CASE SwitchTo(s)
        <3>1. SessionOK' /\ (playing' => playing) /\ (selection' = NoSource => selection = NoSource)
            BY <2>3, SwitchOK
        <3> QED BY <2>1, <2>2, <3>1, WakeKept DEF tasks, LockedHasSelection
    <2>4. CASE KeepSelection
        <3>1. SessionOK' /\ UNCHANGED <<playing, selection>>
            BY <2>4, KeepOK
        <3> QED BY <2>1, <2>2, <3>1, WakeKept DEF tasks, LockedHasSelection
    <2>5. CASE /\ RestartLive /\ Answer(TRUE)
               /\ UNCHANGED <<selection, screen, playing, tl, pending, mosaic, frameTime, disk>>
        <3>1. gridEvent' \in GridMessage \cup {NoEvent} /\ base' \in 0..MaxTime /\ live' = TRUE
            BY <2>5, AbortTyped DEF RestartLive
        <3>2. SessionOK'
            BY <2>5, <3>1 DEF SessionOK, PendingIsPartial, Answer
        <3> QED BY <2>1, <2>2, <2>5, <3>2, WakeKept DEF tasks, LockedHasSelection
    <2> QED BY <1>1, <2>3, <2>4, <2>5 DEF Select
<1>2. ASSUME NEW enabled \in BOOLEAN, Follow(enabled) PROVE Inv'
    <2>1. SessionOK' /\ UNCHANGED <<playing, selection>>
        BY <1>2, KeepOK DEF Follow
    <2>2. UNCHANGED <<locked, centred, tasks, world>> /\ follow' \in BOOLEAN
        BY <1>2 DEF Follow
    <2>3. RestOK'
        BY <2>2, RestKept DEF RestOK
    <2> QED BY <2>1, <2>2, <2>3, WakeKept DEF tasks, LockedHasSelection
<1>3. ASSUME NEW enabled \in BOOLEAN, SetLock(enabled) PROVE Inv'
    <2>1. UNCHANGED <<centred, tasks, world>> /\ follow' = follow /\ locked' \in {locked, enabled}
        BY <1>3 DEF SetLock, shown
    <2>2. RestOK'
        BY <2>1, RestKept DEF RestOK
    <2>3. CASE enabled /\ selection = NoSource
        <3>1. UNCHANGED <<shown, pending, mosaic, frameTime, feed, gridEvent, disk>> /\ reply' = "error"
            BY <1>3, <2>3 DEF SetLock
        <3>2. SessionOK'
            BY <3>1 DEF SessionOK, PendingIsPartial, shown, feed
        <3> QED BY <2>1, <2>2, <3>1, <3>2, WakeKept DEF tasks, shown, LockedHasSelection
    <2>4. CASE ~(enabled /\ selection = NoSource)
        <3>1. locked' = enabled
            BY <1>3, <2>4 DEF SetLock
        <3>2. CASE locked /\ ~enabled /\ follow /\ centred
            <4>1. SessionOK' /\ (playing' => playing)
                BY <1>3, <2>4, <3>2, CoveringOK DEF SetLock
            <4> QED BY <2>1, <2>2, <3>1, <3>2, <4>1, WakeKept DEF tasks, LockedHasSelection
        <3>3. CASE ~(locked /\ ~enabled /\ follow /\ centred)
            <4>1. SessionOK' /\ UNCHANGED <<playing, selection>>
                BY <1>3, <2>4, <3>3, KeepOK DEF SetLock
            <4> QED BY <2>1, <2>2, <2>4, <3>1, <4>1, WakeKept DEF tasks, LockedHasSelection
        <3> QED BY <3>2, <3>3
    <2> QED BY <2>3, <2>4
<1>4. ASSUME NEW wanted, ViewCenter(wanted) PROVE Inv'
    <2>1. UNCHANGED <<follow, locked, tasks, world>> /\ centred' = TRUE
        BY <1>4 DEF ViewCenter
    <2>2. RestOK'
        BY <2>1, RestKept DEF RestOK
    <2>3. CASE follow /\ ~locked
        <3>1. SessionOK' /\ (playing' => playing)
            BY <1>4, <2>3, CoveringOK DEF ViewCenter
        <3> QED BY <2>1, <2>2, <2>3, <3>1, WakeKept DEF tasks, LockedHasSelection
    <2>4. CASE ~(follow /\ ~locked)
        <3>1. SessionOK' /\ UNCHANGED <<playing, selection>>
            BY <1>4, <2>4, KeepOK DEF ViewCenter
        <3> QED BY <2>1, <2>2, <3>1, WakeKept DEF tasks, LockedHasSelection
    <2> QED BY <2>3, <2>4
<1>5. ASSUME NEW e \in Entries(tl), Navigate(e) PROVE Inv'
    <2>1. playing' = FALSE /\ UNCHANGED <<selection, follow, locked, centred, tasks, world>>
        BY <1>5 DEF Navigate, UnchangedByMoves
    <2>2. RestOK'
        BY <2>1, RestKept DEF RestOK
    <2> QED BY <1>5, <2>1, <2>2, NavigateOK, WakeKept DEF tasks, LockedHasSelection
<1>6. ASSUME StepNowhere \/ Pause \/ (\E f \in Frame : SeekElsewhere(f)) PROVE Inv'
    <2>1. /\ playing' \in {playing, FALSE} /\ reply' \in {"ok", "error"}
          /\ UNCHANGED <<tl, screen>> /\ UnchangedByMoves
        BY <1>6 DEF StepNowhere, Pause, SeekElsewhere, Answer
    <2>2. SessionOK'
        BY <2>1 DEF SessionOK, PendingIsPartial, UnchangedByMoves, feed
    <2>3. UNCHANGED <<selection, follow, locked, centred, tasks, world>>
        BY <2>1 DEF UnchangedByMoves
    <2>4. RestOK'
        BY <2>3, RestKept DEF RestOK
    <2>5. NoLostWakeup'
        BY <2>1, <2>3 DEF NoLostWakeup, tasks
    <2>6. LockedHasSelection'
        BY <2>3 DEF LockedHasSelection
    <2> QED BY <2>2, <2>4, <2>5, <2>6
<1>7. ASSUME Play PROVE Inv'
    <2>1. tl' = StartPlayback(tl) /\ playing' = TRUE /\ wake' = TRUE /\ reply' = "ok"
        BY <1>7 DEF Play, Answer
    <2>2. UNCHANGED <<selection, follow, locked, screen, centred, pending, mosaic, frameTime,
                      live, base, player, events, job, gridEvent, disk, heard, now>>
        BY <1>7 DEF Play, feed, world
    <2>3. Sound(tl', selection) /\ tl'.partial = tl.partial
        BY <2>1, StartPlaybackSound DEF SessionOK
    <2>4. SessionOK'
        BY <2>1, <2>2, <2>3 DEF SessionOK, PendingIsPartial
    <2>5. RestOK'
        BY <2>1, <2>2 DEF RestOK
    <2> QED BY <2>1, <2>2, <2>4, <2>5 DEF NoLostWakeup, LockedHasSelection
<1> QED BY <1>1, <1>2, <1>3, <1>4, <1>5, <1>6, <1>7 DEF Command

-----------------------------------------------------------------------------
(* The tasks *)

\* A task that leaves what is shown alone.
LEMMA Unshown ==
    ASSUME Inv, UNCHANGED <<shown, centred, pending, mosaic, frameTime>>,
           live' \in BOOLEAN, base' \in 0..MaxTime, gridEvent' \in GridMessage \cup {NoEvent},
           disk' \subseteq Frame, reply' \in {"ok", "error"},
           wake' \in BOOLEAN, player' \in {"waiting", "sleeping"}, events' \in Seq(PolarEvent),
           job' \in Job \cup {NoJob}, now' \in 1..MaxTime,
           heard' \in [Sites -> [t : 0..MaxTime, done : BOOLEAN]],
           NoLostWakeup'
    PROVE  Inv'
<1>1. UNCHANGED <<selection, follow, locked, screen, playing, tl>>
    BY DEF shown
<1>2. SessionOK'
    BY <1>1 DEF Inv, SessionOK, PendingIsPartial
<1>3. RestOK' /\ LockedHasSelection'
    BY <1>1 DEF Inv, RestOK, LockedHasSelection
<1> QED BY <1>2, <1>3 DEF Inv

\* What the pollers, the cleanup task and the clock do keeps the invariant.
LEMMA PollerInv ==
    ASSUME Inv,
           \/ \E e \in PolarEvent : PollerSends(e)
           \/ \E s \in Sites : PollerJoins(s)
           \/ PollerEnds
           \/ CleanupRestarts
           \/ \E m \in GridMessage : GridPollerSends(m)
           \/ ClockAdvances
    PROVE  Inv'
<1> USE DEF Inv
<1>0. SessionOK /\ RestOK /\ NoLostWakeup
    OBVIOUS
<1>1. ASSUME NEW e \in PolarEvent, PollerSends(e) PROVE Inv'
    <2>1. /\ events' = Append(events, e)
          /\ heard' \in {heard, [heard EXCEPT ![e.src] = [t |-> e.t, done |-> e.kind = "complete"]]}
          /\ UNCHANGED <<shown, centred, pending, mosaic, frameTime, live, base, wake, player,
                         job, gridEvent, disk, now>>
          /\ reply' = "ok"
        BY <1>1 DEF PollerSends, Answer, feed
    <2>2. events' \in Seq(PolarEvent)
        BY <1>0, <2>1 DEF RestOK
    <2>3. heard' \in [Sites -> [t : 0..MaxTime, done : BOOLEAN]]
        <3> DEFINE heardNow == [t |-> e.t, done |-> e.kind = "complete"]
        <3>1. e.src \in Sites /\ heardNow \in [t : 0..MaxTime, done : BOOLEAN]
            BY DEF PolarEvent, Times
        <3>2. heard' \in {heard, [heard EXCEPT ![e.src] = heardNow]}
            BY <2>1
        <3> HIDE DEF heardNow
        <3> QED BY <1>0, <3>1, <3>2 DEF RestOK
    <2>4. NoLostWakeup'
        BY <1>0, <2>1 DEF NoLostWakeup, shown
    <2> QED BY <1>0, <2>1, <2>2, <2>3, <2>4, Unshown DEF SessionOK, RestOK
<1>2. ASSUME NEW s \in Sites, PollerJoins(s) PROVE Inv'
    <2>1. /\ UNCHANGED <<shown, centred, pending, mosaic, frameTime, live, wake, player, events,
                         job, gridEvent, disk, now>>
          /\ reply' = "ok"
        BY <1>2 DEF PollerJoins, Answer, tasks
    <2>2. PICK t \in {heard[s].t, now}, knows \in BOOLEAN :
             /\ heard' = [heard EXCEPT ![s] =
                            [t |-> t, done |-> knows /\ [src |-> s, t |-> t] \in tl.stored]]
             /\ base' \in {base, t}
        BY <1>2 DEF PollerJoins
    <2>3. t \in 0..MaxTime
        BY <1>0, <2>2 DEF RestOK
    <2>4. /\ heard' \in [Sites -> [t : 0..MaxTime, done : BOOLEAN]]
          /\ base' \in 0..MaxTime
        BY <1>0, <2>2, <2>3 DEF RestOK, SessionOK
    <2>5. NoLostWakeup'
        BY <1>0, <2>1 DEF NoLostWakeup, shown
    <2> QED BY <1>0, <2>1, <2>4, <2>5, Unshown DEF SessionOK, RestOK
<1>3. ASSUME PollerEnds PROVE Inv'
    <2>1. /\ UNCHANGED <<shown, centred, pending, mosaic, frameTime, wake, player, events, job,
                         gridEvent, disk, heard, now>>
          /\ reply' = "ok" /\ live' = FALSE /\ base' = 0
        BY <1>3 DEF PollerEnds, Answer, tasks, world
    <2>2. NoLostWakeup' /\ 0 \in 0..MaxTime
        BY <1>0, <2>1 DEF NoLostWakeup, shown
    <2> QED BY <1>0, <2>1, <2>2, Unshown DEF SessionOK, RestOK
<1>4. ASSUME CleanupRestarts PROVE Inv'
    <2>1. /\ UNCHANGED <<shown, centred, pending, mosaic, frameTime, wake, player, events, job,
                         disk, heard, now>>
          /\ reply' = "ok" /\ live' = TRUE
        BY <1>4 DEF CleanupRestarts, RestartLive, Answer, tasks, world
    <2>2. gridEvent' \in GridMessage \cup {NoEvent} /\ base' \in 0..MaxTime
        BY <1>0, <1>4, AbortTyped DEF CleanupRestarts, RestartLive
    <2>3. NoLostWakeup'
        BY <1>0, <2>1 DEF NoLostWakeup, shown
    <2> QED BY <1>0, <2>1, <2>2, <2>3, Unshown DEF SessionOK, RestOK
<1>5. ASSUME NEW m \in GridMessage, GridPollerSends(m) PROVE Inv'
    <2>1. /\ UNCHANGED <<shown, centred, pending, mosaic, frameTime, live, base, wake, player,
                         events, job, disk, heard, now>>
          /\ reply' = "ok" /\ gridEvent' = m
        BY <1>5 DEF GridPollerSends, Answer, tasks, world, feed
    <2>2. NoLostWakeup'
        BY <1>0, <2>1 DEF NoLostWakeup, shown
    <2> QED BY <1>0, <2>1, <2>2, Unshown DEF SessionOK, RestOK
<1>6. ASSUME ClockAdvances PROVE Inv'
    <2>1. /\ UNCHANGED <<shown, centred, pending, mosaic, frameTime, live, base, wake, player,
                         events, job, gridEvent, disk, heard>>
          /\ reply' = "ok" /\ now < MaxTime /\ now' = now + 1
        BY <1>6 DEF ClockAdvances, Answer, tasks, feed
    <2>2. now' \in 1..MaxTime
        BY <1>0, <2>1 DEF RestOK
    <2>3. NoLostWakeup'
        BY <1>0, <2>1 DEF NoLostWakeup, shown
    <2> QED BY <1>0, <2>1, <2>2, <2>3, Unshown DEF SessionOK, RestOK
<1> QED BY <1>1, <1>2, <1>3, <1>4, <1>5, <1>6

\* The player takes the permit and looks at `playing` in one step, and goes
\* back to wait only once it is false: no wake is lost.
LEMMA PlayerInv ==
    ASSUME Inv, PlayerWakes \/ PlayerSteps
    PROVE  Inv'
<1> USE DEF Inv
<1>0. SessionOK /\ RestOK /\ NoLostWakeup
    OBVIOUS
<1>1. ASSUME PlayerWakes PROVE Inv'
    <2>1. /\ UNCHANGED <<shown, centred, pending, mosaic, frameTime, live, base, events, job,
                         gridEvent, disk, heard, now>>
          /\ reply' = "ok" /\ wake' = FALSE
          /\ player' = IF playing THEN "sleeping" ELSE "waiting"
        BY <1>1 DEF PlayerWakes, Answer, feed, world
    <2>2. NoLostWakeup'
        BY <2>1 DEF NoLostWakeup, shown
    <2> QED BY <1>0, <2>1, <2>2, Unshown DEF SessionOK, RestOK
<1>2. ASSUME PlayerSteps PROVE Inv'
    <2>1. /\ UNCHANGED <<selection, follow, locked, centred, pending, mosaic, frameTime, live,
                         base, wake, events, job, gridEvent, disk, heard, now>>
          /\ reply' = "ok" /\ player' = IF playing' THEN "sleeping" ELSE "waiting"
        BY <1>2 DEF PlayerSteps, Answer, feed, world
    <2>2. CASE playing
        <3>1. Tick
            BY <1>2, <2>2 DEF PlayerSteps
        <3>2. /\ Sound(tl', selection) /\ tl'.partial = tl.partial
              /\ ScreenOf(screen', selection) /\ playing' \in BOOLEAN
            BY <1>0, <3>1, TickOK
        <3>3. SessionOK'
            BY <1>0, <2>1, <3>2, MoveOK
        <3> QED BY <1>0, <2>1, <3>3 DEF RestOK, LockedHasSelection, NoLostWakeup
    <2>3. CASE ~playing
        <3>1. UNCHANGED <<tl, screen, playing>>
            BY <1>2, <2>3 DEF PlayerSteps
        <3>2. SessionOK'
            BY <1>0, <2>1, <3>1 DEF SessionOK, PendingIsPartial
        <3> QED BY <1>0, <2>1, <2>3, <3>1, <3>2 DEF RestOK, LockedHasSelection, NoLostWakeup
    <2> QED BY <2>2, <2>3
<1> QED BY <1>1, <1>2

\* Taking an event, encoding its frame and delivering it keeps the invariant.
LEMMA EventInv ==
    ASSUME Inv, TakeEvent \/ Encode \/ Deliver \/ TakeGridEvent
    PROVE  Inv'
<1> USE DEF Inv
<1>0. SessionOK /\ RestOK /\ NoLostWakeup
    OBVIOUS
<1>1. ASSUME TakeEvent PROVE Inv'
    <2>1. /\ UNCHANGED <<shown, centred, pending, mosaic, frameTime, live, base, wake, player,
                         gridEvent, disk, heard, now>>
          /\ reply' = "ok" /\ events # <<>> /\ events' = Tail(events)
          /\ job' \in {[event |-> Head(events), phase |-> "encoding"], NoJob}
        BY <1>1 DEF TakeEvent, Answer, feed, world
    <2>2. events' \in Seq(PolarEvent) /\ Head(events) \in PolarEvent
        BY <1>0, <2>1 DEF RestOK
    <2>3. job' \in Job \cup {NoJob}
        BY <2>1, <2>2 DEF Job
    <2>4. NoLostWakeup'
        BY <1>0, <2>1 DEF NoLostWakeup, shown
    <2> QED BY <1>0, <2>1, <2>2, <2>3, <2>4, Unshown DEF SessionOK, RestOK
<1>2. ASSUME Encode PROVE Inv'
    <2>1. /\ UNCHANGED <<shown, centred, pending, mosaic, frameTime, live, base, wake, player,
                         events, gridEvent, heard, now>>
          /\ reply' = "ok" /\ job' \in {[job EXCEPT !.phase = "encoded"], NoJob}
          /\ disk' \in {disk, Store(FrameOf(job.event), disk), disk \cup {FrameOf(job.event)}}
        BY <1>2 DEF Encode, Answer, feed, world
    <2>2. job \in Job
        BY <1>0, <1>2 DEF Encode, RestOK, NoJob
    <2>3. job' \in Job \cup {NoJob}
        BY <2>1, <2>2 DEF Job
    <2>4. FrameOf(job.event) \in Frame
        BY <2>2 DEF Job, FrameOf, PolarEvent, Frame
    <2>5. disk' \subseteq Frame
        BY <1>0, <2>1, <2>4 DEF SessionOK, Store, NewestOf, FramesOf
    <2>6. NoLostWakeup'
        BY <1>0, <2>1 DEF NoLostWakeup, shown
    <2> QED BY <1>0, <2>1, <2>3, <2>5, <2>6, Unshown DEF SessionOK, RestOK
<1>3. ASSUME Deliver PROVE Inv'
    <2>1. /\ UNCHANGED <<selection, follow, locked, playing, centred, wake, player, events,
                         heard, now>>
          /\ job' = NoJob
        BY <1>3 DEF Deliver, world
    <2>2. SessionOK'
        BY <1>0, <1>3, DeliverOK
    <2> QED BY <1>0, <2>1, <2>2 DEF RestOK, LockedHasSelection, NoLostWakeup
<1>4. ASSUME TakeGridEvent PROVE Inv'
    <2>1. UNCHANGED <<selection, follow, locked, playing, centred, tasks, world>>
        BY <1>4 DEF TakeGridEvent
    <2>2. SessionOK'
        BY <1>0, <1>4, GridOK
    <2>3. RestOK'
        BY <1>0, <2>1, RestKept DEF RestOK
    <2> QED BY <1>0, <2>1, <2>2, <2>3 DEF LockedHasSelection, NoLostWakeup, tasks
<1> QED BY <1>1, <1>2, <1>3, <1>4

-----------------------------------------------------------------------------
(* The theorems *)

\* Every step of the engine keeps the invariant.
LEMMA NextInv == Inv /\ [Next]_vars => Inv'
<1> SUFFICES ASSUME Inv, [Next]_vars PROVE Inv'
    OBVIOUS
<1>1. CASE Next
    BY <1>1, CommandInv, PlayerInv, PollerInv, EventInv DEF Next
<1>2. CASE UNCHANGED vars
    BY <1>2 DEF vars, Inv, SessionOK, RestOK, PendingIsPartial, LockedHasSelection, NoLostWakeup
<1> QED BY <1>1, <1>2

\* The session invariant holds in every reachable state, for all constants.
THEOREM SessionInvariant == Spec => []IndInv
<1>1. Inv <=> IndInv
    BY Halves DEF Inv
<1>2. Spec => []Inv
    BY InitInv, NextInv, PTL DEF Spec
<1> QED BY <1>1, <1>2, PTL

\* Everything keeps its type: no event, drop or failure puts a value of the
\* wrong kind in the session.
THEOREM TypeCorrect == Spec => []TypeOK
BY SessionInvariant, PTL DEF IndInv

\* Nothing of another source is ever listed or shown, whatever pollers of past
\* stations left in the channels and whatever is selected while a sweep is
\* encoded.
THEOREM OneSourceHolds == Spec => []OneSource
BY SessionInvariant, PTL DEF IndInv

\* While no sweep paints, the pin is never dangling.
THEOREM PinListedHolds == Spec => []PinListed
BY SessionInvariant, PTL DEF IndInv

\* The sweep in progress that is listed has its texture.
THEOREM PendingIsPartialHolds == Spec => []PendingIsPartial
BY SessionInvariant, PTL DEF IndInv

\* The lock never outlives the selection.
THEOREM LockedHasSelectionHolds == Spec => []LockedHasSelection
BY SessionInvariant, PTL DEF IndInv

\* Playing is never waited for without a wake.
THEOREM NoLostWakeupHolds == Spec => []NoLostWakeup
BY SessionInvariant, PTL DEF IndInv

\* A held lock pins the selection against pans, playback, arrivals and
\* restarts: only an explicit selection moves it.
THEOREM LockPinsSelectionHolds == Spec => LockPinsSelection
<1>1. ASSUME Next, locked, locked', selection' # selection
      PROVE  \E s \in Sources : Select(s)
    <2>1. CASE Command
        <3>1. ASSUME NEW enabled \in BOOLEAN, SetLock(enabled) PROVE FALSE
            BY <1>1, <3>1 DEF SetLock, KeepSelection, shown
        <3>2. ASSUME NEW wanted, ViewCenter(wanted) PROVE FALSE
            BY <1>1, <3>2 DEF ViewCenter, KeepSelection
        <3>3. ASSUME NEW enabled \in BOOLEAN, Follow(enabled) PROVE FALSE
            BY <1>1, <3>3 DEF Follow, KeepSelection
        <3>4. ASSUME NEW e, Navigate(e) PROVE FALSE
            BY <1>1, <3>4 DEF Navigate, UnchangedByMoves
        <3>5. ASSUME NEW f, SeekElsewhere(f) PROVE FALSE
            BY <1>1, <3>5 DEF SeekElsewhere, UnchangedByMoves
        <3>6. ASSUME StepNowhere \/ Play \/ Pause PROVE FALSE
            BY <1>1, <3>6 DEF StepNowhere, Play, Pause, UnchangedByMoves
        <3> QED BY <2>1, <3>1, <3>2, <3>3, <3>4, <3>5, <3>6 DEF Command
    <2>2. CASE PlayerWakes \/ PlayerSteps
        BY <1>1, <2>2 DEF PlayerWakes, PlayerSteps, shown
    <2>3. CASE TakeEvent \/ Encode \/ Deliver \/ TakeGridEvent \/ ClockAdvances
        BY <1>1, <2>3 DEF TakeEvent, Encode, Deliver, TakeGridEvent, ClockAdvances, shown
    <2>4. CASE PollerEnds \/ CleanupRestarts
        BY <1>1, <2>4 DEF PollerEnds, CleanupRestarts, shown
    <2>5. ASSUME NEW e, PollerSends(e) PROVE FALSE
        BY <1>1, <2>5 DEF PollerSends, shown
    <2>6. ASSUME NEW s, PollerJoins(s) PROVE FALSE
        BY <1>1, <2>6 DEF PollerJoins, shown
    <2>7. ASSUME NEW m, GridPollerSends(m) PROVE FALSE
        BY <1>1, <2>7 DEF GridPollerSends, shown
    <2> QED BY <1>1, <2>1, <2>2, <2>3, <2>4, <2>5, <2>6, <2>7 DEF Next
<1>2. [Next]_vars =>
        [(locked /\ locked' /\ selection' # selection) => \E s \in Sources : Select(s)]_vars
    BY <1>1
<1> QED BY <1>2, PTL DEF Spec, LockPinsSelection
=============================================================================

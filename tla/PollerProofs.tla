---------------------------- MODULE PollerProofs ----------------------------
(***************************************************************************)
(* The polar poller keeps what the session relies on (PollerSpec), for any *)
(* ring of directories, any volumes and chunks and any number of faults.   *)
(***************************************************************************)
EXTENDS Poller, WellFoundedInduction, TLAPS

USE PollerConstants DEF Vols

CursorType == [vol : Vols, seq : Nat, ended : BOOLEAN, ready : Nat, looked : BOOLEAN]
CutType == [vol : 0..Volumes, cut : SUBSET Nat, done : BOOLEAN]

TypeInv ==
    /\ uploaded \in [Vols -> Nat] /\ archived \in Nat
    /\ phase \in {"finding", "probing", "replaying", "following"}
    /\ probe.after \in Nat
    /\ todo \subseteq Nat \ {0}
    /\ cursor \in CursorType /\ assembler \in CutType
    /\ backfill.todo \subseteq Vols
    /\ heard \in [t : 0..Volumes, done : BOOLEAN]
    /\ base \in 0..Volumes /\ back \in BOOLEAN /\ filled \subseteq Vols

\* While a volume is followed it is not older than what was reported; if it is
\* the one reported whole, the assembler holds that sweep and no chunk to come
\* begins it anew.
LiveInOrder ==
    phase \in {"replaying", "following"} =>
        /\ base # 0
        /\ phase = "replaying" => cursor.seq # 0
        /\ ~back =>
            /\ cursor.vol >= heard.t
            /\ phase = "following" /\ cursor.seq = 0 => cursor.vol > heard.t
            /\ heard.done /\ cursor.vol = heard.t =>
                /\ assembler.vol = heard.t /\ assembler.done
                /\ phase = "replaying" => 1 \notin todo

\* What is left to backfill is older than the first join, and not yet sent.
BackfillLeft ==
    /\ base = 0 => backfill.todo = {} /\ filled = {}
    /\ \A v \in backfill.todo : v < base /\ v \notin filled

PollerInv == TypeInv /\ LiveInOrder /\ BackfillLeft

promised == <<heard, base, back, filled>>

-----------------------------------------------------------------------------
(* Sets of numbers *)

\* A set of naturals that is not empty has a least member.
LEMMA LeastOf ==
    ASSUME NEW S, S \subseteq Nat, S # {}
    PROVE  \E x \in S : \A y \in S : x <= y
<1>1. PICK x \in S : \A y \in S : ~(<<y, x>> \in OpToRel(<, Nat))
    BY NatLessThanWellFounded, WFMin
<1>2. \A y \in S : ~(y < x)
    BY <1>1 DEF OpToRel
<1> QED BY <1>2

\* Min of a set of naturals that is not empty is that member.
LEMMA MinOf ==
    ASSUME NEW S, S \subseteq Nat, S # {}
    PROVE  Min(S) \in S /\ \A y \in S : Min(S) <= y
BY LeastOf DEF Min

\* Max of a set of volumes is one of them.
LEMMA MaxOf ==
    ASSUME NEW S, S \subseteq Vols, S # {}
    PROVE  Max(S) \in S
<1> DEFINE T == {Volumes - v : v \in S}
<1>1. \A v \in S : Volumes - v \in Nat
    OBVIOUS
<1>2. T \subseteq Nat /\ T # {}
    BY <1>1
<1>3. PICK x \in T : \A y \in T : x <= y
    BY <1>2, LeastOf
<1>4. PICK v \in S : x = Volumes - v
    BY <1>3
<1>5. \A u \in S : v >= u
    <2>1. ASSUME NEW u \in S PROVE Volumes - v <= Volumes - u
        BY <1>3, <1>4
    <2> QED BY <2>1
<1> QED BY <1>4, <1>5 DEF Max

\* A generation is newer than what it was asked to be newer than.
LEMMA GenerationNewer ==
    ASSUME NEW slot, NEW after, Generation(slot, after) # 0
    PROVE  /\ Generation(slot, after) \in Vols
           /\ Generation(slot, after) > after
           /\ uploaded[Generation(slot, after)] > 0
<1> DEFINE newer == {v \in Listing(slot) : v > after}
<1>1. newer \subseteq Vols /\ newer # {}
    BY DEF Generation, Listing
<1>2. Max(newer) \in newer
    BY <1>1, MaxOf
<1>3. Generation(slot, after) = Max(newer)
    BY <1>1 DEF Generation
<1> QED BY <1>2, <1>3 DEF Listing

-----------------------------------------------------------------------------
(* Delivering a chunk *)

\* A fed assembler has its type and holds the volume of the chunk.
LEMMA FeedTyped ==
    ASSUME NEW a \in CutType, NEW v \in Vols, NEW c \in Nat
    PROVE  Feed(a, v, c) \in CutType /\ Feed(a, v, c).vol = v
<1>1. Base(a, v, c) \in CutType /\ Base(a, v, c).vol = v
    BY DEF Base, CutType
<1> QED BY <1>1 DEF Feed, CutType

\* A sweep that is whole does not change, unless its Start comes again.
LEMMA WholeIsQuiet ==
    ASSUME NEW a \in CutType, NEW v \in Vols, NEW c \in Nat,
           a.vol = v, a.done, c # 1
    PROVE  Feed(a, v, c) = a /\ ~Changes(Base(a, v, c), c)
BY DEF Feed, Base, Changes, CutType

\* What deliver does to the report: nothing, or the sweep as it now is.
LEMMA Delivered ==
    ASSUME TypeInv, NEW v \in Vols, NEW c \in Nat, NEW filtered,
           Deliver(v, c, filtered)
    PROVE  /\ assembler' = Feed(assembler, v, c)
           /\ assembler' \in CutType /\ assembler'.vol = v
           /\ UNCHANGED <<base, back, filled>>
           /\ \/ UNCHANGED heard
              \/ /\ Changes(Base(assembler, v, c), c)
                 /\ heard' = [t |-> v, done |-> assembler'.done]
<1>1. assembler' = Feed(assembler, v, c)
    BY DEF Deliver
<1>2. assembler' \in CutType /\ assembler'.vol = v
    <2>1. assembler \in CutType
        BY DEF TypeInv
    <2> QED BY <1>1, <2>1, FeedTyped
<1>3. CASE Quiet
    BY <1>1, <1>2, <1>3 DEF Quiet
<1>4. CASE ~Quiet
    BY <1>1, <1>2, <1>4 DEF Deliver
<1> QED BY <1>3, <1>4

-----------------------------------------------------------------------------
(* The invariant, action by action *)

\* The poller starts with the invariant.
LEMMA InitInv == Init => PollerInv
<1> SUFFICES ASSUME Init PROVE PollerInv
    OBVIOUS
<1>1. cursor \in CursorType /\ assembler \in CutType
    BY DEF Init, At, NoCut, CursorType, CutType
<1>2. uploaded \in [Vols -> Nat] /\ archived \in Nat
    BY DEF Init
<1>3. TypeInv
    <2>1. probe.after \in Nat /\ backfill.todo \subseteq Vols
        BY DEF Init, NoProbe
    <2>2. heard \in [t : 0..Volumes, done : BOOLEAN] /\ base \in 0..Volumes
        BY DEF Init
    <2> QED BY <1>1, <1>2, <2>1, <2>2 DEF Init, TypeInv
<1>4. LiveInOrder /\ BackfillLeft
    BY DEF Init, LiveInOrder, BackfillLeft
<1> QED BY <1>3, <1>4 DEF PollerInv

\* Looking for the archived volume keeps the invariant and what is promised.
LEMMA FindingInv ==
    ASSUME PollerInv, FindArchived \/ NothingArchived \/ FindFails
    PROVE  PollerInv' /\ UNCHANGED promised
<1>1. UNCHANGED promised /\ UNCHANGED <<uploaded, archived, todo, cursor, assembler, backfill>>
      /\ phase' \in {"finding", "probing"}
    BY DEF PollerInv, TypeInv, FindArchived, NothingArchived, FindFails, Quiet, promised, world
<1>2. probe'.after \in Nat
    BY DEF PollerInv, TypeInv, FindArchived, NothingArchived, FindFails, NoProbe
<1>3. TypeInv'
    BY <1>1, <1>2 DEF PollerInv, TypeInv, promised, CursorType, CutType
<1>4. LiveInOrder' /\ BackfillLeft'
    BY <1>1 DEF PollerInv, LiveInOrder, BackfillLeft, promised
<1> QED BY <1>1, <1>3, <1>4 DEF PollerInv

\* The radar and the bucket keep the invariant and what is promised.
LEMMA WorldInv ==
    ASSUME PollerInv, Scan \/ Upload \/ Archive
    PROVE  PollerInv' /\ UNCHANGED promised
<1>1. UNCHANGED promised /\ UNCHANGED <<phase, probe, todo, cursor, assembler, backfill>>
    BY DEF Scan, Upload, Archive, UnchangedPoller, promised
<1>2. uploaded' \in [Vols -> Nat] /\ archived' \in Nat
    <2>1. CASE Upload
        <3>1. PICK v \in Vols : uploaded' = [uploaded EXCEPT ![v] = @ + 1] /\ archived' = archived
            BY <2>1 DEF Upload
        <3>2. uploaded \in [Vols -> Nat] /\ uploaded[v] + 1 \in Nat
            BY DEF PollerInv, TypeInv
        <3>3. uploaded' \in [Vols -> Nat]
            BY <3>1, <3>2
        <3> QED BY <3>1, <3>3 DEF PollerInv, TypeInv
    <2>2. CASE Scan
        BY <2>2 DEF PollerInv, TypeInv, Scan
    <2>3. CASE Archive
        <3>1. PICK v \in Vols : archived' = v /\ uploaded' = uploaded
            BY <2>3 DEF Archive
        <3> QED BY <3>1 DEF PollerInv, TypeInv
    <2> QED BY <2>1, <2>2, <2>3
<1>3. TypeInv'
    BY <1>1, <1>2 DEF PollerInv, TypeInv, promised, CursorType, CutType
<1>4. LiveInOrder' /\ BackfillLeft'
    BY <1>1 DEF PollerInv, LiveInOrder, BackfillLeft, promised
<1> QED BY <1>1, <1>3, <1>4 DEF PollerInv

\* Starting over leaves what was reported; so does a failure that does not.
LEMMA FailingInv ==
    ASSUME PollerInv, GoQuiet \/ \E reset \in BOOLEAN : CallFails(reset)
    PROVE  PollerInv' /\ UNCHANGED promised
<1>1. UNCHANGED promised /\ UNCHANGED <<uploaded, archived, probe, todo, backfill>>
    BY DEF GoQuiet, CallFails, Quiet, promised, world
<1>2. CASE StartOver
    <2>1. phase' = "finding" /\ cursor' \in CursorType /\ assembler' \in CutType
        BY <1>2 DEF StartOver, At, NoCut, CursorType, CutType
    <2>2. TypeInv'
        BY <1>1, <2>1 DEF PollerInv, TypeInv, promised
    <2>3. LiveInOrder' /\ BackfillLeft'
        BY <1>1, <2>1 DEF PollerInv, LiveInOrder, BackfillLeft, promised
    <2> QED BY <1>1, <2>2, <2>3 DEF PollerInv
<1>3. CASE ~StartOver
    <2>1. phase' = phase /\ assembler' = assembler /\ cursor' = [cursor EXCEPT !.looked = FALSE]
        BY <1>3 DEF GoQuiet, CallFails
    <2>2. cursor' \in CursorType /\ cursor'.vol = cursor.vol /\ cursor'.seq = cursor.seq
        BY <2>1 DEF PollerInv, TypeInv, CursorType
    <2>3. TypeInv'
        BY <1>1, <2>1, <2>2 DEF PollerInv, TypeInv, promised
    <2>4. LiveInOrder' /\ BackfillLeft'
        BY <1>1, <2>1, <2>2 DEF PollerInv, LiveInOrder, BackfillLeft, promised
    <2> QED BY <1>1, <2>3, <2>4 DEF PollerInv
<1> QED BY <1>2, <1>3

\* The first join is newer than all that is left to backfill, and what was
\* reported whole may be painted once more.
LEMMA ProbeInv ==
    ASSUME PollerInv, Probe
    PROVE  PollerInv' /\ [Promises!Join]_promised
<1> DEFINE v == Generation(probe.slot, probe.after)
<1>1. UNCHANGED <<uploaded, archived, filled>>
    BY DEF Probe, world
<1>2. CASE v # 0
    <2> DEFINE ids == {c \in 1..uploaded[v] : c <= Replayed \/ c = uploaded[v]}
    <2>1. v \in Vols /\ v > probe.after /\ uploaded[v] > 0
        BY <1>2, GenerationNewer
    <2>2. Join(v) /\ probe' = NoProbe
        BY <1>2 DEF Probe
    <2>3. uploaded[v] \in Nat \ {0} /\ probe.after \in Nat
        BY <2>1 DEF PollerInv, TypeInv
    <2> HIDE DEF v
    <2>4. /\ cursor' = At(v, uploaded[v], uploaded[v]) /\ assembler' = NoCut
          /\ phase' = "replaying"
          /\ base' = IF base = 0 THEN v ELSE base
          /\ back' = (back \/ v < heard.t)
          /\ heard' = [heard EXCEPT !.done = FALSE]
          /\ backfill' = IF base # 0 THEN backfill
                         ELSE [todo |-> Prior(probe.after), cached |-> known]
        BY <2>2 DEF Join
    <2>5. todo' \subseteq Nat \ {0}
        <3>1. PICK got \in Fetched(ids) : todo' = got
            BY <2>2 DEF Join
        <3>2. got \subseteq ids
            BY DEF Fetched
        <3> QED BY <3>1, <3>2, <2>3
    <2>6. heard' \in [t : 0..Volumes, done : BOOLEAN] /\ heard'.t = heard.t /\ ~heard'.done
        BY <2>4 DEF PollerInv, TypeInv
    <2>7. cursor' \in CursorType /\ cursor'.vol = v /\ cursor'.seq # 0
        BY <2>1, <2>3, <2>4 DEF At, CursorType
    <2>8. \A u \in Prior(probe.after) : u \in Vols /\ u < v
        BY <2>1, <2>3 DEF Prior
    <2>9. TypeInv'
        <3>1. assembler' \in CutType /\ probe'.after \in Nat
            BY <2>2, <2>4 DEF NoCut, CutType, NoProbe
        <3>2. backfill'.todo \subseteq Vols
            BY <2>4, <2>8 DEF PollerInv, TypeInv
        <3>3. base' \in 0..Volumes
            BY <2>1, <2>4 DEF PollerInv, TypeInv
        <3>4. back' \in BOOLEAN
            BY <2>4
        <3> QED BY <1>1, <2>4, <2>5, <2>6, <2>7, <3>1, <3>2, <3>3, <3>4 DEF PollerInv, TypeInv
    <2>10. LiveInOrder'
        <3>1. base' # 0
            BY <2>1, <2>4
        <3>2. ASSUME ~back' PROVE v >= heard'.t
            <4>1. ~(v < heard.t)
                BY <2>4, <3>2
            <4>2. heard.t \in 0..Volumes
                BY DEF PollerInv, TypeInv
            <4> QED BY <2>1, <2>6, <4>1, <4>2
        <3> QED BY <2>4, <2>6, <2>7, <3>1, <3>2 DEF LiveInOrder
    <2>11. BackfillLeft'
        BY <1>1, <2>1, <2>4, <2>8 DEF PollerInv, BackfillLeft
    <2>12. Promises!Join
        BY <1>1, <2>1, <2>4 DEF Promises!Join
    <2> QED BY <2>9, <2>10, <2>11, <2>12 DEF PollerInv
<1>3. CASE v = 0
    <2>1. UNCHANGED promised /\ UNCHANGED <<todo, cursor, assembler, backfill>>
          /\ phase' \in {"finding", "probing"}
        BY <1>3 DEF Probe, promised
    <2>2. probe'.after \in Nat
        <3>1. probe'.after = probe.after \/ probe' = NoProbe
            BY <1>3 DEF Probe
        <3> QED BY <3>1 DEF PollerInv, TypeInv, NoProbe
    <2>3. TypeInv'
        BY <1>1, <2>1, <2>2 DEF PollerInv, TypeInv, promised, CursorType, CutType
    <2>4. LiveInOrder' /\ BackfillLeft'
        BY <2>1 DEF PollerInv, LiveInOrder, BackfillLeft, promised
    <2> QED BY <2>1, <2>3, <2>4 DEF PollerInv
<1> QED BY <1>2, <1>3

\* A chunk of the replay: the newest sweep again, or news of it.
LEMMA ReplayInv ==
    ASSUME PollerInv, Replay
    PROVE  PollerInv' /\ [\E done \in BOOLEAN : Promises!Sweep(cursor.vol, done)]_promised
<1> DEFINE v == cursor.vol
           c == Min(todo)
<1>1. /\ phase = "replaying" /\ todo # {} /\ todo' = todo \ {c}
      /\ Deliver(v, c, skipKnown)
      /\ UNCHANGED <<uploaded, archived, phase, probe, cursor, backfill>>
    BY DEF Replay, world
<1>2. c \in todo /\ c \in Nat /\ \A d \in todo : c <= d
    BY <1>1, MinOf DEF PollerInv, TypeInv
<1>3. v \in Vols /\ heard.t \in 0..Volumes
    BY DEF PollerInv, TypeInv, CursorType
<1>4. base # 0 /\ v >= 1 /\ cursor.seq # 0 /\ (~back => v >= heard.t)
    BY <1>1, <1>3 DEF PollerInv, LiveInOrder
<1> HIDE DEF c
<1>5. /\ assembler' = Feed(assembler, v, c)
      /\ assembler' \in CutType /\ assembler'.vol = v
      /\ UNCHANGED <<base, back, filled>>
      /\ \/ UNCHANGED heard
         \/ /\ Changes(Base(assembler, v, c), c)
            /\ heard' = [t |-> v, done |-> assembler'.done]
    BY <1>1, <1>2, <1>3, Delivered DEF PollerInv
<1>6. BackfillLeft'
    BY <1>1, <1>5 DEF PollerInv, BackfillLeft
<1>7. CASE Changes(Base(assembler, v, c), c) /\ heard' = [t |-> v, done |-> assembler'.done]
    <2>1. assembler'.done \in BOOLEAN
        BY <1>5 DEF CutType
    <2>2. TypeInv'
        <3>1. heard' \in [t : 0..Volumes, done : BOOLEAN]
            BY <1>3, <1>7, <2>1
        <3> QED BY <1>1, <1>5, <3>1 DEF PollerInv, TypeInv, CursorType
    <2>3. 1 \notin todo'
        <3>1. ASSUME 1 \in todo PROVE c = 1 \/ c = 0
            BY <1>2, <3>1
        <3>2. c # 0
            BY <1>2 DEF PollerInv, TypeInv
        <3> QED BY <1>1, <3>1, <3>2
    <2>4. LiveInOrder'
        BY <1>1, <1>3, <1>4, <1>5, <1>7, <2>3 DEF LiveInOrder
    <2>5. ASSUME ~back, v = heard.t, heard.done PROVE FALSE
        <3>1. assembler.vol = v /\ assembler.done /\ 1 \notin todo
            BY <1>1, <2>5 DEF PollerInv, LiveInOrder
        <3> QED BY <1>2, <1>3, <1>7, <3>1, WholeIsQuiet DEF PollerInv, TypeInv
    <2>6. back \/ v > heard.t \/ (v = heard.t /\ ~heard.done)
        BY <1>3, <1>4, <2>5
    <2>7. Promises!Sweep(v, assembler'.done)
        BY <1>4, <1>5, <1>7, <2>6 DEF Promises!Sweep
    <2> QED BY <1>6, <2>1, <2>2, <2>4, <2>7 DEF PollerInv
<1>8. CASE UNCHANGED heard
    <2>1. UNCHANGED promised
        BY <1>5, <1>8 DEF promised
    <2>2. TypeInv'
        BY <1>1, <1>5, <1>8 DEF PollerInv, TypeInv, CursorType
    <2>3. ASSUME ~back, heard.done, v = heard.t
          PROVE  assembler'.vol = v /\ assembler'.done /\ 1 \notin todo'
        <3>1. assembler.vol = v /\ assembler.done /\ 1 \notin todo
            BY <1>1, <2>3 DEF PollerInv, LiveInOrder
        <3> QED BY <1>1, <1>2, <1>3, <1>5, <3>1, WholeIsQuiet DEF PollerInv, TypeInv
    <2>4. LiveInOrder'
        BY <1>1, <1>4, <1>5, <1>8, <2>3 DEF LiveInOrder
    <2> QED BY <1>6, <2>1, <2>2, <2>4 DEF PollerInv
<1> QED BY <1>5, <1>7, <1>8

\* Between the replay and the first listing nothing is reported.
LEMMA FollowInv ==
    ASSUME PollerInv, Follow
    PROVE  PollerInv' /\ UNCHANGED promised
<1>1. /\ phase = "replaying" /\ phase' = "following"
      /\ UNCHANGED promised
      /\ UNCHANGED <<uploaded, archived, probe, todo, cursor, assembler, backfill>>
    BY DEF Follow, Quiet, promised, world
<1>2. TypeInv'
    BY <1>1 DEF PollerInv, TypeInv, promised, CursorType, CutType
<1>3. LiveInOrder' /\ BackfillLeft'
    BY <1>1 DEF PollerInv, LiveInOrder, BackfillLeft, promised
<1> QED BY <1>1, <1>2, <1>3 DEF PollerInv

\* The next volume is newer than the one followed.
LEMMA ListInv ==
    ASSUME PollerInv, ListCurrent \/ ListNext
    PROVE  PollerInv' /\ UNCHANGED promised
<1>1. /\ phase = "following" /\ phase' = "following"
      /\ UNCHANGED promised
      /\ UNCHANGED <<uploaded, archived, probe, todo, assembler, backfill>>
    BY DEF ListCurrent, ListNext, Quiet, promised, world
<1>2. cursor \in CursorType /\ cursor.vol \in Vols /\ uploaded[cursor.vol] \in Nat
    BY DEF PollerInv, TypeInv, CursorType
<1>3. CASE cursor' \in CursorType /\ cursor'.vol = cursor.vol /\ cursor'.seq = cursor.seq
    <2>1. TypeInv'
        BY <1>1, <1>3 DEF PollerInv, TypeInv, promised, CutType
    <2>2. LiveInOrder' /\ BackfillLeft'
        BY <1>1, <1>3 DEF PollerInv, LiveInOrder, BackfillLeft, promised
    <2> QED BY <1>1, <2>1, <2>2 DEF PollerInv
<1>4. CASE NextVolume # 0 /\ cursor' = At(NextVolume, 0, uploaded[NextVolume])
    <2>1. NextVolume \in Vols /\ NextVolume > cursor.vol /\ uploaded[NextVolume] \in Nat
        BY <1>4, GenerationNewer DEF NextVolume, PollerInv, TypeInv
    <2>2. cursor' \in CursorType /\ cursor'.vol = NextVolume /\ cursor'.seq = 0
        BY <1>4, <2>1 DEF At, CursorType
    <2>3. TypeInv'
        BY <1>1, <2>2 DEF PollerInv, TypeInv, promised, CutType
    <2>4. ~back => NextVolume > heard.t
        BY <1>1, <1>2, <2>1 DEF PollerInv, TypeInv, LiveInOrder
    <2>5. LiveInOrder'
        BY <1>1, <2>1, <2>2, <2>4 DEF PollerInv, TypeInv, LiveInOrder, promised
    <2>6. BackfillLeft'
        BY <1>1 DEF PollerInv, BackfillLeft, promised
    <2> QED BY <1>1, <2>3, <2>5, <2>6 DEF PollerInv
<1>5. CASE ListCurrent
    BY <1>2, <1>3, <1>5 DEF ListCurrent, CursorType
<1>6. CASE ListNext
    BY <1>2, <1>3, <1>4, <1>6 DEF ListNext, CursorType
<1> QED BY <1>5, <1>6

\* A chunk that is followed: news of the newest sweep, or of a newer one.
LEMMA FetchInv ==
    ASSUME PollerInv, FetchChunk
    PROVE  PollerInv' /\ [\E done \in BOOLEAN : Promises!Sweep(cursor.vol, done)]_promised
<1> DEFINE v == cursor.vol
           c == cursor.seq + 1
<1>1. /\ phase = "following"
      /\ cursor' = [cursor EXCEPT !.seq = c, !.ended = c = Chunks]
      /\ Deliver(v, c, FALSE)
      /\ UNCHANGED <<uploaded, archived, phase, probe, todo, backfill>>
    BY DEF FetchChunk, world
<1>2. v \in Vols /\ heard.t \in 0..Volumes /\ cursor.seq \in Nat /\ c \in Nat \ {0}
    BY DEF PollerInv, TypeInv, CursorType
<1>3. /\ base # 0 /\ (~back => v >= heard.t)
      /\ ~back /\ c = 1 => v > heard.t
    BY <1>1, <1>2 DEF PollerInv, LiveInOrder
<1>4. cursor' \in CursorType /\ cursor'.vol = v /\ cursor'.seq = c
    <2>1. (c = Chunks) \in BOOLEAN
        OBVIOUS
    <2> QED BY <1>1, <1>2, <2>1 DEF PollerInv, TypeInv, CursorType
<1> HIDE DEF c
<1>5. /\ assembler' = Feed(assembler, v, c)
      /\ assembler' \in CutType /\ assembler'.vol = v
      /\ UNCHANGED <<base, back, filled>>
      /\ \/ UNCHANGED heard
         \/ /\ Changes(Base(assembler, v, c), c)
            /\ heard' = [t |-> v, done |-> assembler'.done]
    BY <1>1, <1>2, Delivered DEF PollerInv
<1>6. BackfillLeft'
    BY <1>1, <1>5 DEF PollerInv, BackfillLeft
<1>7. ASSUME ~back, heard.done, v = heard.t
      PROVE  /\ Feed(assembler, v, c) = assembler /\ ~Changes(Base(assembler, v, c), c)
             /\ assembler.done
    <2>1. assembler.vol = v /\ assembler.done
        BY <1>1, <1>7 DEF PollerInv, LiveInOrder
    <2>2. c # 1
        BY <1>2, <1>3, <1>7
    <2> QED BY <1>2, <2>1, <2>2, WholeIsQuiet DEF PollerInv, TypeInv
<1>8. CASE Changes(Base(assembler, v, c), c) /\ heard' = [t |-> v, done |-> assembler'.done]
    <2>1. assembler'.done \in BOOLEAN
        BY <1>5 DEF CutType
    <2>2. TypeInv'
        <3>1. heard' \in [t : 0..Volumes, done : BOOLEAN]
            BY <1>2, <1>8, <2>1
        <3> QED BY <1>1, <1>4, <1>5, <3>1 DEF PollerInv, TypeInv
    <2>3. LiveInOrder'
        BY <1>1, <1>2, <1>3, <1>4, <1>5, <1>8 DEF LiveInOrder
    <2>4. back \/ v > heard.t \/ (v = heard.t /\ ~heard.done)
        BY <1>2, <1>3, <1>7, <1>8
    <2>5. Promises!Sweep(v, assembler'.done)
        BY <1>3, <1>5, <1>8, <2>4 DEF Promises!Sweep
    <2> QED BY <1>6, <2>1, <2>2, <2>3, <2>5 DEF PollerInv
<1>9. CASE UNCHANGED heard
    <2>1. UNCHANGED promised
        BY <1>5, <1>9 DEF promised
    <2>2. TypeInv'
        BY <1>1, <1>4, <1>5, <1>9 DEF PollerInv, TypeInv
    <2>3. LiveInOrder'
        BY <1>1, <1>2, <1>3, <1>4, <1>5, <1>7, <1>9 DEF LiveInOrder
    <2> QED BY <1>6, <2>1, <2>2, <2>3 DEF PollerInv
<1> QED BY <1>5, <1>8, <1>9

\* What is backfilled was left, and is left no longer.
LEMMA BackfillInv ==
    ASSUME PollerInv, BackfillOne
    PROVE  PollerInv' /\ [\E v \in Vols : Promises!Backfill(v)]_promised
<1> DEFINE v == Max(backfill.todo)
           rest == backfill.todo \ {v}
<1>1. /\ UNCHANGED <<uploaded, archived, phase, probe, todo, cursor, assembler>>
      /\ UNCHANGED <<heard, base, back>>
      /\ backfill.todo # {}
    BY DEF BackfillOne, Quiet, world
<1>2. v \in backfill.todo /\ v \in Vols /\ v < base /\ v \notin filled
    <2>1. v \in backfill.todo
        BY <1>1, MaxOf DEF PollerInv, TypeInv
    <2> QED BY <2>1 DEF PollerInv, TypeInv, BackfillLeft
<1> HIDE DEF v
<1>3. /\ backfill'.todo \in {rest, {}}
      /\ filled' = filled \/ (backfill'.todo = rest /\ filled' = filled \cup {v})
    BY DEF BackfillOne, Quiet, v
<1>4. TypeInv'
    BY <1>1, <1>2, <1>3 DEF PollerInv, TypeInv, CursorType, CutType
<1>5. LiveInOrder'
    BY <1>1 DEF PollerInv, LiveInOrder
<1>6. BackfillLeft'
    BY <1>1, <1>2, <1>3 DEF PollerInv, BackfillLeft, TypeInv
<1>7. [\E u \in Vols : Promises!Backfill(u)]_promised
    <2>1. CASE filled' = filled
        BY <1>1, <2>1 DEF promised
    <2>2. CASE filled' = filled \cup {v}
        BY <1>1, <1>2, <2>2 DEF Promises!Backfill
    <2> QED BY <1>3, <2>1, <2>2
<1> QED BY <1>4, <1>5, <1>6, <1>7 DEF PollerInv

-----------------------------------------------------------------------------
\* Every step keeps the invariant, and is a step of PollerSpec or none.
LEMMA StepRefines ==
    ASSUME PollerInv, [Next]_vars
    PROVE  PollerInv' /\ [Promises!Next]_promised
<1>1. CASE UNCHANGED vars
    <2>1. PollerInv'
        BY <1>1 DEF vars, world, PollerInv, TypeInv, LiveInOrder, BackfillLeft, CursorType, CutType
    <2> QED BY <1>1, <2>1 DEF vars, promised
<1>2. CASE FindArchived \/ NothingArchived \/ FindFails
    BY <1>2, FindingInv
<1>3. CASE Probe
    BY <1>3, ProbeInv DEF Promises!Next
<1>4. CASE Replay
    <2>1. cursor.vol \in Vols
        BY DEF PollerInv, TypeInv, CursorType
    <2> QED BY <1>4, <2>1, ReplayInv DEF Promises!Next
<1>5. CASE Follow
    BY <1>5, FollowInv
<1>6. CASE ListCurrent \/ ListNext
    BY <1>6, ListInv
<1>7. CASE FetchChunk
    <2>1. cursor.vol \in Vols
        BY DEF PollerInv, TypeInv, CursorType
    <2> QED BY <1>7, <2>1, FetchInv DEF Promises!Next
<1>8. CASE GoQuiet \/ \E reset \in BOOLEAN : CallFails(reset)
    BY <1>8, FailingInv
<1>9. CASE BackfillOne
    BY <1>9, BackfillInv DEF Promises!Next
<1>10. CASE Scan \/ Upload \/ Archive
    BY <1>10, WorldInv
<1> QED BY <1>1, <1>2, <1>3, <1>4, <1>5, <1>6, <1>7, <1>8, <1>9, <1>10 DEF Next, Step

\* The poller implements PollerSpec: what it reports, over any number of
\* joins, failed calls, missed volumes and late archives, is a behaviour that
\* the session's PollerJoins and PollerSends allow (live::poll, backfill).
THEOREM PollerKeepsPromises == Spec => ImplementsPromises
<1>1. Init => PollerInv /\ Promises!Init
    BY InitInv DEF Init, Promises!Init
<1>2. PollerInv /\ [Next]_vars => PollerInv' /\ [Promises!Next]_promised
    BY StepRefines
<1> QED BY <1>1, <1>2, PTL DEF Spec, ImplementsPromises, Promises!Spec, promised
-----------------------------------------------------------------------------
(* Backfill and live sweeps *)

\* What is or was to be backfilled is in the archive that discovery starts
\* from, so that every later join, and all that follows it, is newer; and what
\* was sent of it was not in the catalog at the first join.
BackfillOlder ==
    /\ phase = "probing" => probe.after <= archived
    /\ \A u \in filled \cup backfill.todo :
        /\ u <= archived
        /\ phase = "probing" => u <= probe.after
        /\ phase \in {"replaying", "following"} => u < cursor.vol
        /\ <<u, 1>> \in whole => <<u, 1>> \in backfill.cached
    /\ \A u \in filled : <<u, 1>> \notin backfill.cached
    /\ base = 0 => whole = known

OlderInv == PollerInv /\ BackfillOlder

\* The parts of BackfillOlder are of numbers.
LEMMA OlderTyped ==
    ASSUME PollerInv
    PROVE  /\ archived \in Nat /\ probe.after \in Nat /\ cursor.vol \in Vols
           /\ \A u \in filled \cup backfill.todo : u \in Vols
BY DEF PollerInv, TypeInv, CursorType

\* A poller that starts has filled nothing in.
LEMMA InitOlder == Init => BackfillOlder
BY DEF Init, BackfillOlder

\* Looking for the archived volume fills nothing in.
LEMMA FindingOlder ==
    ASSUME OlderInv, FindArchived \/ NothingArchived \/ FindFails
    PROVE  BackfillOlder'
<1>1. UNCHANGED <<archived, cursor, known, whole, filled, backfill, base>>
    BY DEF FindArchived, NothingArchived, FindFails, Quiet, world
<1>2. phase' = "finding" \/ (phase' = "probing" /\ probe'.after = archived)
    BY DEF FindArchived, NothingArchived, FindFails
<1> QED BY <1>1, <1>2, OlderTyped DEF OlderInv, BackfillOlder

\* The radar and the bucket leave what is filled in older than what is followed.
LEMMA WorldOlder ==
    ASSUME OlderInv, Scan \/ Upload \/ Archive
    PROVE  BackfillOlder'
<1>1. UNCHANGED <<phase, probe, cursor, known, whole, filled, backfill, base>>
    BY DEF Scan, Upload, Archive, UnchangedPoller
<1>2. archived' \in Nat /\ archived <= archived'
    <2>1. archived \in Nat
        BY OlderTyped DEF OlderInv
    <2> QED BY <2>1 DEF Scan, Upload, Archive
<1> QED BY <1>1, <1>2, OlderTyped DEF OlderInv, BackfillOlder

\* A call that fails, and going quiet, leave what is filled in older than what is followed.
LEMMA FailingOlder ==
    ASSUME OlderInv, GoQuiet \/ \E reset \in BOOLEAN : CallFails(reset)
    PROVE  BackfillOlder'
<1>1. UNCHANGED <<archived, probe, known, whole, filled, backfill, base>>
    BY DEF GoQuiet, CallFails, Quiet, world
<1>2. phase' = "finding" \/ (phase' = phase /\ cursor'.vol = cursor.vol)
    <2>1. CASE StartOver
        BY <2>1 DEF StartOver
    <2>2. CASE ~StartOver
        <3>1. phase' = phase /\ cursor' = [cursor EXCEPT !.looked = FALSE]
            BY <2>2 DEF GoQuiet, CallFails
        <3> QED BY <3>1 DEF OlderInv, PollerInv, TypeInv, CursorType
    <2> QED BY <2>1, <2>2
<1> QED BY <1>1, <1>2 DEF OlderInv, BackfillOlder

\* What the first join leaves to backfill is of the archive it started from.
LEMMA ProbeOlder ==
    ASSUME OlderInv, Probe
    PROVE  BackfillOlder'
<1> DEFINE v == Generation(probe.slot, probe.after)
<1>1. phase = "probing" /\ UNCHANGED <<archived, known, whole, filled>>
    BY DEF Probe, world
<1>2. CASE v # 0
    <2>1. v \in Vols /\ v > probe.after
        BY <1>2, GenerationNewer
    <2>2. Join(v)
        BY <1>2 DEF Probe
    <2> HIDE DEF v
    <2>3. /\ cursor'.vol = v /\ phase' = "replaying"
          /\ base' = IF base = 0 THEN v ELSE base
          /\ backfill' = IF base # 0 THEN backfill
                         ELSE [todo |-> Prior(probe.after), cached |-> known]
        BY <2>2 DEF Join, At
    <2>4. base' # 0
        BY <2>1, <2>3
    <2>5. CASE base # 0
        BY <1>1, <2>1, <2>3, <2>4, <2>5, OlderTyped DEF OlderInv, BackfillOlder
    <2>6. CASE base = 0
        <3>1. filled = {} /\ whole = known /\ probe.after <= archived
            BY <1>1, <2>6 DEF OlderInv, PollerInv, BackfillLeft, BackfillOlder
        <3>2. \A u \in Prior(probe.after) : u \in Vols /\ u <= probe.after
            BY DEF Prior
        <3> QED BY <1>1, <2>1, <2>3, <2>4, <2>6, <3>1, <3>2, OlderTyped DEF OlderInv, BackfillOlder
    <2> QED BY <2>5, <2>6
<1>3. CASE v = 0
    <2>1. UNCHANGED <<cursor, backfill, base>>
          /\ (phase' = "finding" \/ (phase' = "probing" /\ probe'.after = probe.after))
        BY <1>1, <1>3 DEF Probe
    <2> QED BY <1>1, <2>1 DEF OlderInv, BackfillOlder
<1> QED BY <1>2, <1>3

\* A sweep that is reported is of the volume followed.
LEMMA DeliveredOlder ==
    ASSUME OlderInv, NEW c \in Nat, NEW filtered, Deliver(cursor.vol, c, filtered),
           phase \in {"replaying", "following"}, phase' \in {"replaying", "following"},
           cursor'.vol = cursor.vol, UNCHANGED <<archived, backfill>>
    PROVE  BackfillOlder'
<1>1. base # 0 /\ cursor.vol \in Vols
    BY OlderTyped DEF OlderInv, PollerInv, LiveInOrder
<1>2. UNCHANGED <<base, filled>> /\ assembler'.vol = cursor.vol
    BY <1>1, Delivered DEF OlderInv, PollerInv
<1>3. whole' = whole \/ whole' = whole \cup {StartOf(assembler')}
    BY DEF Deliver, Quiet
<1>4. \A u : u < cursor.vol => <<u, 1>> # StartOf(assembler')
    BY <1>1, <1>2 DEF StartOf
<1> QED BY <1>1, <1>2, <1>3, <1>4 DEF OlderInv, BackfillOlder

\* Joining and following a volume leave what is filled in older than it.
LEMMA FollowingOlder ==
    ASSUME OlderInv, Replay \/ Follow \/ ListCurrent \/ ListNext \/ FetchChunk
    PROVE  BackfillOlder'
<1>1. CASE Replay
    <2>1. Min(todo) \in Nat
        BY <1>1, MinOf DEF Replay, OlderInv, PollerInv, TypeInv
    <2> QED BY <1>1, <2>1, DeliveredOlder DEF Replay, world
<1>2. CASE FetchChunk
    <2>1. cursor.seq + 1 \in Nat /\ cursor'.vol = cursor.vol
        <3>1. cursor \in CursorType /\ cursor.seq \in Nat
            BY DEF OlderInv, PollerInv, TypeInv, CursorType
        <3>2. \E done \in BOOLEAN :
                 cursor' = [cursor EXCEPT !.seq = cursor.seq + 1, !.ended = done]
            BY <1>2 DEF FetchChunk
        <3> QED BY <3>1, <3>2 DEF CursorType
    <2> QED BY <1>2, <2>1, DeliveredOlder DEF FetchChunk, world
<1>3. CASE Follow
    <2>1. base # 0
        BY <1>3 DEF Follow, OlderInv, PollerInv, LiveInOrder
    <2> QED BY <1>3, <2>1 DEF Follow, Quiet, world, OlderInv, BackfillOlder
<1>4. CASE ListCurrent \/ ListNext
    <2>1. /\ phase = "following" /\ phase' = "following"
          /\ UNCHANGED <<archived, known, whole, filled, backfill, base>>
        BY <1>4 DEF ListCurrent, ListNext, Quiet, world
    <2>2. cursor'.vol \in Vols /\ cursor.vol <= cursor'.vol
        <3>1. CASE cursor' = At(NextVolume, 0, uploaded[NextVolume]) /\ NextVolume # 0
            BY <3>1, OlderTyped, GenerationNewer DEF At, NextVolume, OlderInv
        <3>2. CASE cursor'.vol = cursor.vol
            BY <3>2, OlderTyped DEF OlderInv
        <3>3. CASE ListCurrent
            BY <3>2, <3>3 DEF ListCurrent, OlderInv, PollerInv, TypeInv, CursorType
        <3>4. CASE ListNext
            BY <3>1, <3>2, <3>4 DEF ListNext, OlderInv, PollerInv, TypeInv, CursorType
        <3> QED BY <1>4, <3>3, <3>4
    <2> QED BY <2>1, <2>2, OlderTyped DEF OlderInv, BackfillOlder
<1> QED BY <1>1, <1>2, <1>3, <1>4

\* Filling in one volume takes one older than what is followed.
LEMMA BackfillingOlder ==
    ASSUME OlderInv, BackfillOne
    PROVE  BackfillOlder'
<1> DEFINE v == Max(backfill.todo)
           rest == backfill.todo \ {v}
<1>1. /\ UNCHANGED <<archived, phase, probe, cursor, known, whole, base>>
      /\ backfill.todo # {}
    BY DEF BackfillOne, Quiet, world
<1>2. v \in backfill.todo
    BY <1>1, MaxOf DEF OlderInv, PollerInv, TypeInv
<1> HIDE DEF v
<1>3. /\ backfill'.todo \in {rest, {}} /\ backfill'.cached = backfill.cached
      /\ \/ filled' = filled
         \/ <<v, 1>> \notin backfill.cached /\ filled' = filled \cup {v}
    BY DEF BackfillOne, Quiet, v
<1> QED BY <1>1, <1>2, <1>3 DEF OlderInv, BackfillOlder

\* No volume is backfilled under a start that a live sweep was reported with
\* (known_starts, backfill): the archive discovery starts from never goes back.
THEOREM BackfillIsNewHolds == Spec => []BackfillIsNew
<1>1. Init => OlderInv
    BY InitInv, InitOlder DEF OlderInv
<1>2. OlderInv /\ [Next]_vars => OlderInv'
    <2> SUFFICES ASSUME OlderInv, [Next]_vars PROVE OlderInv'
        OBVIOUS
    <2>1. PollerInv'
        BY StepRefines DEF OlderInv
    <2>2. CASE UNCHANGED vars
        BY <2>1, <2>2 DEF vars, world, OlderInv, BackfillOlder
    <2>3. CASE Next
        BY <2>1, <2>3, FindingOlder, WorldOlder, FailingOlder, ProbeOlder, FollowingOlder,
           BackfillingOlder DEF OlderInv, Next, Step
    <2> QED BY <2>1, <2>2, <2>3 DEF OlderInv
<1>3. OlderInv => BackfillIsNew
    BY DEF OlderInv, BackfillOlder, BackfillIsNew
<1> QED BY <1>1, <1>2, <1>3, PTL DEF Spec
=============================================================================

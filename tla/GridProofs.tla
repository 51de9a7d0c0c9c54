----------------------------- MODULE GridProofs -----------------------------
(***************************************************************************)
(* The two grid pollers.  MRMS takes as known only what the session has    *)
(* judged, and asks for no history the timeline would turn away: what it   *)
(* knows is what the timeline holds, answer by answer.  OPERA's backfill   *)
(* is sent oldest first.                                                   *)
(***************************************************************************)
EXTENDS MCGrid, FiniteSetTheorems, WellFoundedInduction, TLAPS

-----------------------------------------------------------------------------
(* The inductive invariant *)

Kinds == {"frame", "backfill", "online", "offline", "silent"}
Messages == {m \in [session : Nat, kind : Kinds, at : 0..Times] :
                m.kind \in {"frame", "backfill"} => m.at \in Obs}

\* The channel holds one message at most, of this poller or an earlier one.
Slot ==
    /\ session \in Nat
    /\ queue # <<>> =>
        queue = <<queue[1]>> /\ queue[1] \in Messages /\ queue[1].session <= session

Bucket ==
    /\ adapter \in {"mrms", "opera"} /\ now \in Obs /\ uploaded \subseteq Obs
    /\ stored \subseteq Obs /\ known \subseteq Obs /\ clock \in 0..Times
    /\ todo \subseteq Obs /\ listing.objects \subseteq Obs /\ sent \in 0..Times

\* The message of this poller in the channel is the one it awaits the answer of.
Awaited ==
    queue # <<>> /\ queue[1].session = session =>
        /\ ack = "none"
        /\ sent = IF queue[1].kind \in {"frame", "backfill"} THEN queue[1].at ELSE 0
        /\ queue[1].kind = "backfill" => phase = "fill"

Judged ==
    /\ known \subseteq judged /\ stored \subseteq judged
    /\ ack = "true" /\ sent # 0 => sent \in judged

\* The timeline and the poller trim alike, and agree up to the answer on its way.
Agree ==
    /\ RetainKnown(stored) = stored /\ clock = Newest(stored)
    /\ RetainKnown(known) = known
    /\ unshown = {} => Acknowledged = stored

\* The history still to come: missing, in the hour, and with room for it.
Pending == todo \cup IF phase = "fill" THEN {sent} ELSE {}

Missing ==
    /\ phase \in {"start", "live"} => todo = {}
    /\ phase \in {"start", "history"} => sent = 0
    /\ phase = "fill" => sent # 0 /\ sent \notin todo
    /\ \A t \in Pending :
        /\ t \notin known /\ InHour(t, Newest(known))
        /\ Cardinality({u \in known \cup Pending : u > t}) < MaxFrames

MrmsInv == adapter = "mrms" => Awaited /\ Judged /\ Agree /\ Missing

\* The backfill's composites are in order: in flight, then to begin.
Loads == [at : Obs, load : {"running", "loaded", "failed"}]

Ordered ==
    /\ inflight \in Seq(Loads)
    /\ targets \subseteq Obs
    /\ \A i, j \in 1..Len(inflight) : i < j => inflight[i].at < inflight[j].at
    /\ \A i \in 1..Len(inflight), t \in targets : inflight[i].at < t

OperaInv ==
    /\ Ordered
    /\ task \in {"off", "listing"} => targets = {} /\ inflight = <<>>
    /\ adapter = "mrms" => task = "off" /\ out = <<>>
    /\ phase \in {"start", "first"} => task = "off"
    /\ out # <<>> =>
        /\ out = <<out[1]>> /\ out[1] \in Messages
        /\ out[1].session = session /\ out[1].kind # "backfill"

GridInv == Slot /\ Bucket /\ MrmsInv /\ OperaInv

-----------------------------------------------------------------------------
(* Sets of observations *)

\* An observation is a number.
LEMMA ObsIsNat == Times \in Int /\ Times >= 1 /\ \A t \in Obs : t \in Int /\ t >= 1 /\ t <= Times
BY GridConstants DEF Obs

\* A set of observations is finite.
LEMMA ObsFinite ==
    ASSUME NEW S, S \subseteq Obs
    PROVE  IsFiniteSet(S) /\ Cardinality(S) \in Nat
<1>1. 1 \in Int /\ Times \in Int
    BY GridConstants
<1>2. IsFiniteSet(Obs)
    BY <1>1, FS_Interval DEF Obs
<1>3. IsFiniteSet(S)
    BY <1>2, FS_Subset
<1> QED BY <1>3, FS_CardinalityType

\* The fewer there are, the fewer are newer than one.
LEMMA FewerNewer ==
    ASSUME NEW S, NEW T, S \subseteq Obs, T \subseteq Obs, NEW t \in Int,
           \A u \in T : u > t => u \in S
    PROVE  Cardinality({u \in T : u > t}) <= Cardinality({u \in S : u > t})
<1>1. {u \in T : u > t} \subseteq {u \in S : u > t}
    OBVIOUS
<1>2. IsFiniteSet({u \in S : u > t})
    <2>1. {u \in S : u > t} \subseteq Obs
        OBVIOUS
    <2> QED BY <2>1, ObsFinite
<1> QED BY <1>1, <1>2, FS_Subset

\* NewestOf is what its definition says of the set itself.
LEMMA NewestOfIs ==
    ASSUME NEW S, NEW n
    PROVE  NewestOf(S, n) = {t \in S : Cardinality({u \in S : u > t}) < n}
BY DEF NewestOf

\* Some observation is the oldest.
LEMMA HasMin ==
    ASSUME NEW S, S \subseteq Obs, S # {}
    PROVE  Min(S) \in S /\ \A u \in S : Min(S) <= u
<1>1. S \subseteq Nat
    BY ObsIsNat
<1>2. PICK k \in S : \A j \in S : ~(<<j, k>> \in OpToRel(<, Nat))
    BY <1>1, NatLessThanWellFounded, WFMin
<1>3. \A j \in S : ~(j < k)
    BY <1>1, <1>2 DEF OpToRel
<1>4. \A j \in S : k <= j
    BY <1>1, <1>3
<1> QED BY <1>4 DEF Min

\* Some observation is the newest.
LEMMA HasMax ==
    ASSUME NEW S, S \subseteq Obs, S # {}
    PROVE  Max(S) \in S /\ \A u \in S : u <= Max(S)
<1> DEFINE R == {Times - s : s \in S}
<1>1. R \subseteq Nat /\ R # {}
    <2>1. \A s \in S : Times - s \in Nat
        BY ObsIsNat
    <2> QED BY <2>1
<1>2. PICK k \in R : \A j \in R : ~(<<j, k>> \in OpToRel(<, Nat))
    <2> HIDE DEF R
    <2> QED BY <1>1, NatLessThanWellFounded, WFMin
<1>3. \A j \in R : ~(j < k)
    <2> HIDE DEF R
    <2> QED BY <1>1, <1>2 DEF OpToRel
<1>4. PICK s \in S : k = Times - s
    BY <1>2
<1>5. ASSUME NEW u \in S PROVE u <= s
    <2>1. ~(Times - u < Times - s)
        BY <1>3, <1>4
    <2> QED BY <2>1, ObsIsNat
<1> QED BY <1>5 DEF Max

\* The newest of a set, and 0 of none.
LEMMA NewestIs ==
    ASSUME NEW S, S \subseteq Obs
    PROVE  /\ Newest(S) \in 0..Times
           /\ S # {} => Newest(S) \in S
           /\ \A u \in S : u <= Newest(S)
           /\ \A s \in S : (\A u \in S : u <= s) => Newest(S) = s
<1>1. CASE S = {}
    BY <1>1, GridConstants DEF Newest
<1>2. CASE S # {}
    <2>1. Newest(S) = Max(S)
        BY <1>2 DEF Newest
    <2>2. Newest(S) \in S /\ \A u \in S : u <= Newest(S)
        BY <1>2, <2>1, HasMax
    <2>3. Newest(S) \in 0..Times
        BY <2>2, ObsIsNat
    <2>4. ASSUME NEW s \in S, \A u \in S : u <= s PROVE Newest(S) = s
        BY <2>2, <2>4, ObsIsNat
    <2> QED BY <2>2, <2>3, <2>4
<1> QED BY <1>1, <1>2

\* What the trim keeps: the window, and no more than there is room for.
LEMMA RetainedIs ==
    ASSUME NEW K, K \subseteq Obs, NEW t
    PROVE  t \in RetainKnown(K) <=>
               /\ t \in K /\ t > Newest(K) - Window
               /\ Cardinality({u \in K : u > t}) < MaxFrames
<1> DEFINE W == {u \in K : u > Newest(K) - Window}
<1>1. RetainKnown(K) = {s \in W : Cardinality({u \in W : u > s}) < MaxFrames}
    BY NewestOfIs DEF RetainKnown
<1>2. ASSUME t \in W PROVE {u \in W : u > t} = {u \in K : u > t}
    <2>1. Newest(K) \in Int /\ Window \in Int /\ \A u \in K : u \in Int
        BY NewestIs, ObsIsNat, GridConstants
    <2> QED BY <1>2, <2>1
<1> QED BY <1>1, <1>2

\* The newest stays, and trimming again changes nothing.
LEMMA RetainTwice ==
    ASSUME NEW K, K \subseteq Obs
    PROVE  /\ RetainKnown(K) \subseteq K
           /\ Newest(RetainKnown(K)) = Newest(K)
           /\ RetainKnown(RetainKnown(K)) = RetainKnown(K)
<1> DEFINE R == RetainKnown(K)
<1>1. R \subseteq K
    BY RetainedIs
<1>2. Newest(R) = Newest(K)
    <2>1. CASE K = {}
        BY <1>1, <2>1 DEF Newest
    <2>2. CASE K # {}
        <3>1. Newest(K) \in K /\ Newest(K) \in Nat /\ \A u \in K : u <= Newest(K) /\ u \in Int
            BY <2>2, NewestIs, ObsIsNat
        <3>2. {u \in K : u > Newest(K)} = {}
            BY <3>1
        <3>3. Newest(K) \in R
            BY <3>1, <3>2, RetainedIs, FS_EmptySet, GridConstants
        <3> HIDE DEF R
        <3> QED BY <1>1, <3>1, <3>3, NewestIs
    <2> QED BY <2>1, <2>2
<1>3. ASSUME NEW t \in R PROVE t \in RetainKnown(R)
    <2>1. t \in Int /\ Cardinality({u \in K : u > t}) < MaxFrames /\ t > Newest(K) - Window
        BY <1>1, RetainedIs, ObsIsNat
    <2> HIDE DEF R
    <2>2. Cardinality({u \in R : u > t}) <= Cardinality({u \in K : u > t})
        BY <1>1, <2>1, FewerNewer
    <2>3. Cardinality({u \in R : u > t}) \in Nat /\ Cardinality({u \in K : u > t}) \in Nat
        BY <1>1, ObsFinite
    <2>4. Cardinality({u \in R : u > t}) < MaxFrames
        BY <2>1, <2>2, <2>3, GridConstants
    <2> QED BY <1>1, <1>2, <1>3, <2>1, <2>4, RetainedIs
<1> HIDE DEF R
<1>4. RetainKnown(R) \subseteq R
    BY <1>1, RetainedIs
<1>5. RetainKnown(R) = R
    BY <1>3, <1>4
<1> QED BY <1>1, <1>2, <1>5 DEF R

\* The later of two times.
LEMMA LaterOfTwo ==
    ASSUME NEW a \in Int, NEW b \in Int
    PROVE  Max({a, b}) = IF a >= b THEN a ELSE b
<1>1. \E x \in {a, b} : \A y \in {a, b} : x >= y
    OBVIOUS
<1>2. Max({a, b}) \in {a, b} /\ \A y \in {a, b} : Max({a, b}) >= y
    BY <1>1 DEF Max
<1> QED BY <1>2

-----------------------------------------------------------------------------
(* An answer of the timeline, and what MRMS makes of it *)

\* The timeline's clock is that of the newest it holds.
LEMMA ClockIs ==
    ASSUME stored \subseteq Obs, clock = Newest(stored), NEW t \in Obs
    PROVE  Max({clock, t}) = Newest(stored \cup {t})
<1> DEFINE S == stored \cup {t}
<1>1. S \subseteq Obs /\ t \in S /\ clock \in Int /\ t \in Int /\ 1 <= t
    BY NewestIs, ObsIsNat
<1>2. \A u \in S : u \in stored \/ u = t
    OBVIOUS
<1>3. \A u \in stored : u <= clock /\ u \in S
    BY NewestIs
<1>4. stored # {} => clock \in stored
    BY NewestIs
<1>5. stored = {} => clock = 0
    BY DEF Newest
<1> HIDE DEF S
<1>6. Max({clock, t}) \in S /\ \A u \in S : u <= Max({clock, t})
    BY <1>1, <1>2, <1>3, <1>4, <1>5, LaterOfTwo
<1>7. Newest(S) = Max({clock, t})
    BY <1>1, <1>6, NewestIs
<1> QED BY <1>7 DEF S

\* The timeline trims an MRMS grid's frames as the poller does.
LEMMA TimelineTrims ==
    ASSUME adapter = "mrms", NEW S, S \subseteq Obs
    PROVE  Retained(S, Newest(S)) = RetainKnown(S)
<1>1. \A t \in S : t \in Int /\ t <= Newest(S)
    BY NewestIs, ObsIsNat
<1>2. {t \in S : Contains(t, Newest(S))} = {t \in S : t > Newest(S) - Window}
    BY <1>1 DEF Contains, PolicyWindow
<1> QED BY <1>2 DEF Retained, RetainKnown

\* What was refused, or is there already, would be trimmed from the known too.
LEMMA RefusedIsTrimmed ==
    ASSUME adapter = "mrms", stored \subseteq Obs, clock = Newest(stored),
           RetainKnown(stored) = stored, NEW t \in Obs, Refused(t) \/ t \in stored
    PROVE  RetainKnown(stored \cup {t}) = stored
<1> DEFINE S == stored \cup {t}
<1>1. CASE t \in stored
    <2>1. S = stored
        BY <1>1
    <2> QED BY <2>1
<1>2. CASE t \notin stored /\ Refused(t)
    <2>1. S \subseteq Obs /\ t \in S /\ clock \in Int /\ t \in Int /\ 1 <= t /\ Window \in Int /\ Window >= 1
        BY NewestIs, ObsIsNat, GridConstants
    <2>2. \A u \in S : u \in stored \/ u = t
        OBVIOUS
    <2>3. \A u \in stored : u \in S /\ u <= clock /\ u \in Int
        BY NewestIs, ObsIsNat
    <2>4. stored # {}
        <3>1. CASE ~Contains(t, Max({clock, t})) /\ stored = {}
            <4>1. clock = 0
                BY <3>1 DEF Newest
            <4>2. Max({clock, t}) = t
                BY <2>1, <4>1, LaterOfTwo
            <4> QED BY <2>1, <3>1, <4>2 DEF Contains, PolicyWindow
        <3>2. CASE Cardinality(stored) >= MaxFrames /\ t < Min(stored) /\ stored = {}
            BY <3>2, FS_EmptySet, GridConstants
        <3> QED BY <1>2, <3>1, <3>2 DEF Refused
    <2>5. clock \in stored
        BY <2>4, NewestIs
    <2>6. t < clock /\ t \notin RetainKnown(S)
        <3>1. CASE ~Contains(t, Max({clock, t}))
            <4>1. ~(t > clock - Window) /\ t < clock
                BY <2>1, <3>1, LaterOfTwo DEF Contains, PolicyWindow
            <4> HIDE DEF S
            <4>2. clock \in S /\ \A u \in S : u <= clock
                BY <2>1, <2>2, <2>3, <2>5, <4>1
            <4>3. Newest(S) = clock
                BY <2>1, <4>2, NewestIs
            <4> QED BY <2>1, <4>1, <4>3, RetainedIs
        <3>2. CASE Cardinality(stored) >= MaxFrames /\ t < Min(stored)
            <4>1. \A u \in stored : t < u
                <5>1. \A u \in stored : Min(stored) <= u /\ Min(stored) \in Int
                    BY <2>3, <2>4, HasMin
                <5> QED BY <2>1, <2>3, <3>2, <5>1
            <4>2. {u \in S : u > t} = stored
                <5>1. ~(t > t)
                    BY <2>1
                <5>2. \A u \in S : u > t <=> u \in stored
                    BY <2>1, <2>2, <2>3, <4>1, <5>1
                <5> QED BY <2>3, <5>2
            <4>3. ~(Cardinality(stored) < MaxFrames)
                BY <3>2, ObsFinite, GridConstants
            <4> HIDE DEF S
            <4>4. t \notin RetainKnown(S)
                <5>1. ~(Cardinality({u \in S : u > t}) < MaxFrames)
                    BY <4>2, <4>3
                <5> QED BY <2>1, <5>1, RetainedIs
            <4>5. t < clock
                BY <2>5, <4>1
            <4> QED BY <4>4, <4>5
        <3> QED BY <1>2, <3>1, <3>2 DEF Refused
    <2>7. ASSUME NEW s \in stored PROVE s \in RetainKnown(S)
        <3>1. s > clock - Window /\ Cardinality({u \in stored : u > s}) < MaxFrames
            BY RetainedIs
        <3>2. ~(t > s)
            <4>1. CASE ~Contains(t, Max({clock, t}))
                BY <2>1, <2>3, <3>1, <4>1, LaterOfTwo DEF Contains, PolicyWindow
            <4>2. CASE Cardinality(stored) >= MaxFrames /\ t < Min(stored)
                <5>1. Min(stored) <= s /\ Min(stored) \in Int
                    BY <2>3, <2>4, HasMin
                <5> QED BY <2>1, <2>3, <4>2, <5>1
            <4> QED BY <1>2, <4>1, <4>2 DEF Refused
        <3>3. {u \in S : u > s} = {u \in stored : u > s}
            BY <3>2
        <3> HIDE DEF S
        <3>4. Newest(S) = clock
            <4>1. clock \in S /\ \A u \in S : u <= clock
                BY <2>1, <2>2, <2>3, <2>5, <2>6
            <4> QED BY <2>1, <4>1, NewestIs
        <3> QED BY <2>1, <2>3, <3>1, <3>3, <3>4, RetainedIs
    <2>8. RetainKnown(S) \subseteq S
        BY <2>1, RetainTwice
    <2> HIDE DEF S
    <2>9. RetainKnown(S) = stored
        BY <2>2, <2>6, <2>7, <2>8
    <2> QED BY <2>9 DEF S
<1> QED BY <1>1, <1>2

\* An answer keeps the timeline and what MRMS knows in agreement.
LEMMA AcceptAgrees ==
    ASSUME adapter = "mrms", Bucket, Judged, Agree, ack = "none", NEW t \in Obs, sent = t,
           NEW live \in BOOLEAN, Accept(t, live), UNCHANGED <<adapter, known, sent>>
    PROVE  stored' \subseteq Obs /\ clock' \in 0..Times /\ Judged' /\ Agree'
<1> USE DEF Bucket
<1>1. Acknowledged = known
    BY DEF Acknowledged
<1>2. sent' # 0 /\ sent' = t
    BY ObsIsNat
<1>3. CASE /\ Refused(t) \/ t \in stored
           /\ judged' = judged \cup {t} /\ ack' = "true"
           /\ UNCHANGED <<stored, clock, unshown>>
    <2>1. Judged'
        BY <1>2, <1>3 DEF Judged
    <2>2. RetainKnown(stored \cup {t}) = stored
        BY <1>3, RefusedIsTrimmed DEF Agree
    <2>3. Acknowledged' = RetainKnown(known \cup {t})
        BY <1>2, <1>3 DEF Acknowledged
    <2>4. unshown' = {} => known = stored
        BY <1>1, <1>3 DEF Agree
    <2>5. unshown' = {} => Acknowledged' = stored'
        BY <1>3, <2>2, <2>3, <2>4
    <2> QED BY <1>3, <2>1, <2>5 DEF Agree
<1>4. CASE ack' = "false" /\ UNCHANGED <<stored, clock, unshown, judged>>
    <2>1. Acknowledged' = known
        BY <1>4 DEF Acknowledged
    <2> QED BY <1>1, <1>4, <2>1 DEF Judged, Agree
<1>5. CASE /\ clock' = Max({clock, t})
           /\ stored' = Retained(stored \cup {t}, clock')
           /\ judged' = judged \cup {t}
           /\ (ack' = "true" /\ unshown' = unshown) \/ (ack' = "false" /\ unshown' = unshown \cup {t})
    <2> DEFINE S == stored \cup {t}
    <2>1. S \subseteq Obs
        OBVIOUS
    <2>2. clock' = Newest(S)
        BY <1>5, ClockIs DEF Agree
    <2>3. stored' = RetainKnown(S)
        BY <1>5, <2>1, <2>2, TimelineTrims
    <2>4. S \subseteq judged' /\ known \subseteq judged'
        BY <1>5 DEF Judged
    <2>5. unshown' = {} => unshown = {} /\ Acknowledged' = RetainKnown(known \cup {t})
        BY <1>2, <1>5 DEF Acknowledged
    <2>6. unshown' = {} => Acknowledged' = RetainKnown(S)
        BY <1>1, <2>5 DEF Agree
    <2>7. t \in S
        OBVIOUS
    <2> HIDE DEF S
    <2>8. /\ stored' \subseteq S /\ Newest(RetainKnown(S)) = Newest(S)
          /\ RetainKnown(RetainKnown(S)) = RetainKnown(S)
        BY <2>1, <2>3, RetainTwice
    <2>9. Agree'
        BY <2>2, <2>3, <2>6, <2>8 DEF Agree
    <2>10. Judged'
        BY <1>2, <2>4, <2>7, <2>8 DEF Judged
    <2> QED BY <2>1, <2>2, <2>8, <2>9, <2>10, NewestIs
<1> QED BY <1>3, <1>4, <1>5 DEF Accept

-----------------------------------------------------------------------------
(* The poll and its history *)

\* A search for the newest sends a frame or a word on the feed, never history.
LEMMA SearchSends ==
    ASSUME session \in Nat, NEW C, C \subseteq Obs, NEW lost
    PROVE  /\ NewestValid(C, lost) \in Messages
           /\ NewestValid(C, lost).session = session
           /\ NewestValid(C, lost).kind # "backfill"
<1> DEFINE V == {t \in C : \A k \in known : t > k} \ (bad \cup lost)
<1>1. 0 \in 0..Times
    BY ObsIsNat
<1>2. V \subseteq Obs
    OBVIOUS
<1> HIDE DEF V
<1>3. V # {} => Max(V) \in Obs /\ Max(V) \in 0..Times
    BY <1>2, HasMax, ObsIsNat
<1>4. NewestValid(C, lost) = IF V # {} THEN Message("frame", Max(V))
                             ELSE IF C # {t \in C : \A k \in known : t > k} THEN Message("online", 0)
                             ELSE Message("offline", 0)
    BY DEF NewestValid, V
<1>5. \/ V # {} /\ NewestValid(C, lost) = Message("frame", Max(V))
      \/ NewestValid(C, lost) \in {Message("online", 0), Message("offline", 0)}
    BY <1>4
<1>6. ASSUME NEW k \in {"online", "offline"}
      PROVE  Message(k, 0) \in Messages /\ Message(k, 0).session = session /\ Message(k, 0).kind = k
    BY <1>1 DEF Message, Messages, Kinds
<1>7. ASSUME V # {}
      PROVE  /\ Message("frame", Max(V)) \in Messages /\ Message("frame", Max(V)).session = session
             /\ Message("frame", Max(V)).kind = "frame"
    BY <1>3, <1>7 DEF Message, Messages, Kinds
<1> QED BY <1>5, <1>6, <1>7

\* So does a poll that could list, and it lists observations.
LEMMA PollSends ==
    ASSUME session \in Nat, uploaded \subseteq Obs, NEW lost, NEW older \in {{}, Yesterday}
    PROVE  /\ Found(lost, older).event \in Messages
           /\ Found(lost, older).event.session = session
           /\ Found(lost, older).event.kind # "backfill"
           /\ Found(lost, older).listing.objects \subseteq Obs
<1> DEFINE objects == IF Today = {} THEN Yesterday ELSE Today
           newest == Newest(objects)
           first == NewestValid(Candidates(objects, newest, Fallback), lost)
           short == first.kind = "offline" /\ ~(Today = {}) /\ Cardinality(objects) < Fallback
                        /\ CrossesMidnight(newest)
           second == Candidates(older, newest, Fallback - Cardinality(objects))
<1>1. objects \subseteq Obs /\ older \subseteq Obs
    BY DEF Today, Yesterday
<1>2. \A O, n, k : Candidates(O, n, k) \subseteq O
    BY NewestOfIs DEF Candidates
<1>3. Candidates(objects, newest, Fallback) \subseteq Obs /\ second \subseteq Obs
    BY <1>1, <1>2
<1>4. /\ first \in Messages /\ first.session = session /\ first.kind # "backfill"
      /\ NewestValid(second, lost) \in Messages
      /\ NewestValid(second, lost).session = session /\ NewestValid(second, lost).kind # "backfill"
    <2> HIDE DEF objects, newest, second
    <2> QED BY <1>3, SearchSends
<1>5. /\ Message("silent", 0) \in Messages
      /\ Message("silent", 0).session = session /\ Message("silent", 0).kind # "backfill"
    BY ObsIsNat DEF Message, Messages, Kinds
<1>6. Found(lost, older) =
        IF objects = {} THEN [event |-> Message("silent", 0),
                              listing |-> [ok |-> TRUE, read |-> TRUE, objects |-> {}]]
        ELSE [event |-> IF short /\ second # {} THEN NewestValid(second, lost) ELSE first,
              listing |-> [ok |-> TRUE, read |-> Today = {} \/ short,
                           objects |-> IF short THEN objects \cup older ELSE objects]]
    BY DEF Found
<1> HIDE DEF objects, newest, first, short, second
<1>7. CASE objects = {}
    BY <1>5, <1>6, <1>7
<1>8. CASE objects # {}
    BY <1>1, <1>4, <1>6, <1>8
<1> QED BY <1>7, <1>8

\* The answer adds at most what was sent, and is trimmed.
LEMMA AcknowledgedIs ==
    ASSUME known \subseteq Obs, sent \in 0..Times, RetainKnown(known) = known
    PROVE  /\ Acknowledged \subseteq Obs /\ RetainKnown(Acknowledged) = Acknowledged
           /\ Acknowledged \subseteq known \cup IF ack = "true" /\ sent # 0 THEN {sent} ELSE {}
           /\ ack = "true" /\ sent # 0 =>
                Acknowledged = RetainKnown(known \cup {sent}) /\ known \cup {sent} \subseteq Obs
           /\ ~(ack = "true" /\ sent # 0) => Acknowledged = known
<1>1. CASE ack = "true" /\ sent # 0
    <2> DEFINE S == known \cup {sent}
    <2>1. S \subseteq Obs
        BY <1>1 DEF Obs
    <2>2. Acknowledged = RetainKnown(S)
        BY <1>1 DEF Acknowledged
    <2>3. S = known \cup IF ack = "true" /\ sent # 0 THEN {sent} ELSE {}
        BY <1>1
    <2>4. RetainKnown(S) \subseteq S /\ RetainKnown(RetainKnown(S)) = RetainKnown(S)
        <3> HIDE DEF S
        <3> QED BY <2>1, RetainTwice
    <2> QED BY <1>1, <2>1, <2>2, <2>3, <2>4
<1>2. CASE ~(ack = "true" /\ sent # 0)
    BY <1>2 DEF Acknowledged
<1> QED BY <1>1, <1>2

\* What history lacks: absent from the known, in its hour, and with room.
LEMMA CandidatesLack ==
    ASSUME NEW K, K \subseteq Obs, RetainKnown(K) = K, NEW O, O \subseteq Obs
    PROVE  /\ HistoryCandidates(O, K) \subseteq Obs
           /\ \A t \in HistoryCandidates(O, K) :
                /\ t \notin K /\ InHour(t, Newest(K))
                /\ Cardinality({u \in K \cup HistoryCandidates(O, K) : u > t}) < MaxFrames
<1>1. CASE K = {}
    BY <1>1 DEF HistoryCandidates
<1>2. CASE K # {}
    <2> DEFINE S == K \cup {t \in O : InHour(t, Newest(K))}
               C == HistoryCandidates(O, K)
               T == K \cup C
    <2>1. C = RetainKnown(S) \ K
        BY <1>2 DEF HistoryCandidates
    <2>2. S \subseteq Obs /\ Newest(K) \in S /\ K \subseteq S
        BY <1>2, NewestIs
    <2>3. \A u \in S : u <= Newest(K)
        BY NewestIs DEF InHour
    <2>4. \A t \in S : t \in K \/ InHour(t, Newest(K))
        OBVIOUS
    <2> HIDE DEF S
    <2>5. Newest(S) = Newest(K)
        BY <2>2, <2>3, NewestIs
    <2>6. RetainKnown(S) \subseteq S
        BY <2>2, RetainTwice
    <2>7. C \subseteq Obs /\ T \subseteq S /\ T \subseteq Obs /\ \A t \in C : t \in S /\ t \notin K
        BY <2>1, <2>2, <2>6
    <2>8. ASSUME NEW t \in C PROVE Cardinality({u \in T : u > t}) < MaxFrames
        <3> HIDE DEF C, T
        <3>1. t \in Int /\ Cardinality({u \in S : u > t}) < MaxFrames
            BY <2>1, <2>2, <2>7, <2>8, RetainedIs, ObsIsNat
        <3>2. Cardinality({u \in T : u > t}) <= Cardinality({u \in S : u > t})
            BY <2>2, <2>7, <3>1, FewerNewer
        <3>3. Cardinality({u \in T : u > t}) \in Nat /\ Cardinality({u \in S : u > t}) \in Nat
            BY <2>2, <2>7, ObsFinite
        <3> QED BY <3>1, <3>2, <3>3, GridConstants
    <2> QED BY <2>4, <2>7, <2>8
<1> QED BY <1>1, <1>2

\* One of the missing is had: the rest are missing still.
LEMMA StillMissing ==
    ASSUME Bucket, Missing, phase = "fill", RetainKnown(known) = known,
           known' = Acknowledged, phase' = "history", todo' = todo, sent' = 0
    PROVE  Missing'
<1> USE DEF Bucket
<1>1. Pending = todo \cup {sent} /\ Pending' = todo /\ sent # 0 /\ sent \notin todo
    BY DEF Pending, Missing
<1>2. known' \subseteq Obs /\ known' \subseteq known \cup {sent}
    BY AcknowledgedIs
<1>3. sent \in Pending /\ sent \notin known /\ InHour(sent, Newest(known))
    BY <1>1 DEF Missing
<1>4. sent \in Obs /\ Pending \subseteq Obs
    BY <1>1 DEF Obs
<1>5. Newest(known') = Newest(known)
    <2>1. CASE ack = "true"
        <3> DEFINE S == known \cup {sent}
        <3>1. S \subseteq Obs /\ known' = RetainKnown(S)
            BY <1>1, <2>1, AcknowledgedIs
        <3>2. known # {}
            BY <1>3, <1>4, ObsIsNat DEF InHour, Newest
        <3>3. Newest(known) \in known /\ \A u \in known : u <= Newest(known)
            BY <3>2, NewestIs
        <3>4. Newest(known) \in S /\ \A u \in S : u <= Newest(known)
            BY <1>3, <3>3 DEF InHour
        <3> HIDE DEF S
        <3> QED BY <3>1, <3>4, NewestIs, RetainTwice
    <2>2. CASE ack # "true"
        BY <2>2, AcknowledgedIs
    <2> QED BY <2>1, <2>2
<1>6. ASSUME NEW t \in todo
      PROVE  Cardinality({u \in known' \cup todo : u > t}) < MaxFrames
    <2> DEFINE S == known \cup Pending
               T == known' \cup todo
    <2>1. S \subseteq Obs /\ T \subseteq S /\ T \subseteq Obs
        BY <1>1, <1>2, <1>4
    <2>2. t \in Pending /\ t \in Int
        BY <1>1, <1>4, ObsIsNat
    <2>3. Cardinality({u \in S : u > t}) < MaxFrames
        BY <2>2 DEF Missing
    <2> HIDE DEF S, T
    <2>4. Cardinality({u \in T : u > t}) <= Cardinality({u \in S : u > t})
        BY <2>1, <2>2, FewerNewer
    <2>5. Cardinality({u \in T : u > t}) \in Nat /\ Cardinality({u \in S : u > t}) \in Nat
        BY <2>1, ObsFinite
    <2>6. Cardinality({u \in T : u > t}) < MaxFrames
        BY <2>3, <2>4, <2>5, GridConstants
    <2> QED BY <2>6 DEF T
<1>7. ASSUME NEW t \in todo PROVE t \notin known' /\ InHour(t, Newest(known'))
    <2>1. t \in Pending /\ t # sent
        BY <1>1
    <2>2. t \notin known /\ InHour(t, Newest(known))
        BY <2>1 DEF Missing
    <2> QED BY <1>2, <1>5, <2>1, <2>2
<1> QED BY <1>1, <1>6, <1>7 DEF Missing

-----------------------------------------------------------------------------
(* Every step keeps the invariant *)

\* The invariant holds when a poller starts.
LEMMA GridInvInit == GridInit /\ MrmsInit /\ NoTask => GridInv
<1> SUFFICES ASSUME GridInit, MrmsInit, NoTask PROVE GridInv
    OBVIOUS
<1> USE DEF GridInit, MrmsInit, NoTask
<1>1. Slot
    BY DEF Slot
<1>2. Bucket
    <2>1. now \in Obs /\ uploaded \subseteq 1..now /\ 0 \in 0..Times
        BY ObsIsNat
    <2>2. uploaded \subseteq Obs
        BY <2>1, ObsIsNat DEF Obs
    <2> QED BY <2>1, <2>2 DEF Bucket, NoListing
<1>3. RetainKnown({}) = {}
    BY RetainTwice
<1>4. Acknowledged = {}
    BY DEF Acknowledged
<1>5. MrmsInv
    BY <1>3, <1>4 DEF MrmsInv, Awaited, Judged, Agree, Missing, Pending, Newest
<1>6. OperaInv
    BY DEF OperaInv, Ordered
<1> QED BY <1>1, <1>2, <1>5, <1>6 DEF GridInv

\* A message the session takes in leaves the timeline well formed.
LEMMA AcceptTyped ==
    ASSUME stored \subseteq Obs, clock \in 0..Times, NEW t \in Obs,
           NEW live \in BOOLEAN, Accept(t, live)
    PROVE  stored' \subseteq Obs /\ clock' \in 0..Times
<1>1. Max({clock, t}) \in 0..Times
    BY LaterOfTwo, ObsIsNat
<1>2. \A n : Retained(stored \cup {t}, n) \subseteq stored \cup {t}
    BY NewestOfIs DEF Retained
<1> QED BY <1>1, <1>2 DEF Accept

\* Every answer of the session keeps the invariant.
LEMMA ReceiveKeeps ==
    ASSUME GridInv, Receive, UNCHANGED <<mrms, opera>>
    PROVE  GridInv'
<1> DEFINE m == queue[1]
<1> USE DEF GridInv
<1>1. /\ queue = <<m>> /\ m \in Messages /\ queue' = <<>>
      /\ UNCHANGED <<adapter, now, uploaded, bad, reserved, session, phase, known,
                     listing, todo, sent, out, task, targets, inflight, seen>>
    BY DEF Receive, Slot, gridWorld, mrms, opera
<1>2. Slot' /\ OperaInv'
    BY <1>1 DEF Slot, OperaInv, Ordered
<1>3. CASE m.session # session
    <2>1. UNCHANGED <<ack, stored, clock, status, unshown, judged>>
        <3>1. Head(queue) = m
            BY <1>1
        <3> HIDE DEF m
        <3> QED BY <1>3, <3>1 DEF Receive, view
    <2>2. MrmsInv'
        BY <1>1, <2>1 DEF MrmsInv, Awaited, Judged, Agree, Missing, Pending, Acknowledged
    <2> QED BY <1>1, <1>2, <2>1, <2>2 DEF Bucket
<1>4. ASSUME NEW live \in BOOLEAN, Accept(m.at, live), m.kind \in {"frame", "backfill"},
             m.session = session
      PROVE  GridInv'
    <2>1. m.at \in Obs
        BY <1>1, <1>4 DEF Messages
    <2>2. Bucket'
        BY <1>1, <1>4, <2>1, AcceptTyped DEF Bucket
    <2>3. ASSUME adapter = "mrms" PROVE MrmsInv'
        <3>1. ack = "none" /\ sent = m.at
            BY <1>1, <1>4, <2>3 DEF MrmsInv, Awaited
        <3>2. Judged' /\ Agree'
            BY <1>1, <1>4, <2>1, <2>3, <3>1, AcceptAgrees DEF MrmsInv
        <3>3. Awaited' /\ Missing'
            BY <1>1, <2>3 DEF MrmsInv, Awaited, Missing, Pending
        <3> QED BY <3>2, <3>3 DEF MrmsInv
    <2> QED BY <1>1, <1>2, <2>2, <2>3 DEF MrmsInv
<1>5. CASE /\ m.session = session /\ m.kind \in {"online", "offline", "silent"}
           /\ ack' = "true" /\ UNCHANGED <<stored, clock, unshown, judged>>
    <2>1. Bucket'
        BY <1>1, <1>5 DEF Bucket
    <2>2. ASSUME adapter = "mrms" PROVE MrmsInv'
        <3>1. ack = "none" /\ sent = 0
            <4>1. Awaited
                BY <2>2 DEF MrmsInv
            <4>2. queue # <<>> /\ m.kind \notin {"frame", "backfill"}
                BY <1>1, <1>5
            <4> QED BY <1>5, <4>1, <4>2 DEF Awaited
        <3>2. Acknowledged = known /\ Acknowledged' = known
            BY <1>1, <3>1 DEF Acknowledged
        <3>3. Judged' /\ Agree'
            BY <1>1, <1>5, <2>2, <3>1, <3>2 DEF MrmsInv, Judged, Agree
        <3>4. Awaited' /\ Missing'
            BY <1>1, <2>2 DEF MrmsInv, Awaited, Missing, Pending
        <3> QED BY <3>3, <3>4 DEF MrmsInv
    <2> QED BY <1>1, <1>2, <2>1, <2>2 DEF MrmsInv
<1>6. m.session # session \/ m.session = session
    OBVIOUS
<1>7. m = Head(queue)
    BY <1>1
<1> HIDE DEF m
<1>8. ASSUME m.session = session
      PROVE  \/ m.kind = "frame" /\ Accept(m.at, TRUE)
             \/ m.kind = "backfill" /\ Accept(m.at, FALSE)
             \/ /\ m.kind \in {"online", "offline", "silent"}
                /\ ack' = "true" /\ UNCHANGED <<stored, clock, unshown, judged>>
    BY <1>7, <1>8 DEF Receive, SetStatus
<1> QED BY <1>3, <1>4, <1>5, <1>8

\* The world moves on and the invariant holds.
LEMMA WorldKeeps ==
    ASSUME GridInv, Advance \/ Publish, UNCHANGED <<mrms, opera>>
    PROVE  GridInv'
<1>1. UNCHANGED <<adapter, feed, view, phase, known, mrms, opera>>
    BY DEF Advance, Publish
<1>2. uploaded' \subseteq Obs /\ now' \in Obs
    <2>1. now \in Obs /\ now \in Int /\ uploaded \subseteq Obs
        BY ObsIsNat DEF GridInv, Bucket
    <2>2. CASE Advance
        BY <2>1, <2>2, ObsIsNat DEF Advance, Obs
    <2>3. CASE Publish
        <3>1. PICK t \in 1..now : uploaded' = uploaded \cup {t}
            BY <2>3 DEF Publish
        <3>2. t \in Obs
            BY <2>1, ObsIsNat DEF Obs
        <3> QED BY <2>1, <2>3, <3>1, <3>2 DEF Publish
    <2> QED BY <2>2, <2>3
<1> QED BY <1>1, <1>2 DEF GridInv, Slot, Bucket, MrmsInv, Awaited, Judged, Agree, Missing, Pending,
        Acknowledged, OperaInv, Ordered, feed, view, mrms, opera

\* Every step of the MRMS poller keeps the invariant.
LEMMA MrmsKeeps ==
    ASSUME GridInv, adapter = "mrms", MrmsNext, UNCHANGED opera
    PROVE  GridInv'
<1> USE DEF GridInv
<1>1. /\ UNCHANGED <<adapter, now, uploaded, stored, clock, status, unshown, judged>>
      /\ UNCHANGED <<out, task, targets, inflight, seen>>
      /\ session' \in Nat /\ session <= session'
    BY DEF MrmsNext, MrmsStep, Poll, LiveAnswered, Fill, FillAnswered, Sleep, MrmsRestart,
           gridWorld, feed, view, opera, Slot
<1>2. OperaInv'
    BY <1>1 DEF OperaInv, Ordered
<1>3. Awaited /\ Judged /\ Agree /\ Missing
    BY DEF MrmsInv
<1>4. CASE Poll
    <2>1. PICK event \in Messages : /\ event.session = session /\ event.kind # "backfill"
                                    /\ Put(event) /\ listing'.objects \subseteq Obs
                                    /\ sent' = IF event.kind = "frame" THEN event.at ELSE 0
        <3>1. ASSUME NEW lost, NEW older \in {{}, Yesterday},
                     Put(Found(lost, older).event), listing' = Found(lost, older).listing,
                     sent' = IF Found(lost, older).event.kind = "frame"
                             THEN Found(lost, older).event.at ELSE 0
              PROVE  \E event \in Messages :
                        /\ event.session = session /\ event.kind # "backfill"
                        /\ Put(event) /\ listing'.objects \subseteq Obs
                        /\ sent' = IF event.kind = "frame" THEN event.at ELSE 0
            BY <3>1, PollSends DEF Slot, Bucket
        <3>2. /\ Message("offline", 0) \in Messages /\ Message("offline", 0).session = session
              /\ Message("offline", 0).kind = "offline" /\ NoListing.objects = {}
            BY ObsIsNat DEF Message, Messages, Kinds, NoListing, Slot
        <3> QED BY <1>4, <3>1, <3>2 DEF Poll
    <2>2. UNCHANGED <<session, known, todo>> /\ phase' = "live" /\ phase = "start"
        BY <1>4 DEF Poll
    <2>3. queue' = <<event>> /\ ack' = "none"
        BY <2>1 DEF Put
    <2>4. Slot'
        BY <1>1, <2>1, <2>2, <2>3 DEF Slot
    <2>5. sent' \in 0..Times
        BY <2>1, ObsIsNat DEF Messages
    <2>6. Bucket'
        BY <1>1, <2>1, <2>2, <2>5 DEF Bucket
    <2>7. Awaited'
        BY <2>1, <2>2, <2>3 DEF Awaited
    <2>8. Judged' /\ Agree'
        <3>1. phase = "start" /\ unshown = {} => known = stored
            BY <1>3, <1>4 DEF Agree, Acknowledged, Poll, Missing
        <3> QED BY <1>1, <1>3, <2>2, <2>3, <3>1 DEF Judged, Agree, Acknowledged
    <2>9. Missing'
        BY <1>3, <2>2 DEF Missing, Pending
    <2> QED BY <1>1, <1>2, <2>4, <2>6, <2>7, <2>8, <2>9 DEF MrmsInv
<1>5. CASE LiveAnswered
    <2>1. /\ phase = "live" /\ ack # "none" /\ known' = Acknowledged /\ sent' = 0 /\ ack' = "none"
          /\ UNCHANGED <<queue, session, listing>>
        BY <1>5 DEF LiveAnswered
    <2>2. known' \subseteq Obs /\ RetainKnown(known') = known'
        BY <1>3, <2>1, AcknowledgedIs DEF Agree, Bucket
    <2>3. ASSUME NEW O, O \subseteq Obs, todo' = HistoryCandidates(O, known'), phase' = "history"
          PROVE  todo' \subseteq Obs /\ Missing'
        <3>1. /\ todo' \subseteq Obs
              /\ \A t \in todo' : /\ t \notin known' /\ InHour(t, Newest(known'))
                                  /\ Cardinality({u \in known' \cup todo' : u > t}) < MaxFrames
            BY <2>2, <2>3, CandidatesLack
        <3>2. Pending' = todo'
            BY <2>3 DEF Pending
        <3>3. \A t \in Pending' : /\ t \notin known' /\ InHour(t, Newest(known'))
                                  /\ Cardinality({u \in known' \cup Pending' : u > t}) < MaxFrames
            BY <3>1, <3>2
        <3> QED BY <2>1, <2>3, <3>1, <3>3 DEF Missing
    <2>4. todo' \subseteq Obs /\ Missing'
        <3>1. listing.objects \subseteq Obs /\ Yesterday \subseteq Obs
            BY DEF Bucket, Yesterday
        <3>2. CASE phase' = "start" /\ todo' = {}
            BY <2>1, <3>2 DEF Missing, Pending
        <3>3. CASE phase' = "history"
            <4>1. PICK O \in {listing.objects, listing.objects \cup Yesterday, listing.objects \cup {}} :
                        todo' = HistoryCandidates(O, known')
                BY <1>5, <3>3 DEF LiveAnswered
            <4> QED BY <2>3, <3>1, <3>3, <4>1
        <3> QED BY <1>5, <3>2, <3>3 DEF LiveAnswered
    <2>5. Slot' /\ Bucket'
        BY <1>1, <2>1, <2>2, <2>4, ObsIsNat DEF Slot, Bucket
    <2>6. Awaited'
        BY <1>3, <2>1 DEF Awaited
    <2>7. known' \subseteq judged
        BY <1>3, <2>1, AcknowledgedIs DEF Judged, Agree, Bucket
    <2>8. Judged' /\ Agree'
        <3>1. Acknowledged' = known'
            BY <2>1 DEF Acknowledged
        <3> QED BY <1>1, <1>3, <2>1, <2>2, <2>7, <3>1 DEF Judged, Agree
    <2> QED BY <1>1, <1>2, <2>4, <2>5, <2>6, <2>8 DEF MrmsInv
<1>6. CASE Fill
    <2> DEFINE t == Max(todo)
    <2>1. /\ phase = "history" /\ todo # {} /\ todo' = todo \ {t}
          /\ UNCHANGED <<session, known, listing>>
        BY <1>6 DEF Fill
    <2>2. t \in todo /\ t \in Obs /\ sent = 0
        BY <1>3, <2>1, HasMax DEF Bucket, Missing
    <2> HIDE DEF t
    <2>3. t # 0 /\ t \in 0..Times /\ Pending = todo
        BY <2>1, <2>2, ObsIsNat DEF Pending
    <2>4. \/ /\ Put(Message("backfill", t)) /\ sent' = t /\ phase' = "fill"
          \/ UNCHANGED <<phase, queue, reserved, ack, sent>>
        BY <1>6 DEF Fill, t
    <2>5. Pending' \subseteq todo /\ (phase' = "fill" => sent' # 0 /\ sent' \notin todo')
          /\ (phase' = "history" => sent' = 0) /\ phase' \in {"history", "fill"}
        BY <2>1, <2>2, <2>3, <2>4 DEF Pending
    <2>6. Missing'
        <3>1. ASSUME NEW s \in Pending'
              PROVE  /\ s \notin known' /\ InHour(s, Newest(known'))
                     /\ Cardinality({u \in known' \cup Pending' : u > s}) < MaxFrames
            <4> DEFINE S == known \cup Pending
                       T == known' \cup Pending'
            <4>1. S \subseteq Obs /\ T \subseteq S /\ T \subseteq Obs
                BY <2>1, <2>3, <2>5 DEF Bucket
            <4>2. s \in Pending /\ s \in Int
                BY <2>3, <2>5, ObsIsNat DEF Bucket
            <4>3. Cardinality({u \in S : u > s}) < MaxFrames /\ s \notin known /\ InHour(s, Newest(known))
                BY <1>3, <4>2 DEF Missing
            <4> HIDE DEF S, T
            <4>4. Cardinality({u \in T : u > s}) <= Cardinality({u \in S : u > s})
                BY <4>1, <4>2, FewerNewer
            <4>5. Cardinality({u \in T : u > s}) \in Nat /\ Cardinality({u \in S : u > s}) \in Nat
                BY <4>1, ObsFinite
            <4>6. Cardinality({u \in T : u > s}) < MaxFrames
                BY <4>3, <4>4, <4>5, GridConstants
            <4> QED BY <2>1, <4>3, <4>6 DEF T
        <3>2. phase' \notin {"start", "live"}
            BY <2>5
        <3> QED BY <2>5, <3>1, <3>2 DEF Missing
    <2>7. CASE UNCHANGED <<phase, queue, reserved, ack, sent>>
        <3>1. Slot' /\ Bucket' /\ Awaited' /\ Judged' /\ Agree'
            BY <1>1, <1>3, <2>1, <2>7 DEF Slot, Bucket, Awaited, Judged, Agree, Acknowledged
        <3> QED BY <1>2, <2>6, <3>1 DEF MrmsInv
    <2>8. CASE Put(Message("backfill", t)) /\ sent' = t /\ phase' = "fill"
        <3> DEFINE m == Message("backfill", t)
        <3>1. m \in Messages /\ m.session = session /\ m.kind = "backfill" /\ m.at = t
            BY <2>2, <2>3 DEF Message, Messages, Kinds, Slot
        <3>2. queue' = <<m>> /\ ack' = "none"
            BY <2>8 DEF Put
        <3> HIDE DEF m
        <3>3. Slot' /\ Bucket'
            BY <1>1, <2>1, <2>3, <2>8, <3>1, <3>2 DEF Slot, Bucket
        <3>4. Awaited'
            BY <2>8, <3>1, <3>2 DEF Awaited
        <3>5. Acknowledged = known /\ Acknowledged' = known'
            BY <2>2, <3>2 DEF Acknowledged
        <3>6. Judged' /\ Agree'
            BY <1>1, <1>3, <2>1, <3>2, <3>5 DEF Judged, Agree
        <3> QED BY <1>2, <2>6, <3>3, <3>4, <3>6 DEF MrmsInv
    <2> QED BY <2>4, <2>7, <2>8
<1>7. CASE FillAnswered
    <2>1. /\ phase = "fill" /\ ack # "none" /\ known' = Acknowledged /\ sent' = 0 /\ ack' = "none"
          /\ phase' = "history" /\ UNCHANGED <<queue, session, listing, todo>>
        BY <1>7 DEF FillAnswered
    <2>2. known' \subseteq Obs /\ RetainKnown(known') = known' /\ known' \subseteq judged
        BY <1>3, <2>1, AcknowledgedIs DEF Judged, Agree, Bucket
    <2>3. Slot' /\ Bucket'
        BY <1>1, <2>1, <2>2, ObsIsNat DEF Slot, Bucket
    <2>4. Awaited'
        BY <1>3, <2>1 DEF Awaited
    <2>5. Judged' /\ Agree'
        <3>1. Acknowledged' = known'
            BY <2>1 DEF Acknowledged
        <3> QED BY <1>1, <1>3, <2>1, <2>2, <3>1 DEF Judged, Agree
    <2>6. Missing'
        BY <1>3, <2>1, StillMissing DEF Agree
    <2> QED BY <1>2, <2>3, <2>4, <2>5, <2>6 DEF MrmsInv
<1>8. CASE Sleep
    <2>1. /\ phase = "history" /\ phase' = "start" /\ todo' = {} /\ listing' = NoListing
          /\ UNCHANGED <<queue, session, ack, known, sent>>
        BY <1>8 DEF Sleep, feed
    <2>2. Slot' /\ Bucket'
        BY <1>1, <2>1 DEF Slot, Bucket, NoListing
    <2>3. Awaited'
        BY <1>3, <2>1 DEF Awaited
    <2>4. Judged' /\ Agree' /\ Missing'
        BY <1>1, <1>3, <2>1 DEF Judged, Agree, Missing, Pending, Acknowledged
    <2> QED BY <1>2, <2>2, <2>3, <2>4 DEF MrmsInv
<1>9. CASE MrmsRestart
    <2>1. /\ session' = session + 1 /\ known' = RetainKnown(stored) /\ phase' = "start"
          /\ listing' = NoListing /\ todo' = {} /\ sent' = 0 /\ ack' = "none" /\ queue' = queue
        BY <1>9 DEF MrmsRestart
    <2>2. known' = stored
        BY <1>3, <2>1 DEF Agree
    <2>3. Slot' /\ Bucket'
        BY <1>1, <2>1, <2>2, ObsIsNat DEF Slot, Bucket, NoListing, Messages
    <2>4. Awaited'
        BY <2>1 DEF Awaited, Slot, Messages
    <2>5. Acknowledged' = known'
        BY <2>1 DEF Acknowledged
    <2>6. Judged' /\ Agree' /\ Missing'
        BY <1>1, <1>3, <2>1, <2>2, <2>5 DEF Judged, Agree, Missing, Pending
    <2> QED BY <1>2, <2>3, <2>4, <2>6 DEF MrmsInv
<1> QED BY <1>4, <1>5, <1>6, <1>7, <1>8, <1>9 DEF MrmsNext, MrmsStep

\* What OPERA lists are observations.
LEMMA RecentlyIs == uploaded \subseteq Obs => Recently \subseteq Obs /\ Newest(Recently) \in 0..Times
    /\ (Newest(Recently) # 0 => Newest(Recently) \in Obs)
<1>1. uploaded \subseteq Obs => Recently \subseteq Obs
    BY DEF Recently, Today, Yesterday
<1> QED BY <1>1, NewestIs, ObsIsNat DEF Newest

\* Every step of the OPERA poller keeps the invariant.
LEMMA OperaKeeps ==
    ASSUME GridInv, adapter = "opera", OperaNext, UNCHANGED mrms
    PROVE  GridInv'
<1> USE DEF GridInv
<1>1. /\ UNCHANGED <<adapter, now, uploaded, stored, clock, status, unshown, judged>>
      /\ UNCHANGED <<listing, todo, sent>>
    BY DEF OperaNext, OperaStep, OperaTask, FirstFetch, SendLive, NextFetch, ListHistory, Begin,
           Loaded, JoinOldest, HistoryDone, OperaRestart, gridWorld, feed, view, mrms
<1>2. MrmsInv'
    BY <1>1 DEF MrmsInv
<1>3. Slot /\ Bucket /\ Ordered /\ OperaInv
    BY DEF OperaInv
<1>4. ASSUME NEW kind \in {"frame", "online", "offline", "silent"}, NEW at \in 0..Times,
             kind = "frame" => at \in Obs
      PROVE  /\ Message(kind, at) \in Messages /\ Message(kind, at).session = session
             /\ Message(kind, at).kind # "backfill"
    BY <1>3, <1>4 DEF Message, Messages, Kinds, Slot
<1>5. ASSUME NEW kind \in {"frame", "online", "offline", "silent"}, NEW at \in 0..Times,
             kind = "frame" => at \in Obs, Say(kind, at), known' \subseteq Obs,
             UNCHANGED <<queue, session, task, targets, inflight>>,
             phase' = phase \/ phase = "start"
      PROVE  GridInv'
    <2> DEFINE m == Message(kind, at)
    <2>1. out' = <<m>> /\ m \in Messages /\ m.session = session /\ m.kind # "backfill"
        BY <1>4, <1>5 DEF Say
    <2> HIDE DEF m
    <2>2. OperaInv'
        BY <1>1, <1>3, <1>5, <2>1 DEF OperaInv, Ordered
    <2> QED BY <1>1, <1>2, <1>3, <1>5, <2>2 DEF Slot, Bucket
<1>6. Newest(Recently) \in 0..Times /\ (Newest(Recently) # 0 => Newest(Recently) \in Obs) /\ 0 \in 0..Times
    BY RecentlyIs, ObsIsNat DEF Bucket
<1>7. CASE FirstFetch
    <2>1. UNCHANGED <<queue, session, task, targets, inflight>> /\ phase = "start"
        BY <1>7 DEF FirstFetch, feed
    <2>2. known' \subseteq Obs
        BY <1>3, <1>6, <1>7 DEF FirstFetch, Bucket
    <2>3. \/ Say("silent", 0) \/ Say("offline", 0)
          \/ Newest(Recently) # 0 /\ Say("frame", Newest(Recently))
        BY <1>7 DEF FirstFetch
    <2> QED BY <1>5, <1>6, <2>1, <2>2, <2>3
<1>8. CASE NextFetch
    <2>1. UNCHANGED <<queue, session, task, targets, inflight, phase>>
        BY <1>8 DEF NextFetch, feed
    <2>2. known' \subseteq Obs
        BY <1>3, <1>6, <1>8 DEF NextFetch, Bucket, Remember
    <2>3. \/ Say("offline", 0)
          \/ Newest(Recently) # 0 /\ Say("frame", Newest(Recently))
        BY <1>8 DEF NextFetch
    <2> QED BY <1>5, <1>6, <2>1, <2>2, <2>3
<1>9. CASE SendLive
    <2>1. out = <<out[1]>> /\ out[1] \in Messages /\ out[1].session = session /\ out[1].kind # "backfill"
        BY <1>3, <1>9 DEF SendLive, OperaInv
    <2>2. Head(out) = out[1]
        BY <2>1
    <2>3. queue' = <<out[1]>> /\ out' = <<>> /\ UNCHANGED <<session, known, targets, inflight>>
        BY <1>9, <2>2 DEF SendLive, Put
    <2>4. Slot'
        BY <1>3, <2>1, <2>3 DEF Slot
    <2>5. (task' = task /\ phase # "first") \/ (task' = "listing" /\ task = "off")
        BY <1>3, <1>9 DEF SendLive, OperaInv
    <2>6. phase' = "poll"
        BY <1>9 DEF SendLive
    <2>7. OperaInv'
        BY <1>1, <1>3, <2>3, <2>5, <2>6 DEF OperaInv, Ordered
    <2> QED BY <1>1, <1>2, <1>3, <2>3, <2>4, <2>7 DEF Bucket
<1>10. ASSUME UNCHANGED <<queue, session, known, phase, out>>, Ordered',
              task = "loading", task' \in {"loading", "done"}
       PROVE  GridInv'
    BY <1>1, <1>2, <1>3, <1>10 DEF Slot, Bucket, OperaInv
<1>11. CASE ListHistory
    <2>1. /\ task = "listing" /\ task' \in {"loading", "done"}
          /\ UNCHANGED <<queue, session, known, phase, out, inflight>>
        BY <1>11 DEF ListHistory, feed
    <2>2. targets = {} /\ inflight = <<>>
        BY <1>3, <2>1 DEF OperaInv
    <2>3. targets' \subseteq Obs
        BY <1>3, <1>11, <2>2, RecentlyIs, NewestOfIs DEF ListHistory, Bucket
    <2>4. Ordered'
        BY <2>1, <2>2, <2>3 DEF Ordered
    <2>5. phase \notin {"start", "first"}
        BY <1>3, <2>1 DEF OperaInv
    <2>6. OperaInv'
        BY <1>1, <1>3, <2>1, <2>4, <2>5 DEF OperaInv
    <2> QED BY <1>1, <1>2, <1>3, <2>1, <2>6 DEF Slot, Bucket
<1>12. CASE Begin
    <2> DEFINE t == Min(targets)
               e == [at |-> t, load |-> "running"]
               n == Len(inflight)
    <2>1. /\ task = "loading" /\ task' = "loading" /\ targets # {} /\ targets' = targets \ {t}
          /\ inflight' = Append(inflight, e) /\ UNCHANGED <<queue, session, known, phase, out>>
        BY <1>12 DEF Begin, feed
    <2>2. t \in targets /\ t \in Obs /\ \A u \in targets : t <= u
        BY <1>3, <2>1, HasMin DEF Ordered
    <2>3. e \in Loads /\ e.at = t
        BY <2>2 DEF Loads
    <2> HIDE DEF t, e
    <2>4. /\ inflight' \in Seq(Loads)
          /\ n \in Nat /\ Len(inflight') = n + 1 /\ inflight'[n + 1] = e
          /\ \A i \in 1..n : inflight'[i] = inflight[i]
        BY <1>3, <2>1, <2>3 DEF Ordered
    <2>5. ASSUME NEW i \in 1..Len(inflight'), NEW j \in 1..Len(inflight'), i < j
          PROVE  inflight'[i].at < inflight'[j].at
        <3>1. i \in 1..n /\ (j \in 1..n \/ j = n + 1)
            BY <2>4, <2>5
        <3> HIDE DEF n
        <3> QED BY <1>3, <2>2, <2>3, <2>4, <2>5, <3>1 DEF Ordered, n
    <2>6. ASSUME NEW i \in 1..Len(inflight'), NEW u \in targets'
          PROVE  inflight'[i].at < u
        <3>1. u \in targets /\ u # t /\ u \in Int /\ t \in Int
            BY <1>3, <2>1, <2>2, ObsIsNat DEF Ordered
        <3>2. i \in 1..n \/ i = n + 1
            BY <2>4
        <3>3. CASE i \in 1..n
            BY <1>3, <2>4, <3>1, <3>3 DEF Ordered
        <3>4. CASE i = n + 1
            BY <2>2, <2>3, <2>4, <3>1, <3>4
        <3> QED BY <3>2, <3>3, <3>4
    <2>7. Ordered'
        BY <1>3, <2>1, <2>4, <2>5, <2>6 DEF Ordered
    <2> QED BY <1>10, <2>1, <2>7
<1>13. CASE Loaded
    <2>1. PICK i \in 1..Len(inflight) :
            \/ inflight' = [inflight EXCEPT ![i].load = "loaded"]
            \/ inflight' = [inflight EXCEPT ![i].load = "failed"]
        BY <1>13 DEF Loaded
    <2>2. UNCHANGED <<queue, session, known, phase, out, targets, task>>
        BY <1>13 DEF Loaded, feed
    <2>3. /\ inflight' \in Seq(Loads)
          /\ Len(inflight') = Len(inflight)
          /\ \A j \in 1..Len(inflight) : inflight'[j].at = inflight[j].at
        <3>1. PICK l \in {"loaded", "failed"} :
                inflight' = [inflight EXCEPT ![i] = [inflight[i] EXCEPT !.load = l]]
            BY <2>1
        <3> DEFINE e == [inflight[i] EXCEPT !.load = l]
        <3>2. inflight[i] \in Loads
            BY <1>3 DEF Ordered
        <3>3. e \in Loads /\ e.at = inflight[i].at
            BY <3>2 DEF Loads
        <3>4. inflight' = [inflight EXCEPT ![i] = e]
            BY <3>1
        <3> HIDE DEF e
        <3> QED BY <1>3, <3>3, <3>4 DEF Ordered
    <2>4. Ordered'
        BY <1>3, <2>2, <2>3 DEF Ordered
    <2>5. inflight # <<>>
        BY <2>1
    <2>6. OperaInv'
        BY <1>1, <1>3, <2>2, <2>4, <2>5 DEF OperaInv
    <2> QED BY <1>1, <1>2, <1>3, <2>2, <2>6 DEF Slot, Bucket
<1>14. CASE JoinOldest
    <2>1. /\ task = "loading" /\ task' = "loading" /\ inflight # <<>> /\ inflight' = Tail(inflight)
          /\ UNCHANGED <<session, known, phase, out, targets>>
        BY <1>14 DEF JoinOldest, Joining
    <2>2. /\ inflight' \in Seq(Loads)
          /\ Len(inflight) \in Nat /\ Len(inflight') = Len(inflight) - 1
          /\ \A i \in 1..Len(inflight') : i + 1 \in 1..Len(inflight) /\ inflight'[i] = inflight[i + 1]
        BY <1>3, <2>1 DEF Ordered
    <2>3. Ordered'
        BY <1>3, <2>1, <2>2 DEF Ordered
    <2>4. OperaInv'
        BY <1>1, <1>3, <2>1, <2>3 DEF OperaInv
    <2>5. queue' = queue \/ (Head(inflight).load = "loaded" /\ queue' = <<Message("backfill", Head(inflight).at)>>)
        BY <1>14 DEF JoinOldest, Put
    <2>6. Head(inflight).at \in Obs
        <3>1. inflight[1] \in Loads /\ Head(inflight) = inflight[1]
            BY <1>3, <2>1 DEF Ordered
        <3> QED BY <3>1 DEF Loads
    <2>7. /\ Message("backfill", Head(inflight).at) \in Messages
          /\ Message("backfill", Head(inflight).at).session = session
        BY <1>3, <2>6, ObsIsNat DEF Message, Messages, Kinds, Slot
    <2>8. Slot'
        BY <1>3, <2>1, <2>5, <2>7 DEF Slot
    <2> QED BY <1>1, <1>2, <1>3, <2>1, <2>4, <2>8 DEF Bucket
<1>15. CASE HistoryDone
    BY <1>3, <1>10, <1>15 DEF HistoryDone, feed, Ordered
<1>16. CASE OperaRestart
    <2>1. /\ session' = session + 1 /\ known' = {} /\ queue' = queue /\ task' = "off"
          /\ out' = <<>> /\ targets' = {} /\ inflight' = <<>>
        BY <1>16 DEF OperaRestart
    <2>2. Slot'
        BY <1>3, <2>1 DEF Slot, Messages
    <2>3. OperaInv'
        BY <2>1 DEF OperaInv, Ordered
    <2> QED BY <1>1, <1>2, <1>3, <2>1, <2>2, <2>3 DEF Bucket
<1> QED BY <1>7, <1>8, <1>9, <1>11, <1>12, <1>13, <1>14, <1>15, <1>16 DEF OperaNext, OperaStep, OperaTask

\* Every step of the session and the two pollers keeps the invariant.
LEMMA GridInvStep == GridInv /\ [Next]_gridVars => GridInv'
<1> SUFFICES ASSUME GridInv, [Next]_gridVars PROVE GridInv'
    OBVIOUS
<1>1. CASE UNCHANGED gridVars
    BY <1>1 DEF gridVars, GridInv, Slot, Bucket, MrmsInv, Awaited, Judged, Agree, Missing, Pending,
        Acknowledged, OperaInv, Ordered, gridWorld, feed, view, mrms, opera
<1> QED BY <1>1, ReceiveKeeps, WorldKeeps, MrmsKeeps, OperaKeeps DEF Next

-----------------------------------------------------------------------------
(* The theorems *)

\* The invariant of the grid pollers holds whatever the bucket holds.
THEOREM GridsAgree == Spec => []GridInv
BY GridInvInit, GridInvStep, PTL DEF Spec

\* Nothing is known to the MRMS poller that the session has not judged.
THEOREM KnownIsJudgedHolds == Spec => []KnownIsJudged
<1>1. GridInv => KnownIsJudged
    BY DEF GridInv, MrmsInv, Judged, KnownIsJudged
<1> QED BY <1>1, GridsAgree, PTL

\* No history is asked for that the timeline would turn away.
THEOREM HistoryIsWantedHolds == Spec => []HistoryIsWanted
<1>1. ASSUME GridInv PROVE HistoryIsWanted
    <2> SUFFICES ASSUME adapter = "mrms", unshown = {}, NEW i \in 1..Len(queue),
                        queue[i].kind = "backfill", queue[i].session = session
                 PROVE  ~Refused(queue[i].at) /\ queue[i].at \notin stored
        BY DEF HistoryIsWanted
    <2> DEFINE t == queue[1].at
    <2>1. Slot /\ Bucket /\ Awaited /\ Agree /\ Missing
        BY <1>1 DEF GridInv, MrmsInv
    <2>2. queue # <<>>
        OBVIOUS
    <2>3. i = 1
        <3>1. queue = <<queue[1]>>
            BY <2>1, <2>2 DEF Slot
        <3>2. Len(queue) = 1
            BY <3>1
        <3> QED BY <3>2
    <2>4. phase = "fill" /\ sent = t /\ ack = "none"
        BY <2>1, <2>2, <2>3 DEF Awaited
    <2> HIDE DEF t
    <2>5. t \in Obs /\ t \in Pending /\ known = stored
        BY <2>1, <2>4 DEF Missing, Pending, Agree, Acknowledged, Bucket, Obs
    <2>6. t \notin stored /\ InHour(t, clock) /\ Cardinality({u \in stored \cup Pending : u > t}) < MaxFrames
        BY <2>1, <2>5 DEF Missing, Agree
    <2>7. clock \in Int /\ t \in Int /\ Window \in Int
        BY <2>1, <2>5, ObsIsNat, GridConstants DEF Bucket
    <2>8. Contains(t, Max({clock, t}))
        BY <2>6, <2>7, LaterOfTwo DEF Contains, InHour, PolicyWindow
    <2>9. ~(Cardinality(stored) >= MaxFrames /\ t < Min(stored))
        <3> SUFFICES ASSUME Cardinality(stored) >= MaxFrames, t < Min(stored) PROVE FALSE
            OBVIOUS
        <3> DEFINE S == stored \cup Pending
                   N == {u \in S : u > t}
        <3>1. stored \subseteq Obs /\ S \subseteq Obs
            BY <2>1, <2>4, <2>5 DEF Bucket, Pending, Obs
        <3>2. stored # {}
            BY FS_EmptySet, GridConstants
        <3>3. \A u \in stored : u > t /\ u \in S
            <4>1. \A u \in stored : Min(stored) <= u /\ Min(stored) \in Int /\ u \in Int
                BY <3>1, <3>2, HasMin, ObsIsNat
            <4> QED BY <2>7, <4>1
        <3>4. stored \subseteq N /\ N \subseteq Obs
            BY <3>1, <3>3
        <3>5. Cardinality(N) < MaxFrames
            BY <2>6
        <3> HIDE DEF N
        <3>6. Cardinality(stored) <= Cardinality(N) /\ Cardinality(stored) \in Nat /\ Cardinality(N) \in Nat
            BY <3>1, <3>4, ObsFinite, FS_Subset
        <3> QED BY <3>5, <3>6, GridConstants
    <2> QED BY <2>3, <2>6, <2>8, <2>9 DEF Refused, t
<1> QED BY <1>1, GridsAgree, PTL

\* OPERA's backfill reaches the channel oldest first.
THEOREM BackfillInOrderHolds == Spec => BackfillInOrder
<1> DEFINE InOrder ==
        queue' # queue /\ queue' # <<>> /\ queue'[1].kind = "backfill" /\ task' = "loading"
            => \A i \in 1..Len(inflight') : queue'[1].at < inflight'[i].at
<1>1. ASSUME GridInv, GridInv', [Next]_gridVars PROVE [InOrder]_operaVars
    <2> SUFFICES ASSUME queue' # queue, queue' # <<>>, queue'[1].kind = "backfill", task' = "loading"
                 PROVE  \A i \in 1..Len(inflight') : queue'[1].at < inflight'[i].at
        OBVIOUS
    <2>1. adapter' # "mrms"
        BY <1>1 DEF GridInv, OperaInv
    <2>2. CASE JoinOldest
        <3>1. inflight # <<>> /\ inflight' = Tail(inflight) /\ queue' = <<Message("backfill", Head(inflight).at)>>
            BY <2>2 DEF JoinOldest, Joining, Put
        <3>2. queue'[1].at = inflight[1].at
            BY <3>1 DEF Message
        <3>3. /\ Len(inflight) \in Nat /\ Len(inflight) >= 1 /\ Len(inflight') = Len(inflight) - 1
              /\ \A i \in 1..Len(inflight') : i + 1 \in 1..Len(inflight) /\ inflight'[i] = inflight[i + 1]
            BY <1>1, <3>1 DEF GridInv, OperaInv, Ordered
        <3> QED BY <1>1, <3>2, <3>3 DEF GridInv, OperaInv, Ordered
    <2>3. CASE SendLive
        <3>1. queue' = <<Head(out)>> /\ out # <<>>
            BY <2>3 DEF SendLive, Put
        <3>2. out = <<out[1]>> /\ out[1].kind # "backfill"
            BY <1>1, <3>1 DEF GridInv, OperaInv
        <3>3. queue'[1] = out[1]
            BY <3>1, <3>2
        <3> QED BY <3>2, <3>3
    <2>4. CASE Receive
        BY <2>4 DEF Receive
    <2>5. CASE adapter = "mrms" /\ MrmsNext
        BY <2>1, <2>5 DEF MrmsNext, MrmsStep, Poll, LiveAnswered, Fill, FillAnswered, Sleep,
            MrmsRestart, gridWorld
    <2>6. CASE Advance \/ Publish \/ FirstFetch \/ NextFetch \/ ListHistory \/ Begin \/ Loaded
               \/ HistoryDone \/ OperaRestart \/ UNCHANGED gridVars
        BY <2>6 DEF Advance, Publish, FirstFetch, NextFetch, ListHistory, Begin, Loaded, HistoryDone,
            OperaRestart, feed, gridVars
    <2> QED BY <1>1, <2>2, <2>3, <2>4, <2>5, <2>6 DEF Next, OperaNext, OperaStep, OperaTask
<1> QED BY <1>1, GridsAgree, PTL DEF BackfillInOrder, Spec
=============================================================================

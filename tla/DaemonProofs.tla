---------------------------- MODULE DaemonProofs ----------------------------
(***************************************************************************)
(* The parts of the daemon around the session, for any number of clients,  *)
(* launches and files, and any crashes, errors and stalls: only the holder *)
(* of the lock clears and binds the socket, no view is handed back and     *)
(* forth, a wedged poller is restarted, a client in the list is never left *)
(* behind, a row in the catalog has its files, textures stay for           *)
(* RETIRE_AFTER after the last state that named them and no longer, and    *)
(* each slice of the circle draws the ray nearest to it.                   *)
(***************************************************************************)
EXTENDS Launcher, Covering, Clients, Feed, Catalog, Retirement, SweepTexture,
        OrderingProofs, FiniteSetTheorems, WellFoundedInduction, TLAPS

(* The launcher *)

DaemonPhases == {"none", "start", "locked", "clear", "bound", "serving", "dying", "dead"}
LaunchPlaces == {"look", "spawn", "child", "wait", "waited", "probed", "done", "failed"}

\* Only the functions' domains and ranges matter to the argument.
LauncherType ==
    /\ daemon \in [Pids -> DaemonPhases]
    /\ at \in [Launchers -> LaunchPlaces]
    /\ child \in [Launchers -> Pids \cup {Free}]
    /\ told \in [Launchers -> Pids \cup {Free}]
    /\ build \in [Launchers \cup Pids -> Builds]
    /\ socket \in Pids \cup {Free}
    /\ crashes \in Nat /\ late \in Nat

\* A daemon past the lock holds it, and so does a launcher that probes it.
LockHeld ==
    /\ \A d \in Pids : daemon[d] \in {"locked", "clear", "bound", "serving", "dying"} => lock = d
    /\ \A l \in Launchers : at[l] \in {"waited", "probed"} => lock = l

SocketInv == LauncherType /\ LockHeld /\ SocketIsOwners

\* While launches want one build, none of them ends a daemon of it.
OwnAreSpared ==
    crashes = 0 /\ late = 0 /\ SameBuild =>
        \A d \in Pids, l \in Launchers : daemon[d] = "dying" => build[d] # build[l]

ReadyInv == OwnAreSpared /\ ReadyLasts

-----------------------------------------------------------------------------
\* The variables have their types at the start.
LEMMA LauncherTypeInit == LauncherInit => LauncherType
<1> SUFFICES ASSUME LauncherInit PROVE LauncherType
    OBVIOUS
<1>1. build \in [Launchers \cup Pids -> Builds]
    BY DEF LauncherInit
<1> QED BY <1>1, LauncherConstants DEF LauncherInit, LauncherType, DaemonPhases, LaunchPlaces, Free

\* Every step of a process keeps the types.
LEMMA LauncherTypeStep == LauncherType /\ [LauncherNext]_launcherVars => LauncherType'
<1> SUFFICES ASSUME LauncherType, [LauncherNext]_launcherVars PROVE LauncherType'
    OBVIOUS
<1> USE LauncherConstants DEF LauncherType, DaemonPhases, LaunchPlaces, Becomes, Goes, fates
<1>1. ASSUME NEW d \in Pids, DaemonStep(d) PROVE LauncherType'
    BY <1>1 DEF DaemonStep, TryLock, ClearSocket, Bind, Greets, Dies
<1>2. ASSUME NEW d \in Pids, Crash(d) PROVE LauncherType'
    BY <1>2 DEF Crash
<1>3. ASSUME NEW l \in Launchers, Look(l) PROVE LauncherType'
    BY <1>3 DEF Look, Ends, Unanswered, Answering
<1>4. ASSUME NEW l \in Launchers, Spawn(l) PROVE LauncherType'
    BY <1>4 DEF Spawn
<1>5. ASSUME NEW l \in Launchers, Probe(l) \/ ProbeEnds(l) \/ LoopOn(l) \/ TerminateDeadline(l)
      PROVE LauncherType'
    BY <1>5 DEF Probe, ProbeEnds, LoopOn, TerminateDeadline, Unanswered
<1>6. ASSUME NEW l \in Launchers, EnsureDeadline(l) PROVE LauncherType'
    BY <1>6 DEF EnsureDeadline
<1>7. CASE UNCHANGED launcherVars
    BY <1>7 DEF launcherVars
<1> QED BY <1>1, <1>2, <1>3, <1>4, <1>5, <1>6, <1>7 DEF LauncherNext, LauncherStep

-----------------------------------------------------------------------------
(* The lock and the socket *)

\* At the start the lock and the socket are a serving daemon's or nobody's.
LEMMA SocketInit == LauncherInit => LockHeld /\ SocketIsOwners
BY LauncherConstants DEF LauncherInit, LockHeld, SocketIsOwners, Free

\* Every step leaves the lock with its holder and the socket with its owner.
LEMMA SocketStep ==
    ASSUME SocketInv, [LauncherNext]_launcherVars
    PROVE  LockHeld' /\ SocketIsOwners'
<1> USE LauncherConstants DEF SocketInv, LauncherType, DaemonPhases, LaunchPlaces, Becomes, Goes, fates, LockHeld,
        SocketIsOwners
<1>1. ASSUME NEW d \in Pids, TryLock(d) PROVE LockHeld' /\ SocketIsOwners'
    BY <1>1 DEF TryLock, Free
<1>2. ASSUME NEW d \in Pids, ClearSocket(d) PROVE LockHeld' /\ SocketIsOwners'
    BY <1>2 DEF ClearSocket, Free
<1>3. ASSUME NEW d \in Pids, Bind(d) PROVE LockHeld' /\ SocketIsOwners'
    BY <1>3 DEF Bind, Free
<1>4. ASSUME NEW d \in Pids, Greets(d) PROVE LockHeld' /\ SocketIsOwners'
    BY <1>4 DEF Greets
<1>5. ASSUME NEW d \in Pids, Dies(d) \/ Crash(d) PROVE LockHeld' /\ SocketIsOwners'
    BY <1>5 DEF Dies, Crash, Released, Free
<1>6. ASSUME NEW l \in Launchers, Look(l) PROVE LockHeld' /\ SocketIsOwners'
    BY <1>6 DEF Look, Ends, Unanswered, Answering, Free
<1>7. ASSUME NEW l \in Launchers, Probe(l) PROVE LockHeld' /\ SocketIsOwners'
    BY <1>7 DEF Probe, Free
<1>8. ASSUME NEW l \in Launchers, ProbeEnds(l) PROVE LockHeld' /\ SocketIsOwners'
    BY <1>8 DEF ProbeEnds, Unanswered, Free
<1>9. ASSUME NEW l \in Launchers, LoopOn(l) \/ TerminateDeadline(l)
      PROVE LockHeld' /\ SocketIsOwners'
    BY <1>9 DEF LoopOn, TerminateDeadline
<1>10. ASSUME NEW l \in Launchers, Spawn(l) PROVE LockHeld' /\ SocketIsOwners'
    BY <1>10 DEF Spawn
<1>11. ASSUME NEW l \in Launchers, EnsureDeadline(l) PROVE LockHeld' /\ SocketIsOwners'
    BY <1>11 DEF EnsureDeadline, Released, Free
<1>12. CASE UNCHANGED launcherVars
    BY <1>12 DEF launcherVars
<1> QED
    BY <1>1, <1>2, <1>3, <1>4, <1>5, <1>6, <1>7, <1>8, <1>9, <1>10, <1>11, <1>12
    DEF LauncherNext, LauncherStep, DaemonStep

\* The daemon that holds the lock is the one the socket leads to (serve).
THEOREM SocketIsOwnersHolds == LauncherSpec => []SocketIsOwners
<1>1. LauncherInit => SocketInv
    BY LauncherTypeInit, SocketInit DEF SocketInv
<1>2. SocketInv /\ [LauncherNext]_launcherVars => SocketInv'
    BY LauncherTypeStep, SocketStep DEF SocketInv
<1>3. SocketInv => SocketIsOwners
    BY DEF SocketInv
<1> QED BY <1>1, <1>2, <1>3, PTL DEF LauncherSpec

-----------------------------------------------------------------------------
(* What was reported ready *)

\* At the start no launcher has been told that a daemon is ready.
LEMMA ReadyInit == LauncherInit => ReadyInv
BY LauncherConstants DEF LauncherInit, ReadyInv, OwnAreSpared, ReadyLasts, Free

\* Every step of a process keeps what the ready ones rely on.
LEMMA ReadyStep ==
    ASSUME SocketInv, ReadyInv, [LauncherNext]_launcherVars
    PROVE  ReadyInv'
<1> USE LauncherConstants DEF SocketInv, LauncherType, DaemonPhases, LaunchPlaces, Becomes, Goes, fates,
        SocketIsOwners, ReadyInv, OwnAreSpared, ReadyLasts, SameBuild
<1>1. ASSUME NEW d \in Pids, TryLock(d) PROVE ReadyInv'
    BY <1>1 DEF TryLock
<1>2. ASSUME NEW d \in Pids, ClearSocket(d) PROVE ReadyInv'
    BY <1>2 DEF ClearSocket, LockHeld
<1>3. ASSUME NEW d \in Pids, Bind(d) PROVE ReadyInv'
    BY <1>3 DEF Bind, LockHeld
<1>4. ASSUME NEW d \in Pids, Greets(d) PROVE ReadyInv'
    BY <1>4 DEF Greets
<1>5. ASSUME NEW d \in Pids, Dies(d) PROVE ReadyInv'
    BY <1>5 DEF Dies
<1>6. ASSUME NEW d \in Pids, Crash(d) PROVE ReadyInv'
    BY <1>6 DEF Crash
<1>7. ASSUME NEW l \in Launchers, Look(l) PROVE ReadyInv'
    BY <1>7 DEF Look, Ends, Unanswered, Answering, Free
<1>8. ASSUME NEW l \in Launchers,
             Probe(l) \/ ProbeEnds(l) \/ LoopOn(l) \/ TerminateDeadline(l)
      PROVE ReadyInv'
    BY <1>8 DEF Probe, ProbeEnds, LoopOn, TerminateDeadline, Unanswered
<1>9. ASSUME NEW l \in Launchers, Spawn(l) PROVE ReadyInv'
    BY <1>9 DEF Spawn
<1>10. ASSUME NEW l \in Launchers, EnsureDeadline(l) PROVE ReadyInv'
    BY <1>10 DEF EnsureDeadline
<1>11. CASE UNCHANGED launcherVars
    BY <1>11 DEF launcherVars
<1> QED
    BY <1>1, <1>2, <1>3, <1>4, <1>5, <1>6, <1>7, <1>8, <1>9, <1>10, <1>11
    DEF LauncherNext, LauncherStep, DaemonStep

\* A daemon that was reported ready is not ended by another launch of its
\* build (ready, ensure).
THEOREM ReadyLastsHolds == LauncherSpec => []ReadyLasts
<1> DEFINE Inv == SocketInv /\ ReadyInv
<1>1. LauncherInit => Inv
    BY LauncherTypeInit, SocketInit, ReadyInit DEF SocketInv
<1>2. Inv /\ [LauncherNext]_launcherVars => Inv'
    BY LauncherTypeStep, SocketStep, ReadyStep DEF SocketInv
<1>3. Inv => ReadyLasts
    BY DEF ReadyInv
<1> QED BY <1>1, <1>2, <1>3, PTL DEF LauncherSpec

-----------------------------------------------------------------------------
(* The covering choice *)

USE CoveringConstants

\* A hand-off in sight went to a radar nearer by the margin, which is held.
HandoffHeld ==
    handoff # NoHandoff =>
        /\ handoff.at \in Int /\ handoff.from \in Dishes /\ handoff.to \in Dishes
        /\ heldDish = handoff.to
        /\ Away(handoff.from, handoff.at) - Away(handoff.to, handoff.at) >= Margin

CoveringInv == heldDish \in Dishes \cup {NoDish} /\ HandoffHeld

-----------------------------------------------------------------------------
\* The distance between two places is a natural number.
LEMMA AwayIsNat == \A a, b \in Int : Away(a, b) \in Nat
BY DEF Away

\* The nearest radar exists, however many there are.
LEMMA NearestInSight ==
    ASSUME NEW x \in Line, InSight(x) # {}
    PROVE  Nearest(x) \in InSight(x)
<1> DEFINE key(d) == 2 * Away(d, x) + IF d > x THEN 1 ELSE 0
           keys == {key(d) : d \in InSight(x)}
<1>1. InSight(x) \subseteq Int /\ x \in Int
    BY DEF InSight
<1>2. ASSUME NEW d \in Int PROVE key(d) \in Nat
    <2>1. Away(d, x) \in Nat
        BY <1>1, AwayIsNat
    <2> QED BY <2>1
<1>3. keys # {} /\ keys \subseteq Nat
    BY <1>1, <1>2
<1>4. PICK k \in keys : \A j \in keys : ~(<<j, k>> \in OpToRel(<, Nat))
    BY <1>3, NatLessThanWellFounded, WFMin
<1>5. \A j \in keys : ~(j < k)
    BY <1>3, <1>4 DEF OpToRel
<1>6. PICK d \in InSight(x) : k = key(d)
    BY <1>4
<1>7. ASSUME NEW e \in InSight(x)
      PROVE  Away(d, x) < Away(e, x) \/ (Away(d, x) = Away(e, x) /\ d <= e)
    <2>1. key(d) \in Nat /\ key(e) \in Nat
        BY <1>1, <1>2
    <2>2. ~(key(e) < key(d))
        BY <1>5, <1>6
    <2>3. key(d) <= key(e)
        <3> HIDE DEF key
        <3> QED BY <2>1, <2>2
    <2> QED BY <1>1, <2>3 DEF Away
<1> QED BY <1>6, <1>7 DEF Nearest

\* The invariant holds before the view has moved.
LEMMA CoveringInvInit == CoveringInit => CoveringInv
BY DEF CoveringInit, CoveringInv, HandoffHeld

\* Giving up a radar in sight takes the margin.
LEMMA DishBeaten ==
    ASSUME NEW x \in Line, heldDish \in InSight(x), Dish(x) # heldDish
    PROVE  Dish(x) \in Dishes /\ Away(heldDish, x) - Away(Dish(x), x) >= Margin
<1>1. Dish(x) = Nearest(x) /\ ~Stays(heldDish, x)
    BY DEF Dish
<1>2. Nearest(x) \in Dishes
    BY NearestInSight DEF InSight
<1>3. Away(Nearest(x), x) \in Nat /\ Away(heldDish, x) \in Nat
    BY <1>2, AwayIsNat DEF InSight
<1> QED BY <1>1, <1>2, <1>3 DEF Stays, Margin

\* Every step of the selection of the covering source keeps the invariant.
LEMMA CoveringInvStep == CoveringInv /\ [CoveringNext]_coveringVars => CoveringInv'
<1> SUFFICES ASSUME CoveringInv, [CoveringNext]_coveringVars PROVE CoveringInv'
    OBVIOUS
<1>1. ASSUME NEW x \in Line, Settle(x) PROVE CoveringInv'
    <2>1. InSight(x) # {} => Dish(x) \in Dishes
        BY NearestInSight DEF InSight, Dish
    <2>2. heldDish' \in Dishes \cup {NoDish}
        BY <1>1, <2>1 DEF Settle
    <2>3. CASE heldDish \in InSight(x) /\ heldDish' # heldDish
        <3>1. heldDish' = Dish(x) /\ handoff' = [at |-> x, from |-> heldDish, to |-> heldDish']
            BY <1>1, <2>3 DEF Settle
        <3>2. Dish(x) \in Dishes /\ Away(heldDish, x) - Away(Dish(x), x) >= Margin
            BY <2>3, <3>1, DishBeaten
        <3> QED BY <2>2, <2>3, <3>1, <3>2 DEF CoveringInv, HandoffHeld, InSight
    <2>4. CASE ~(heldDish \in InSight(x) /\ heldDish' # heldDish)
        <3>1. handoff' = NoHandoff \/ (handoff' = handoff /\ heldDish' = heldDish)
            BY <1>1, <2>4 DEF Settle
        <3> QED BY <2>2, <3>1 DEF CoveringInv, HandoffHeld
    <2> QED BY <2>3, <2>4
<1>2. CASE Choose
    BY <1>2 DEF Choose, CoveringInv, HandoffHeld
<1>3. CASE UNCHANGED coveringVars
    BY <1>3 DEF coveringVars, CoveringInv, HandoffHeld
<1> QED BY <1>1, <1>2, <1>3 DEF CoveringNext

\* Two hand-offs in opposite directions are the margin apart: each moved the
\* difference of the two distances past the margin, and moving the centre by
\* some way changes that difference by at most twice as much.
LEMMA MarginApart ==
    ASSUME NEW a \in Int, NEW b \in Int, NEW x \in Int, NEW y \in Int,
           Away(a, x) - Away(b, x) >= Margin, Away(b, y) - Away(a, y) >= Margin
    PROVE  Away(x, y) >= Margin
BY DEF Away, Margin

\* covering_selection does not flap between two radars.
THEOREM NoHandBackHolds == CoveringSpec => NoHandBack
<1> DEFINE Back == NoHandoff \notin {handoff, handoff'} /\ handoff'.from = handoff.to /\ handoff'.to = handoff.from
        => Away(handoff.at, handoff'.at) >= Margin
<1>1. CoveringInv /\ CoveringInv' => Back
    BY MarginApart DEF CoveringInv, HandoffHeld
<1> QED BY <1>1, CoveringInvInit, CoveringInvStep, PTL DEF CoveringSpec, NoHandBack

-----------------------------------------------------------------------------
(* The choice among the mosaics *)

\* What outranks the better of two outranks the worse.
LEMMA OutranksOn ==
    ASSUME NEW b \in Mosaics, NEW n \in Mosaics, NEW h \in Mosaics, Outranks(n, h), ~Outranks(n, b)
    PROVE  Outranks(b, h)
BY CoveringConstants DEF Outranks

\* A mosaic that the fewest outrank is outranked by none.
LEMMA SomeBest ==
    ASSUME NEW x, OnTop(x) # {}
    PROVE  BestMosaics(x) # {}
<1> DEFINE Above(m) == {n \in OnTop(x) : Outranks(n, m)}
           Ranks == {Cardinality(Above(m)) : m \in OnTop(x)}
<1>1. IsFiniteSet(OnTop(x)) /\ OnTop(x) \subseteq Mosaics
    BY CoveringConstants, FS_Subset DEF OnTop
<1>2. ASSUME NEW m \in OnTop(x) PROVE IsFiniteSet(Above(m)) /\ Cardinality(Above(m)) \in Nat
    <2> DEFINE A == Above(m)
    <2>1. A \in SUBSET OnTop(x)
        OBVIOUS
    <2> HIDE DEF A
    <2>2. IsFiniteSet(A) /\ Cardinality(A) \in Nat
        BY <1>1, <2>1, FS_Subset, FS_CardinalityType
    <2> QED BY <2>2 DEF A
<1>3. Ranks \subseteq Nat /\ Ranks # {}
    BY <1>2
<1>4. PICK k \in Ranks : \A j \in Ranks : ~(<<j, k>> \in OpToRel(<, Nat))
    <2> HIDE DEF Ranks
    <2> QED BY <1>3, NatLessThanWellFounded, WFMin
<1>5. \A j \in Ranks : ~(j < k)
    <2> HIDE DEF Ranks
    <2> QED BY <1>3, <1>4 DEF OpToRel
<1>6. PICK m \in OnTop(x) : k = Cardinality(Above(m))
    OBVIOUS
<1>7. ASSUME NEW n \in OnTop(x), Outranks(n, m) PROVE FALSE
    <2> DEFINE N == Above(n)
               M == Above(m)
    <2>1. n \in Mosaics /\ m \in Mosaics /\ OnTop(x) \subseteq Mosaics
        BY <1>1
    <2>2. \A o \in OnTop(x) : Outranks(o, n) => Outranks(o, m)
        BY <1>7, <2>1, CoveringConstants DEF Outranks
    <2>3. ~Outranks(n, n)
        BY <2>1, CoveringConstants DEF Outranks
    <2>4. N \in SUBSET M /\ n \in M /\ n \notin N
        BY <1>7, <2>2, <2>3
    <2>5. IsFiniteSet(M) /\ Cardinality(M) \in Nat /\ Cardinality(N) \in Nat
        BY <1>2
    <2>6. Cardinality(N) \in Ranks /\ k = Cardinality(M)
        BY <1>6
    <2>7. ~(Cardinality(N) < Cardinality(M))
        BY <1>5, <2>6
    <2> HIDE DEF N, M, Above, Ranks
    <2>8. Cardinality(N) <= Cardinality(M) /\ (Cardinality(M) = Cardinality(N) => M = N)
        BY <2>4, <2>5, FS_Subset
    <2> QED BY <2>4, <2>5, <2>7, <2>8
<1> QED BY <1>7 DEF BestMosaics

\* Among mosaics, one has the least id.
LEMMA SomeLeast ==
    ASSUME NEW B, B \subseteq Mosaics, B # {}
    PROVE  \E m \in B : \A n \in B : m.id <= n.id
<1> DEFINE Ids == {m.id : m \in B}
<1>1. Ids \subseteq Nat /\ Ids # {}
    BY CoveringConstants
<1>2. PICK k \in Ids : \A j \in Ids : ~(<<j, k>> \in OpToRel(<, Nat))
    <2> HIDE DEF Ids
    <2> QED BY <1>1, NatLessThanWellFounded, WFMin
<1>3. \A j \in Ids : ~(j < k)
    <2> HIDE DEF Ids
    <2> QED BY <1>1, <1>2 DEF OpToRel
<1>4. \A j \in Ids : k <= j
    <2> HIDE DEF Ids
    <2> QED BY <1>1, <1>3
<1> QED BY <1>4

\* The choice, where a mosaic covers: the held one or one of the best.
LEMMA MosaicIsBest ==
    ASSUME NEW x, OnTop(x) # {}
    PROVE  Mosaic(x) \in BestMosaics(x)
<1> DEFINE Least(m) == \A n \in BestMosaics(x) : m.id <= n.id
<1>1. \E m \in BestMosaics(x) : Least(m)
    BY SomeBest, SomeLeast DEF BestMosaics, OnTop
<1>2. (CHOOSE m \in BestMosaics(x) : Least(m)) \in BestMosaics(x)
    BY <1>1
<1> QED BY <1>2 DEF Mosaic

\* covering_selection leaves a mosaic that still covers for a better one only.
THEOREM EqualsStayHolds == CoveringSpec => EqualsStay
<1> DEFINE Better == ~byHand' /\ heldMosaic' \notin {heldMosaic, NoMosaic} /\ heldMosaic \in OnTop(centre')
        => Outranks(heldMosaic', heldMosaic)
<1>1. [CoveringNext]_coveringVars => Better
    <2> SUFFICES ASSUME [CoveringNext]_coveringVars, ~byHand',
                        heldMosaic' \notin {heldMosaic, NoMosaic}, heldMosaic \in OnTop(centre')
                 PROVE  Outranks(heldMosaic', heldMosaic)
        OBVIOUS
    <2>1. PICK x \in Line : Settle(x)
        BY DEF CoveringNext, Choose, coveringVars
    <2>2. centre' = x /\ heldMosaic' = Mosaic(x) /\ OnTop(x) # {}
        BY <2>1 DEF Settle
    <2>3. heldMosaic' \in BestMosaics(x)
        BY <2>2, MosaicIsBest
    <2>4. heldMosaic \notin BestMosaics(x)
        BY <2>2 DEF Mosaic
    <2>5. PICK n \in OnTop(x) : Outranks(n, heldMosaic)
        BY <2>2, <2>4 DEF BestMosaics
    <2>6. heldMosaic' \in Mosaics /\ ~Outranks(n, heldMosaic')
        BY <2>3 DEF BestMosaics, OnTop
    <2>7. n \in Mosaics /\ heldMosaic \in Mosaics
        BY <2>2 DEF OnTop
    <2> QED BY <2>5, <2>6, <2>7, OutranksOn
<1> QED BY <1>1, PTL DEF CoveringSpec, EqualsStay

HIDE CoveringConstants

-----------------------------------------------------------------------------
(* The restart of a silent poller *)

USE FeedConstants DEF Never

\* What a poller sends.
Report == [kind : {"offline", "silent", "known", "sweep"}, of : Stations \cup {NoStation}, radial : Nat]

\* The clock and what is measured against it are numbers.
FeedType ==
    /\ tick \in Nat /\ restarted \in Nat /\ evidence \in Int
    /\ events \in Seq(Report)
    /\ station \in Stations \cup {NoStation}

\* The initial state is typed.
LEMMA FeedTypeInit == FeedInit => FeedType
BY DEF FeedInit, FeedType

\* So is every next one.
LEMMA FeedTypeStep == FeedType /\ [FeedNext]_feedVars => FeedType'
<1> SUFFICES ASSUME FeedType, [FeedNext]_feedVars PROVE FeedType'
    OBVIOUS
<1>1. ASSUME NEW s \in Stations, Select(s) PROVE FeedType'
    BY <1>1 DEF Select, FeedType, RestartLive
<1>2. CASE Polls
    <2>1. ASSUME NEW kind \in {"offline", "silent", "known", "sweep"}
          PROVE  Append(events, [kind |-> kind, of |-> station, radial |-> tick]) \in Seq(Report)
        <3>1. [kind |-> kind, of |-> station, radial |-> tick] \in Report
            BY DEF Report, FeedType
        <3> QED BY <3>1 DEF FeedType
    <2>2. events' \in Seq(Report)
        BY <1>2, <2>1 DEF Polls, FeedType
    <2> QED BY <1>2, <2>2 DEF Polls, FeedType
<1>3. CASE Receives
    <2>1. Head(events) \in Report /\ Tail(events) \in Seq(Report)
        BY <1>3 DEF Receives, FeedType
    <2>2. Head(events).radial \in Nat
        BY <2>1 DEF Report
    <2> QED BY <1>3, <2>1, <2>2 DEF Receives, FeedType, Heard
<1>4. CASE TickRuns
    BY <1>4 DEF TickRuns, FeedType, RestartLive
<1>5. CASE TickDue
    BY <1>5 DEF TickDue, FeedType
<1>6. CASE UNCHANGED feedVars
    BY <1>6 DEF feedVars, FeedType
<1> QED BY <1>1, <1>2, <1>3, <1>4, <1>5, <1>6 DEF FeedNext

\* The daemon's tick leaves no wedged poller alone for longer than
\* UNAVAILABLE_AFTER, whatever the poller reports and whenever it was selected.
THEOREM WedgedIsRestartedHolds == FeedSpec => WedgedIsRestarted
<1> DEFINE Fresh == ~ticked /\ ticked' /\ station # NoStation /\ evidence # Never =>
        tick - evidence < UnavailableAfter \/ tick - restarted' < UnavailableAfter
<1>1. FeedType /\ [FeedNext]_feedVars => Fresh
    <2> SUFFICES ASSUME FeedType, [FeedNext]_feedVars, ~ticked, ticked', station # NoStation, evidence # Never
                 PROVE  tick - evidence < UnavailableAfter \/ tick - restarted' < UnavailableAfter
        OBVIOUS
    <2>1. TickRuns
        BY DEF FeedNext, Select, Polls, Receives, TickDue, feedVars
    <2>2. CASE Due
        BY <2>1, <2>2 DEF TickRuns, RestartLive, FeedType
    <2>3. CASE ~Due
        BY <2>1, <2>3 DEF TickRuns, Due, Wedged, FeedType
    <2> QED BY <2>2, <2>3
<1> QED BY <1>1, FeedTypeInit, FeedTypeStep, PTL DEF FeedSpec, WedgedIsRestarted

HIDE FeedConstants

-----------------------------------------------------------------------------
(* The clients *)

USE ClientConstants DEF Hello, Reply, Nothing

ClientType ==
    /\ version \in Nat /\ lastSent \in Nat /\ lastSent <= version
    /\ clients \subseteq Connections
    /\ outbox \in [Connections -> Seq(Int)]
    /\ writing \in [Connections -> Int] /\ seen \in [Connections -> Int]
    /\ DOMAIN writer = Connections
    /\ \A c \in Connections : seen[c] >= 0

\* What connection c has read, or will.
Reaches(c, v) == seen[c] >= v \/ writing[c] >= v \/ \E i \in DOMAIN outbox[c] : outbox[c][i] >= v

\* A client in the list whose writer runs has read, or will, the last broadcast.
ClientInv ==
    /\ ClientType
    /\ \A c \in clients : writer[c] = "running" => Reaches(c, lastSent)

-----------------------------------------------------------------------------
\* Queueing a message puts it in the queue and moves nothing already there.
LEMMA AppendKeeps ==
    ASSUME NEW s \in Seq(Int), NEW e \in Int
    PROVE  /\ Append(s, e) \in Seq(Int)
           /\ \E i \in DOMAIN Append(s, e) : Append(s, e)[i] = e
           /\ \A i \in DOMAIN s : i \in DOMAIN Append(s, e) /\ Append(s, e)[i] = s[i]
<1>1. Len(s) + 1 \in DOMAIN Append(s, e) /\ Append(s, e)[Len(s) + 1] = e
    OBVIOUS
<1> QED BY <1>1

\* Taking the first message leaves every other one in the queue.
LEMMA TakeKeeps ==
    ASSUME NEW s \in Seq(Int), s # <<>>
    PROVE  /\ Head(s) \in Int /\ Tail(s) \in Seq(Int)
           /\ \A i \in DOMAIN s : s[i] = Head(s) \/ \E j \in DOMAIN Tail(s) : Tail(s)[j] = s[i]
<1>1. ASSUME NEW i \in DOMAIN s, i # 1
      PROVE  \E j \in DOMAIN Tail(s) : Tail(s)[j] = s[i]
    <2>1. i - 1 \in DOMAIN Tail(s) /\ Tail(s)[i - 1] = s[i]
        BY <1>1
    <2> QED BY <2>1
<1>2. s[1] = Head(s) /\ Head(s) \in Int /\ Tail(s) \in Seq(Int)
    OBVIOUS
<1> QED BY <1>1, <1>2

\* A change of the shared state keeps the invariant.
LEMMA StateInv ==
    ASSUME ClientInv, StateChanges
    PROVE  ClientInv'
BY DEF StateChanges, ClientInv, ClientType, Reaches

\* Who keeps a place in the list has the state in its queue.
LEMMA BroadcastInv ==
    ASSUME ClientInv, Broadcast
    PROVE  ClientInv'
<1>1. /\ UNCHANGED <<version, writing, writer, seen>>
      /\ lastSent' = version
      /\ clients' = {c \in clients : Sendable(c)}
    BY DEF Broadcast
<1>2. \A c \in Connections :
          outbox'[c] = IF c \in clients /\ Sendable(c) THEN Append(outbox[c], version) ELSE outbox[c]
    BY DEF Broadcast
<1>3. version \in Int /\ \A c \in Connections : outbox[c] \in Seq(Int)
    BY DEF ClientInv, ClientType
<1>4. outbox' \in [Connections -> Seq(Int)]
    <2>1. \A c \in Connections : outbox'[c] \in Seq(Int)
        BY <1>2, <1>3, AppendKeeps
    <2>2. outbox' = [c \in Connections |-> outbox'[c]]
        BY <1>2 DEF Broadcast
    <2> QED BY <2>1, <2>2
<1>5. ClientType'
    BY <1>1, <1>4 DEF ClientInv, ClientType
<1>6. ASSUME NEW c \in clients' PROVE Reaches(c, lastSent)'
    <2>1. c \in Connections /\ outbox'[c] = Append(outbox[c], version)
        BY <1>1, <1>2 DEF ClientInv, ClientType
    <2>2. PICK i \in DOMAIN outbox'[c] : outbox'[c][i] = version
        <3>1. outbox[c] \in Seq(Int) /\ version \in Int
            BY <1>3, <2>1
        <3>2. \E i \in DOMAIN Append(outbox[c], version) : Append(outbox[c], version)[i] = version
            BY <3>1, AppendKeeps
        <3> QED BY <2>1, <3>2
    <2> QED BY <1>1, <1>3, <2>2 DEF Reaches
<1> QED BY <1>5, <1>6 DEF ClientInv

\* One client's step: the others are as they were.
LEMMA OneClient ==
    ASSUME ClientInv, NEW c \in Connections,
           UNCHANGED <<version, lastSent>>, clients' \subseteq clients \cup {c},
           ClientType',
           \A d \in Connections \ {c} : /\ outbox'[d] = outbox[d] /\ writing'[d] = writing[d]
                                        /\ seen'[d] = seen[d] /\ writer'[d] = writer[d],
           c \in clients' /\ writer'[c] = "running" => Reaches(c, lastSent)'
    PROVE  ClientInv'
<1> SUFFICES ASSUME NEW d \in clients', d # c, writer'[d] = "running"
             PROVE  Reaches(d, lastSent)'
    BY DEF ClientInv
<1>1. d \in clients /\ d \in Connections
    BY DEF ClientInv, ClientType
<1>2. Reaches(d, lastSent)
    BY <1>1 DEF ClientInv
<1> QED BY <1>1, <1>2 DEF Reaches

\* A connection that registers with the state queued for it keeps the invariant.
LEMMA ConnectInv ==
    ASSUME ClientInv, NEW c \in Connections, Connect(c)
    PROVE  ClientInv'
<1>1. /\ UNCHANGED <<version, lastSent, writing, seen>> /\ clients' = clients \cup {c}
      /\ outbox' = [outbox EXCEPT ![c] = <<-1, version>>]
      /\ writer' = [writer EXCEPT ![c] = "running"]
    BY DEF Connect
<1>2. <<-1, version>> \in Seq(Int) /\ version \in Nat /\ lastSent <= version
    BY DEF ClientInv, ClientType
<1>3. ClientType'
    BY <1>1, <1>2 DEF ClientInv, ClientType
<1>4. Reaches(c, lastSent)'
    <2>1. outbox'[c] = <<-1, version>>
        BY <1>1 DEF ClientInv, ClientType
    <2>2. 2 \in DOMAIN outbox'[c] /\ outbox'[c][2] = version
        BY <2>1
    <2> QED BY <1>1, <1>2, <2>2 DEF Reaches
<1> QED BY <1>1, <1>3, <1>4, OneClient DEF ClientInv, ClientType

\* The answer to a rejected command, queued or lost, keeps the invariant.
LEMMA CommandInv ==
    ASSUME ClientInv, NEW c \in Connections, Command(c)
    PROVE  ClientInv'
<1>1. /\ UNCHANGED <<version, lastSent, clients, writing, seen, writer>>
      /\ outbox' = outbox \/ outbox' = [outbox EXCEPT ![c] = Append(outbox[c], 0)]
    BY DEF Command
<1>2. outbox[c] \in Seq(Int) /\ outbox \in [Connections -> Seq(Int)]
    BY DEF ClientInv, ClientType
<1>3. Append(outbox[c], 0) \in Seq(Int)
    BY <1>2
<1>4. ClientType'
    BY <1>1, <1>2, <1>3 DEF ClientInv, ClientType
<1>5. ASSUME c \in clients, writer[c] = "running" PROVE Reaches(c, lastSent)'
    <2>1. Reaches(c, lastSent)
        BY <1>5 DEF ClientInv
    <2>2. \A i \in DOMAIN outbox[c] : i \in DOMAIN outbox'[c] /\ outbox'[c][i] = outbox[c][i]
        <3>1. outbox'[c] = outbox[c] \/ outbox'[c] = Append(outbox[c], 0)
            BY <1>1, <1>2
        <3>2. \A i \in DOMAIN outbox[c] :
                 i \in DOMAIN Append(outbox[c], 0) /\ Append(outbox[c], 0)[i] = outbox[c][i]
            BY <1>2, AppendKeeps
        <3> QED BY <3>1, <3>2
    <2> QED BY <1>1, <2>1, <2>2 DEF Reaches
<1> QED BY <1>1, <1>2, <1>4, <1>5, OneClient

\* A writer that takes the next message keeps the invariant.
LEMMA TakeInv ==
    ASSUME ClientInv, NEW c \in Connections, Take(c)
    PROVE  ClientInv'
<1>1. /\ UNCHANGED <<version, lastSent, clients, seen, writer>>
      /\ writing[c] = -2 /\ outbox[c] # <<>>
      /\ writing' = [writing EXCEPT ![c] = Head(outbox[c])]
      /\ outbox' = [outbox EXCEPT ![c] = Tail(outbox[c])]
    BY DEF Take
<1>2. outbox[c] \in Seq(Int) /\ outbox \in [Connections -> Seq(Int)]
    BY DEF ClientInv, ClientType
<1>3. Head(outbox[c]) \in Int /\ Tail(outbox[c]) \in Seq(Int)
    BY <1>1, <1>2, TakeKeeps
<1>4. \A i \in DOMAIN outbox[c] :
          \/ outbox[c][i] = Head(outbox[c])
          \/ \E j \in DOMAIN Tail(outbox[c]) : Tail(outbox[c])[j] = outbox[c][i]
    BY <1>1, <1>2, TakeKeeps
<1>5. ClientType'
    BY <1>1, <1>2, <1>3 DEF ClientInv, ClientType
<1>6. ASSUME c \in clients, writer[c] = "running" PROVE Reaches(c, lastSent)'
    <2>1. Reaches(c, lastSent) /\ lastSent \in Nat
        BY <1>6 DEF ClientInv, ClientType
    <2>2. writing'[c] = Head(outbox[c]) /\ outbox'[c] = Tail(outbox[c])
        BY <1>1, <1>2 DEF ClientInv, ClientType
    <2>3. CASE seen[c] >= lastSent
        BY <1>1, <2>3 DEF Reaches
    <2>4. CASE \E i \in DOMAIN outbox[c] : outbox[c][i] >= lastSent
        BY <1>1, <1>4, <2>2, <2>4 DEF Reaches
    <2> QED BY <1>1, <2>1, <2>3, <2>4 DEF Reaches
<1> QED BY <1>1, <1>2, <1>5, <1>6, OneClient DEF ClientInv, ClientType

\* What the writer had in hand is read, or the writer is done for.
LEMMA WrittenInv ==
    ASSUME ClientInv, NEW c \in Connections, Written(c)
    PROVE  ClientInv'
<1>1. /\ UNCHANGED <<version, lastSent, clients, outbox>>
      /\ writing' = [writing EXCEPT ![c] = -2]
      /\ \/ writer' = [writer EXCEPT ![c] = "ended"] /\ seen' = seen
         \/ /\ writer' = writer
            /\ seen' = IF writing[c] > seen[c] THEN [seen EXCEPT ![c] = writing[c]] ELSE seen
    BY DEF Written
<1>2. writing[c] \in Int /\ seen[c] \in Int /\ seen[c] >= 0 /\ writing'[c] = -2
    BY <1>1 DEF ClientInv, ClientType
<1>3. seen' \in [Connections -> Int] /\ \A d \in Connections : seen'[d] >= 0
    <2>1. CASE seen' = seen
        BY <2>1 DEF ClientInv, ClientType
    <2>2. CASE writing[c] > seen[c] /\ seen' = [seen EXCEPT ![c] = writing[c]]
        BY <1>2, <2>2 DEF ClientInv, ClientType
    <2> QED BY <1>1, <2>1, <2>2
<1>4. ClientType'
    <2>1. DOMAIN writer' = Connections
        BY <1>1 DEF ClientInv, ClientType
    <2>2. writing' \in [Connections -> Int]
        BY <1>1 DEF ClientInv, ClientType
    <2> QED BY <1>1, <1>3, <2>1, <2>2 DEF ClientInv, ClientType
<1>5. ASSUME c \in clients, writer'[c] = "running" PROVE Reaches(c, lastSent)'
    <2>1. writer' = writer /\ seen'[c] >= seen[c] /\ seen'[c] >= writing[c]
        BY <1>1, <1>2, <1>5 DEF ClientInv, ClientType
    <2>2. Reaches(c, lastSent) /\ lastSent \in Nat /\ seen'[c] \in Int
        BY <1>3, <1>5, <2>1 DEF ClientInv, ClientType
    <2> QED BY <1>1, <1>2, <2>1, <2>2 DEF Reaches
<1>6. \A d \in Connections \ {c} : writing'[d] = writing[d] /\ seen'[d] = seen[d] /\ writer'[d] = writer[d]
    BY <1>1 DEF ClientInv, ClientType
<1> QED BY <1>1, <1>4, <1>5, <1>6, OneClient

\* A connection that closes keeps the invariant.
LEMMA HangUpInv ==
    ASSUME ClientInv, NEW c \in Connections, HangUp(c)
    PROVE  ClientInv'
<1>1. /\ UNCHANGED <<version, lastSent>> /\ clients' = clients \ {c}
      /\ outbox' = [outbox EXCEPT ![c] = <<>>] /\ writing' = [writing EXCEPT ![c] = -2]
      /\ writer' = [writer EXCEPT ![c] = "none"] /\ seen' = [seen EXCEPT ![c] = 0]
    BY DEF HangUp
<1>2. <<>> \in Seq(Int)
    OBVIOUS
<1>3. ClientType'
    BY <1>1, <1>2 DEF ClientInv, ClientType
<1> QED BY <1>1, <1>3, OneClient DEF ClientInv, ClientType

\* A client that stops or resumes reading keeps the invariant.
LEMMA StallInv ==
    ASSUME ClientInv, NEW c \in Connections, Stall(c)
    PROVE  ClientInv'
BY DEF Stall, ClientInv, ClientType, Reaches

\* A client in the list reaches the last state broadcast, if its writer runs;
\* one for which there was no room is out of the list (broadcast, client).
THEOREM ListedIsCurrentHolds == ClientsSpec => []ListedIsCurrent
<1>1. ClientsInit => ClientInv
    <2> SUFFICES ASSUME ClientsInit PROVE ClientInv
        OBVIOUS
    <2>1. outbox \in [Connections -> Seq(Int)]
        BY DEF ClientsInit
    <2> QED BY <2>1 DEF ClientsInit, ClientInv, ClientType
<1>2. ClientInv /\ [ClientsNext]_clientVars => ClientInv'
    <2> SUFFICES ASSUME ClientInv, [ClientsNext]_clientVars PROVE ClientInv'
        OBVIOUS
    <2>1. CASE UNCHANGED clientVars
        BY <2>1 DEF clientVars, ClientInv, ClientType, Reaches
    <2>2. CASE ClientsNext
        BY <2>2, StateInv, BroadcastInv, ConnectInv, CommandInv, TakeInv, WrittenInv, StallInv,
           HangUpInv DEF ClientsNext
    <2> QED BY <2>1, <2>2
<1>3. ClientInv => ListedIsCurrent
    <2> SUFFICES ASSUME ClientInv, NEW c \in clients, writer[c] = "running"
                 PROVE  \E v \in {seen[c], writing[c]} \cup ToSet(outbox[c]) : v >= lastSent
        BY DEF ListedIsCurrent
    <2>1. Reaches(c, lastSent)
        BY DEF ClientInv
    <2> QED BY <2>1 DEF Reaches, ToSet
<1> QED BY <1>1, <1>2, <1>3, PTL DEF ClientsSpec

-----------------------------------------------------------------------------

(* The frame catalog *)

FrameFiles == Int \X FileKinds

\* Every value the disk and the three operations may have.
CatalogType ==
    /\ clock \in Nat /\ cutoff \in Int
    /\ rows \subseteq Int /\ disk \subseteq FrameFiles
    /\ \/ storing = AtRest
       \/ storing \in [phase : {"files", "trim"}, frame : Int, left : SUBSET FileKinds]
    /\ \/ removal = AtRest
       \/ removal \in [phase : {"rows"}, frames : SUBSET Int, files : SUBSET FrameFiles]
    /\ \/ loading = AtRest
       \/ loading \in [phase : {"files", "error"}, frame : Int]

\* A frame that is being removed is past its lifetime, unless a store trims
\* the ring; a store writes no file meanwhile.
RemovesTheOld ==
    removal.phase = "rows" =>
        /\ storing.phase # "trim" =>
            /\ \A t \in removal.frames : t < cutoff
            /\ \A file \in removal.files : file[1] < cutoff
        /\ \A file \in removal.files : file[1] \in rows => file[1] < cutoff

\* What a store has written stays until its row is inserted, unless the frame
\* is past its lifetime.
WrittenStays ==
    storing.phase = "files" /\ storing.frame >= cutoff =>
        \A kind \in FileKinds \ storing.left : <<storing.frame, kind>> \in disk

TrimLocks == storing.phase = "trim" => removal.phase = "rows"

CatalogInv == CatalogType /\ RemovesTheOld /\ WrittenStays /\ TrimLocks /\ RowsHaveFiles

-----------------------------------------------------------------------------
\* The later of two cutoffs is no earlier than either.
LEMMA MaxOfTwo ==
    ASSUME NEW a \in Int, NEW b \in Int
    PROVE  Max({a, b}) \in Int /\ Max({a, b}) >= a /\ Max({a, b}) >= b
<1>1. \E x \in {a, b} : \A y \in {a, b} : x >= y
    <2>1. CASE a >= b
        BY <2>1
    <2>2. CASE b >= a
        BY <2>2
    <2> QED BY <2>1, <2>2
<1> QED BY <1>1 DEF Max

\* An engine that opens its catalog starts with the invariant.
LEMMA CatalogInvInit == CatalogInit => CatalogInv
BY DEF CatalogInit, CatalogInv, CatalogType, RemovesTheOld, WrittenStays, TrimLocks, RowsHaveFiles, AtRest

\* An eviction takes the frames that the new cutoff leaves behind.
LEMMA EvictStep == ASSUME CatalogInv, EvictBefore PROVE CatalogInv'
<1>1. clock - Lifetime \in Int /\ cutoff \in Int
    BY CatalogConstants DEF CatalogInv, CatalogType
<1>2. cutoff' \in Int /\ cutoff' >= cutoff /\ cutoff' >= clock - Lifetime
    BY <1>1, MaxOfTwo DEF EvictBefore
<1>3. removal.phase = "idle" /\ storing.phase # "trim"
    BY DEF EvictBefore, Unlocked, CatalogInv, TrimLocks
<1> DEFINE old == {t \in rows : t < clock - Lifetime}
<1>4. /\ removal' = [phase |-> "rows", frames |-> old, files |-> {}]
      /\ UNCHANGED <<clock, rows, disk, storing, loading>>
    BY DEF EvictBefore
<1>5. rows \subseteq Int
    BY DEF CatalogInv, CatalogType
<1>6. \A t \in old : t < cutoff'
    BY <1>1, <1>2, <1>5
<1>7. removal' \in [phase : {"rows"}, frames : SUBSET Int, files : SUBSET FrameFiles]
    BY <1>4, <1>5
<1>8. CatalogType'
    BY <1>2, <1>4, <1>7 DEF CatalogInv, CatalogType
<1>9. RemovesTheOld'
    BY <1>3, <1>4, <1>6 DEF RemovesTheOld
<1>10. WrittenStays' /\ RowsHaveFiles'
    <2>1. storing.phase = "files" => storing.frame \in Int
        BY DEF CatalogInv, CatalogType, AtRest
    <2>2. WrittenStays'
        BY <1>1, <1>2, <1>4, <2>1 DEF CatalogInv, WrittenStays
    <2>3. RowsHaveFiles'
        BY <1>1, <1>2, <1>4, <1>5 DEF CatalogInv, RowsHaveFiles, FilesOf
    <2> QED BY <2>2, <2>3
<1>11. TrimLocks'
    BY <1>3, <1>4 DEF TrimLocks
<1> QED BY <1>8, <1>9, <1>10, <1>11 DEF CatalogInv

\* A row goes before its files, so that no row is without them.
LEMMA RemoveRowStep == ASSUME CatalogInv, RemoveRow PROVE CatalogInv'
<1>1. removal \in [phase : {"rows"}, frames : SUBSET Int, files : SUBSET FrameFiles] /\ removal.files = {}
    <2>1. removal.phase = "rows" /\ removal.files = {}
        BY DEF RemoveRow
    <2>2. removal # AtRest
        BY <2>1 DEF AtRest
    <2> QED BY <2>1, <2>2 DEF CatalogInv, CatalogType
<1>2. UNCHANGED <<clock, disk, loading, cutoff>>
    BY DEF RemoveRow
<1>3. CASE removal.frames = {} /\ RemovalEnds /\ UNCHANGED rows
    BY <1>2, <1>3 DEF CatalogInv, CatalogType, RemovesTheOld, WrittenStays, TrimLocks, RowsHaveFiles,
        RemovalEnds, AtRest, FilesOf
<1>4. ASSUME NEW t \in removal.frames,
             storing' = storing, rows' = rows \ {t},
             removal' = [removal EXCEPT !.frames = @ \ {t}, !.files = FilesOf(t)]
      PROVE  CatalogInv'
    <2>1. t \in Int
        BY <1>1
    <2>2. FilesOf(t) \subseteq FrameFiles /\ \A file \in FilesOf(t) : file[1] = t
        BY <2>1 DEF FilesOf, FrameFiles
    <2>3. /\ removal'.phase = "rows" /\ removal'.files = FilesOf(t)
          /\ removal'.frames = removal.frames \ {t}
          /\ removal' \in [phase : {"rows"}, frames : SUBSET Int, files : SUBSET FrameFiles]
        BY <1>1, <1>4, <2>1, <2>2
    <2>4. CatalogType'
        BY <1>2, <1>4, <2>3 DEF CatalogInv, CatalogType
    <2>5. storing.phase # "trim" => t < cutoff
        BY <1>1 DEF CatalogInv, RemovesTheOld
    <2>6. t \notin rows'
        BY <1>4
    <2>7. storing'.phase # "trim" => \A u \in removal'.frames : u < cutoff'
        BY <1>1, <1>2, <1>4, <2>3 DEF CatalogInv, RemovesTheOld
    <2>8. RemovesTheOld'
        BY <1>2, <1>4, <2>2, <2>3, <2>5, <2>6, <2>7 DEF RemovesTheOld
    <2>9. WrittenStays' /\ TrimLocks' /\ RowsHaveFiles'
        BY <1>2, <1>4, <2>3 DEF CatalogInv, WrittenStays, TrimLocks, RowsHaveFiles, FilesOf
    <2> QED BY <2>4, <2>8, <2>9 DEF CatalogInv
<1> QED BY <1>3, <1>4 DEF RemoveRow

\* Every step of storing, evicting, trimming and loading keeps the invariant.
LEMMA CatalogInvStep ==
    ASSUME CatalogInv, [CatalogNext]_catalogVars
    PROVE  CatalogInv'
<1> USE CatalogConstants DEF CatalogInv, CatalogType, RemovesTheOld, WrittenStays, TrimLocks, RowsHaveFiles,
        AtRest, FrameFiles, FilesOf, Unlocked
<1>1. ASSUME NEW t \in Starts, Store(t) PROVE CatalogInv'
    BY <1>1 DEF Store, Starts, FileKinds
<1>2. CASE WriteFile
    BY <1>2 DEF WriteFile
<1>3. CASE InsertRow
    BY <1>3 DEF InsertRow, Outside
<1>4. CASE EvictBefore
    BY <1>4, EvictStep
<1>5. CASE RemoveRow
    BY <1>5, RemoveRowStep
<1>6. CASE RemoveFile
    BY <1>6 DEF RemoveFile
<1>7. ASSUME NEW t \in Starts, LoadRow(t) PROVE CatalogInv'
    BY <1>7 DEF LoadRow, Starts
<1>8. CASE LoadFiles \/ LoadEnds
    BY <1>8 DEF LoadFiles, LoadEnds
<1>9. CASE FileError
    BY <1>9 DEF FileError, Mishap, RemovalEnds
<1>10. CASE CrashCatalog
    BY <1>10 DEF CrashCatalog, Mishap
<1>11. CASE ClockMoves
    BY <1>11 DEF ClockMoves
<1>12. CASE UNCHANGED catalogVars
    BY <1>12 DEF catalogVars
<1> QED
    BY <1>1, <1>2, <1>3, <1>4, <1>5, <1>6, <1>7, <1>8, <1>9, <1>10, <1>11, <1>12 DEF CatalogNext

\* What the timeline lists can be shown (Catalog::store, evict_before, load).
THEOREM RowsHaveFilesHolds == CatalogSpec => []RowsHaveFiles
<1>1. CatalogInv => RowsHaveFiles
    BY DEF CatalogInv
<1> QED BY <1>1, CatalogInvInit, CatalogInvStep, PTL DEF CatalogSpec

\* A frame that is still listed is never reported unreadable (Catalog::load).
THEOREM UnreadableIsGoneHolds == CatalogSpec => UnreadableIsGone
<1> DEFINE Gone == loading'.phase = "error" /\ loading.phase = "files" =>
                       loading.frame \notin rows \/ loading.frame < cutoff
<1>1. ASSUME CatalogInv, CatalogNext PROVE Gone
    <2> USE <1>1 DEF CatalogInv, CatalogType
    <2>1. CASE LoadFiles
        BY <2>1 DEF LoadFiles, RowsHaveFiles, AtRest
    <2>2. ASSUME NEW t \in Starts, Store(t) \/ LoadRow(t) PROVE Gone
        BY <2>2 DEF Store, LoadRow, AtRest
    <2>3. CASE WriteFile \/ InsertRow \/ EvictBefore \/ RemoveRow \/ RemoveFile
        BY <2>3 DEF WriteFile, InsertRow, EvictBefore, RemoveRow, RemoveFile
    <2>4. CASE LoadEnds \/ CrashCatalog
        BY <2>4 DEF LoadEnds, CrashCatalog, AtRest
    <2>5. CASE FileError \/ ClockMoves
        BY <2>5 DEF FileError, ClockMoves
    <2> QED BY <1>1, <2>1, <2>2, <2>3, <2>4, <2>5 DEF CatalogNext
<1>2. CatalogInv /\ [CatalogNext]_catalogVars => [Gone]_catalogVars
    BY <1>1
<1> QED BY <1>2, CatalogInvInit, CatalogInvStep, PTL DEF UnreadableIsGone, CatalogSpec

-----------------------------------------------------------------------------
(* Cleanup and restart *)

USE RetirementConstants DEF Textures, Unseen

NamedTimes == {-1} \cup Nat

RetireType ==
    /\ second \in Nat /\ started \in Nat /\ started <= second
    /\ published \in 0..MaxTextures
    /\ cleaned \in BOOLEAN
    /\ mosaicRing \in Seq(Textures)
    /\ Named \subseteq 1..published /\ present \subseteq 1..published
    /\ served \in [Textures -> NamedTimes] /\ unreferenced \in [Textures -> NamedTimes]
    /\ \A f \in Textures : served[f] <= second /\ unreferenced[f] <= second

\* What is named is named now; what is marked has been unnamed since.
MarkedAfter ==
    \A f \in Textures :
        /\ f \in Named => served[f] = second /\ unreferenced[f] = -1
        /\ unreferenced[f] # -1 => served[f] <= unreferenced[f]
        /\ f > published => served[f] = -1 /\ unreferenced[f] = -1

LastNamed(f) == IF served[f] > started THEN served[f] ELSE started

\* A file is marked by the first cleanup after it was last named, and a marked
\* one is not kept past its time by a cleanup.
MarkedInTime ==
    \A f \in present \ Named :
        IF unreferenced[f] = -1
        THEN LastNamed(f) >= second - (IF cleaned THEN 0 ELSE 1)
        ELSE /\ unreferenced[f] <= LastNamed(f) + 1
             /\ second - unreferenced[f] <= RetireAfter - (IF cleaned THEN 1 ELSE 0)

RetireInv == RetireType /\ MarkedAfter /\ GraceKept /\ MarkedInTime

-----------------------------------------------------------------------------
\* The ring never names what it did not hold, but for what joins it.
LEMMA RingNames ==
    ASSUME mosaicRing \in Seq(Textures), NEW f \in Textures
    PROVE  /\ Kept(Append(mosaicRing, f)) \in Seq(Textures)
           /\ ToSet(Kept(Append(mosaicRing, f))) \subseteq ToSet(mosaicRing) \cup {f}
<1> DEFINE longer == Append(mosaicRing, f)
           kept == Kept(longer)
<1>1. longer \in Seq(Textures) /\ Len(longer) = Len(mosaicRing) + 1
    OBVIOUS
<1>2. kept \in Seq(Textures)
    <2>1. longer # <<>>
        <3>1. Len(mosaicRing) + 1 # Len(<<>>)
            OBVIOUS
        <3> QED BY <1>1, <3>1
    <2>2. Tail(longer) \in Seq(Textures)
        BY <1>1, <2>1
    <2> QED BY <1>1, <2>2 DEF Kept
<1>3. ASSUME NEW i \in DOMAIN kept PROVE \E j \in DOMAIN longer : kept[i] = longer[j]
    <2>1. CASE kept = longer
        BY <2>1, <1>3
    <2>2. CASE kept = Tail(longer)
        <3>1. i \in 1..(Len(longer) - 1) /\ kept[i] = longer[i + 1]
            BY <1>1, <1>3, <2>2
        <3>2. i + 1 \in DOMAIN longer
            BY <1>1, <3>1
        <3> QED BY <3>1, <3>2
    <2> QED BY <2>1, <2>2 DEF Kept
<1>4. \A j \in DOMAIN longer : longer[j] = f \/ \E k \in DOMAIN mosaicRing : longer[j] = mosaicRing[k]
    BY <1>1
<1> HIDE DEF kept, longer
<1>5. ToSet(kept) \subseteq ToSet(mosaicRing) \cup {f}
    BY <1>3, <1>4 DEF ToSet
<1> QED BY <1>2, <1>5 DEF kept, longer

\* All that is named is there.
LEMMA NamedIsPresent ==
    ASSUME RetireInv
    PROVE  Named \subseteq present
BY DEF RetireInv, RetireType, MarkedAfter, GraceKept

\* The invariant holds before anything is shown.
LEMMA InitRetire == RetireInit => RetireInv
<1> SUFFICES ASSUME RetireInit PROVE RetireInv
    OBVIOUS
<1>1. Named = {}
    BY DEF RetireInit, Named, ToSet
<1>2. RetireType
    <2>1. served \in [Textures -> NamedTimes] /\ unreferenced \in [Textures -> NamedTimes]
        BY DEF RetireInit, NamedTimes
    <2>2. mosaicRing \in Seq(Textures)
        BY DEF RetireInit
    <2>3. \A f \in Textures : served[f] <= second /\ unreferenced[f] <= second
        BY DEF RetireInit
    <2>4. cleaned \in BOOLEAN
        BY DEF RetireInit
    <2> QED BY <1>1, <2>1, <2>2, <2>3, <2>4 DEF RetireInit, RetireType
<1> QED BY <1>1, <1>2 DEF RetireInit, RetireInv, MarkedAfter, GraceKept, MarkedInTime

\* A publication: the names that go were named until now.
LEMMA PublishRetire ==
    ASSUME RetireInv, Publishes, mosaicRing' \in Seq(Textures),
           Named' \subseteq Named \cup {New}, Serves(Named \cup {New})
    PROVE  RetireInv'
<1>1. /\ published' = published + 1 /\ published < MaxTextures
      /\ present' = present \cup {published + 1}
      /\ UNCHANGED <<second, cleaned, unreferenced, started>>
      /\ served' = [f \in Textures |-> IF f \in Named \cup {published + 1} THEN second ELSE served[f]]
    BY DEF Publishes, Serves, New
<1>2. Named' \subseteq Named \cup {published + 1} /\ Named \subseteq present
    BY NamedIsPresent DEF New
<1>3. \A f \in Textures :
          /\ f \in Named \cup {published + 1} => served'[f] = second
          /\ f \notin Named \cup {published + 1} => served'[f] = served[f]
    BY <1>1
<1>4. RetireType'
    <2>1. published' \in 0..MaxTextures /\ Named' \subseteq 1..published' /\ present' \subseteq 1..published'
        BY <1>1, <1>2 DEF RetireInv, RetireType
    <2>2. served' \in [Textures -> NamedTimes] /\ \A f \in Textures : served'[f] <= second
        BY <1>1, <1>3 DEF RetireInv, RetireType, NamedTimes
    <2> QED BY <1>1, <2>1, <2>2 DEF RetireInv, RetireType
<1>5. MarkedAfter'
    BY <1>1, <1>2, <1>3 DEF RetireInv, RetireType, MarkedAfter, NamedTimes
<1>6. GraceKept'
    BY <1>1, <1>2, <1>3 DEF RetireInv, GraceKept
<1>7. MarkedInTime'
    BY <1>1, <1>2, <1>3 DEF RetireInv, RetireType, MarkedAfter, MarkedInTime, LastNamed, NamedTimes
<1> QED BY <1>4, <1>5, <1>6, <1>7 DEF RetireInv

\* Showing a sweep and storing a composite keep the invariant.
LEMMA ShowRetire ==
    ASSUME RetireInv, ShowPolar \/ StoreMosaic
    PROVE  RetireInv'
<1>1. Publishes /\ Serves(Named \cup {New})
    BY DEF ShowPolar, StoreMosaic
<1>2. New \in Textures /\ mosaicRing \in Seq(Textures)
    BY <1>1 DEF Publishes, New, RetireInv, RetireType
<1>3. CASE ShowPolar
    <2>1. mosaicRing' = <<>> /\ onScreen' = {New}
        BY <1>3 DEF ShowPolar
    <2>2. ToSet(mosaicRing') = {}
        BY <2>1 DEF ToSet
    <2>3. Named' \subseteq Named \cup {New}
        BY <2>1, <2>2 DEF Named
    <2> QED BY <1>1, <2>1, <2>3, PublishRetire
<1>4. CASE StoreMosaic
    <2>1. mosaicRing' = Kept(Append(mosaicRing, New)) /\ onScreen' \in {onScreen, {New}}
        BY <1>4 DEF StoreMosaic
    <2>2. Named' \subseteq Named \cup {New} /\ mosaicRing' \in Seq(Textures)
        BY <1>2, <2>1, RingNames DEF Named
    <2> QED BY <1>1, <2>2, PublishRetire
<1> QED BY <1>3, <1>4

\* Stepping to a composite of the timeline keeps the invariant.
LEMMA StepRetire ==
    ASSUME RetireInv, StepToMosaic
    PROVE  RetireInv'
<1>1. /\ Named' \subseteq Named
      /\ UNCHANGED <<second, cleaned, published, present, mosaicRing, unreferenced, started>>
      /\ served' = [f \in Textures |-> IF f \in Named THEN second ELSE served[f]]
    BY DEF StepToMosaic, Named, Serves
<1>2. served \in [Textures -> NamedTimes] /\ \A f \in Textures : f \in Named => served[f] = second
    BY DEF RetireInv, RetireType, MarkedAfter
<1>3. served' = served
    BY <1>1, <1>2
<1>4. RetireType' /\ MarkedAfter'
    BY <1>1, <1>3 DEF RetireInv, RetireType, MarkedAfter
<1>5. GraceKept'
    BY <1>1, <1>3 DEF RetireInv, GraceKept
<1>6. MarkedInTime'
    BY <1>1, <1>3 DEF RetireInv, RetireType, MarkedAfter, MarkedInTime, LastNamed, NamedTimes
<1> QED BY <1>4, <1>5, <1>6 DEF RetireInv

\* The sweep marks what it finds unnamed, and deletes what was so for long.
LEMMA CleanupRetire ==
    ASSUME RetireInv, Cleanup
    PROVE  RetireInv'
<1> DEFINE Since(f) == IF unreferenced[f] = -1 THEN second ELSE unreferenced[f]
           due == {f \in present \ Named : second - Since(f) >= RetireAfter}
<1>1. /\ cleaned = FALSE /\ cleaned' = TRUE
      /\ UNCHANGED <<second, published, onScreen, mosaicRing, started, served>>
      /\ UNCHANGED Named
    BY DEF Cleanup, Named
<1>2. /\ present' = present \ due
      /\ unreferenced' = [f \in Textures |-> IF f \in (present \ Named) \ due THEN Since(f) ELSE -1]
    <2> DEFINE since == [f \in present \ Named |-> Since(f)]
               expired == {f \in DOMAIN since : second - since[f] >= RetireAfter}
    <2>1. /\ unreferenced' = [f \in Textures |->
                                IF f \in DOMAIN since \ expired THEN since[f] ELSE -1]
          /\ present' = present \ expired
        BY DEF Cleanup, Sweep
    <2>2. DOMAIN since = present \ Named /\ expired = due
        OBVIOUS
    <2> QED BY <2>1, <2>2
<1>3. \A f \in present \ Named : Since(f) \in Nat /\ Since(f) <= second /\ served[f] <= Since(f)
    BY DEF RetireInv, RetireType, MarkedAfter, NamedTimes
<1>4. \A f \in Textures :
          /\ f \in (present \ Named) \ due => unreferenced'[f] = Since(f)
          /\ f \notin (present \ Named) \ due => unreferenced'[f] = -1
    BY <1>2
<1> HIDE DEF due
<1>5. \A f \in due : second - served[f] >= RetireAfter
    <2> SUFFICES ASSUME NEW f \in due PROVE second - served[f] >= RetireAfter
        OBVIOUS
    <2>1. f \in present \ Named /\ second - Since(f) >= RetireAfter
        BY DEF due
    <2>2. f \in Textures /\ served[f] \in NamedTimes /\ second \in Nat
        BY <2>1 DEF RetireInv, RetireType
    <2>3. Since(f) \in Nat /\ served[f] <= Since(f)
        BY <1>3, <2>1
    <2> HIDE DEF Since
    <2> QED BY <2>1, <2>2, <2>3 DEF NamedTimes
<1>6. RetireType'
    <2>1. unreferenced' \in [Textures -> NamedTimes] /\ \A f \in Textures : unreferenced'[f] <= second
        BY <1>2, <1>3, <1>4 DEF RetireInv, RetireType, NamedTimes
    <2> QED BY <1>1, <1>2, <2>1 DEF RetireInv, RetireType
<1>7. MarkedAfter'
    BY <1>1, <1>3, <1>4 DEF RetireInv, RetireType, MarkedAfter
<1>8. GraceKept'
    <2> SUFFICES ASSUME NEW f \in Textures, served[f] # -1, second - served[f] < RetireAfter
                 PROVE  f \in present'
        BY <1>1 DEF GraceKept
    <2>1. f \in present
        BY DEF RetireInv, GraceKept
    <2>2. f \notin due
        BY <1>5 DEF RetireInv, RetireType, NamedTimes
    <2> QED BY <1>2, <2>1, <2>2
<1>9. MarkedInTime'
    <2> SUFFICES ASSUME NEW f \in present \ Named, f \notin due
                 PROVE  /\ unreferenced'[f] # -1
                        /\ unreferenced'[f] <= LastNamed(f) + 1
                        /\ second - unreferenced'[f] <= RetireAfter - 1
        BY <1>1, <1>2 DEF MarkedInTime, LastNamed
    <2>1. f \in Textures /\ unreferenced'[f] = Since(f) /\ second - Since(f) < RetireAfter
          /\ Since(f) \in Nat
        BY <1>3, <1>4 DEF due, RetireInv, RetireType
    <2>2. Since(f) <= LastNamed(f) + 1
        <3>1. IF unreferenced[f] = -1 THEN LastNamed(f) >= second - 1
              ELSE unreferenced[f] <= LastNamed(f) + 1
            BY <1>1 DEF RetireInv, MarkedInTime
        <3>2. LastNamed(f) \in Nat /\ second \in Nat
            BY <2>1 DEF RetireInv, RetireType, LastNamed, NamedTimes
        <3> QED BY <3>1, <3>2
    <2> HIDE DEF Since
    <2>3. second \in Nat
        BY DEF RetireInv, RetireType
    <2> QED BY <2>1, <2>2, <2>3
<1> QED BY <1>6, <1>7, <1>8, <1>9 DEF RetireInv

\* A second that passes keeps the invariant.
LEMMA SecondRetire ==
    ASSUME RetireInv, Second
    PROVE  RetireInv'
<1>1. /\ cleaned = TRUE /\ cleaned' = FALSE /\ second' = second + 1
      /\ UNCHANGED <<published, present, onScreen, mosaicRing, unreferenced, started, Named>>
      /\ served' = [f \in Textures |-> IF f \in Named THEN second + 1 ELSE served[f]]
    BY DEF Second, Named, RetireInv, RetireType
<1>2. \A f \in Textures : served'[f] = IF f \in Named THEN second + 1 ELSE served[f]
    BY <1>1
<1>3. RetireType'
    <2>1. served' \in [Textures -> NamedTimes] /\ \A f \in Textures : served'[f] <= second + 1
        BY <1>1, <1>2 DEF RetireInv, RetireType, NamedTimes
    <2>2. cleaned' \in BOOLEAN
        BY <1>1
    <2>3. second' \in Nat /\ started' \in Nat /\ started' <= second'
        BY <1>1 DEF RetireInv, RetireType
    <2>4. /\ Named' \subseteq 1..published' /\ present' \subseteq 1..published'
          /\ published' \in 0..MaxTextures /\ mosaicRing' \in Seq(Textures)
          /\ unreferenced' \in [Textures -> NamedTimes]
        BY <1>1 DEF RetireInv, RetireType
    <2>5. \A f \in Textures : unreferenced'[f] <= second'
        BY <1>1 DEF RetireInv, RetireType, NamedTimes
    <2> QED BY <1>1, <2>1, <2>2, <2>3, <2>4, <2>5 DEF RetireType
<1>4. MarkedAfter'
    BY <1>1, <1>2 DEF RetireInv, RetireType, MarkedAfter, NamedTimes
<1>5. GraceKept'
    BY <1>1, <1>2, NamedIsPresent DEF RetireInv, RetireType, GraceKept, NamedTimes
<1>6. MarkedInTime'
    BY <1>1, <1>2 DEF RetireInv, RetireType, MarkedInTime, LastNamed, NamedTimes
<1> QED BY <1>3, <1>4, <1>5, <1>6 DEF RetireInv

\* The next daemon has named nothing, and starts to mark anew.
LEMMA RestartRetire ==
    ASSUME RetireInv, RestartAll
    PROVE  RetireInv'
<1>1. /\ cleaned' = FALSE /\ started' = second /\ mosaicRing' = <<>>
      /\ unreferenced' = [f \in Textures |-> -1]
      /\ UNCHANGED <<second, published, present, served>>
    BY DEF RestartAll
<1>2. Named' = {}
    BY DEF RestartAll, Named, ToSet
<1>3. RetireType'
    <2>1. unreferenced' \in [Textures -> NamedTimes] /\ \A f \in Textures : unreferenced'[f] = -1
        BY <1>1 DEF NamedTimes
    <2>2. mosaicRing' \in Seq(Textures)
        BY <1>1
    <2>3. cleaned' \in BOOLEAN
        BY <1>1
    <2>4. \A f \in Textures : unreferenced'[f] <= second
        BY <2>1 DEF RetireInv, RetireType
    <2>5. second' \in Nat /\ started' \in Nat /\ started' <= second'
        BY <1>1 DEF RetireInv, RetireType
    <2>6. /\ Named' \subseteq 1..published' /\ present' \subseteq 1..published'
          /\ published' \in 0..MaxTextures
          /\ served' \in [Textures -> NamedTimes] /\ \A f \in Textures : served'[f] <= second
        BY <1>1, <1>2 DEF RetireInv, RetireType
    <2> QED BY <1>1, <2>1, <2>2, <2>3, <2>4, <2>5, <2>6 DEF RetireType
<1>4. MarkedAfter' /\ GraceKept'
    BY <1>1, <1>2 DEF RetireInv, RetireType, MarkedAfter, GraceKept
<1>5. MarkedInTime'
    <2> SUFFICES ASSUME NEW f \in present
                 PROVE  unreferenced'[f] = -1 /\ LastNamed(f)' >= second - 1
        BY <1>1, <1>2 DEF MarkedInTime
    <2>1. f \in Textures /\ served[f] \in NamedTimes /\ served[f] <= second /\ second \in Nat
        BY DEF RetireInv, RetireType
    <2>2. LastNamed(f)' = second
        BY <1>1, <2>1 DEF LastNamed, NamedTimes
    <2> QED BY <1>1, <2>1, <2>2
<1> QED BY <1>3, <1>4, <1>5 DEF RetireInv

\* A texture stays for RETIRE_AFTER after the last state that named it, over
\* evictions, switches and restarts, and no longer than that once a cleanup
\* of the running daemon could first see it unnamed (Retirement::sweep).
THEOREM FilesServeTheirTimeHolds == RetireSpec => []FilesServeTheirTime
<1>1. RetireInv /\ [RetireNext]_retireVars => RetireInv'
    <2> SUFFICES ASSUME RetireInv, [RetireNext]_retireVars PROVE RetireInv'
        OBVIOUS
    <2>1. CASE UNCHANGED retireVars
        BY <2>1 DEF retireVars, RetireInv, RetireType, MarkedAfter, GraceKept, MarkedInTime,
                    LastNamed, Named
    <2>2. CASE RetireNext
        BY <2>2, ShowRetire, StepRetire, CleanupRetire, SecondRetire, RestartRetire DEF RetireNext
    <2> QED BY <2>1, <2>2
<1>2. RetireInv => FilesServeTheirTime
    <2> SUFFICES ASSUME RetireInv, NEW f \in present \ Named, cleaned
                 PROVE  second - LastNamed(f) <= RetireAfter
        BY DEF RetireInv, FilesServeTheirTime, NoneLeaks, LastNamed
    <2>1. f \in Textures /\ LastNamed(f) \in Nat /\ LastNamed(f) <= second
        BY DEF RetireInv, RetireType, LastNamed, NamedTimes
    <2>2. unreferenced[f] \in NamedTimes
        BY <2>1 DEF RetireInv, RetireType
    <2> QED BY <2>1, <2>2 DEF RetireInv, RetireType, MarkedInTime, NamedTimes
<1> QED BY InitRetire, <1>1, <1>2, PTL DEF RetireSpec

-----------------------------------------------------------------------------
(* Sweeps *)

Radials == [azimuth : 0..(Circle - 1), code : Codes, fits : BOOLEAN]

\* Rays of the circle, in ascending order.
Rays(s) ==
    /\ s \in Seq([azimuth : 0..(Circle - 1), code : Codes])
    /\ \A i, j \in 1..Len(s) : i < j => s[i].azimuth <= s[j].azimuth

SweepInv == radials \in Seq(Radials) /\ Rays(rays)

\* The sort of from_radials gives rays in ascending order.
LEMMA FromRadialsGives ==
    ASSUME NEW cut \in Seq(Radials), Rays(rays)
    PROVE  Rays(FromRadials(cut))
<1> DEFINE S == 1..Len(cut)
           earlier(i, j) == \/ cut[i].azimuth < cut[j].azimuth
                            \/ cut[i].azimuth = cut[j].azimuth /\ i < j
           B == {p \in S \X S : earlier(p[1], p[2])}
           order == SortBy(S, B)
           sorted == [n \in S |-> [azimuth |-> cut[order[n]].azimuth, code |-> cut[order[n]].code]]
<1>1. Len(cut) \in Nat /\ DOMAIN cut = S
    OBVIOUS
<1>2. \A i \in S : i \in Int /\ cut[i] \in Radials
    BY <1>1
<1>3. \A i \in S : cut[i].azimuth \in 0..(Circle - 1) /\ cut[i].code \in Codes
    BY <1>2 DEF Radials
<1>4. \A i \in S : cut[i].azimuth \in Int
    BY <1>3
<1>5. \A i, j \in S : <<i, j>> \in B <=> earlier(i, j)
    OBVIOUS
<1>6. IsFiniteSet(S) /\ Cardinality(S) = Len(cut)
    BY <1>1, FS_Interval
<1>7. Orders(B, S)
    <2> HIDE DEF B, S
    <2>1. \A i, j \in S : i # j => earlier(i, j) \/ earlier(j, i)
        BY <1>2, <1>4
    <2>2. \A i \in S : ~earlier(i, i)
        BY <1>2, <1>4
    <2>3. \A i, j, k \in S : earlier(i, j) /\ earlier(j, k) => earlier(i, k)
        BY <1>2, <1>4
    <2> QED BY <1>5, <1>6, <2>1, <2>2, <2>3 DEF Orders
<1> HIDE DEF B
<1>8. /\ order \in [S -> S]
      /\ \A m, n \in S : m < n => <<order[m], order[n]>> \in B
    <2>1. /\ SortBy(S, B) \in [1..Cardinality(S) -> S]
          /\ \A m, n \in 1..Cardinality(S) : m < n => <<SortBy(S, B)[m], SortBy(S, B)[n]>> \in B
        <3> HIDE DEF S
        <3> QED BY <1>7, SortGives
    <2> QED BY <1>6, <2>1
<1> HIDE DEF order
<1>9. sorted \in Seq([azimuth : 0..(Circle - 1), code : Codes]) /\ Len(sorted) = Len(cut)
    <2>1. \A n \in S : sorted[n] \in [azimuth : 0..(Circle - 1), code : Codes]
        BY <1>3, <1>8
    <2> QED BY <1>1, <2>1
<1>10. \A m, n \in S : m < n => sorted[m].azimuth <= sorted[n].azimuth
    <2> SUFFICES ASSUME NEW m \in S, NEW n \in S, m < n PROVE sorted[m].azimuth <= sorted[n].azimuth
        OBVIOUS
    <2>1. order[m] \in S /\ order[n] \in S /\ earlier(order[m], order[n])
        BY <1>5, <1>8
    <2>2. sorted[m].azimuth = cut[order[m]].azimuth /\ sorted[n].azimuth = cut[order[n]].azimuth
        OBVIOUS
    <2> QED BY <1>4, <2>1, <2>2
<1>11. FromRadials(cut) = sorted \/ FromRadials(cut) = rays
    BY <1>1 DEF FromRadials, order, B
<1> HIDE DEF sorted
<1> QED BY <1>9, <1>10, <1>11 DEF Rays

\* A sweep is sorted from the start, and every scan leaves one that is.
LEMMA SweepInvHolds == SweepSpec => []SweepInv
<1> USE SweepConstants DEF Circle
<1>1. SweepInit => SweepInv
    BY DEF SweepInit, SweepInv, Rays
<1>2. SweepInv /\ [SweepNext]_sweepVars => SweepInv'
    <2> SUFFICES ASSUME SweepInv, [SweepNext]_sweepVars PROVE SweepInv'
        OBVIOUS
    <2>1. CASE Scan
        <3>1. PICK code \in Codes, fits \in BOOLEAN,
                   azimuth \in IF radials = <<>> THEN 0..(Circle - 1)
                               ELSE {(Last(radials).azimuth + a) % Circle : a \in Advances} :
                radials' = Append(radials, [azimuth |-> azimuth, code |-> code,
                                            fits |-> fits \/ radials = <<>>])
            BY <2>1 DEF Scan
        <3>2. azimuth \in 0..(Circle - 1)
            <4>1. CASE radials = <<>>
                BY <3>1, <4>1
            <4>2. CASE radials # <<>>
                <5>1. Last(radials) \in Radials
                    BY <4>2 DEF SweepInv, Last
                <5>2. PICK a \in Advances : azimuth = (Last(radials).azimuth + a) % Circle
                    BY <3>1, <4>2
                <5>3. Last(radials).azimuth \in Nat /\ a \in Nat
                    BY <5>1 DEF Radials
                <5> QED BY <5>2, <5>3
            <4> QED BY <4>1, <4>2
        <3>3. radials' \in Seq(Radials)
            <4>1. [azimuth |-> azimuth, code |-> code, fits |-> fits \/ radials = <<>>] \in Radials
                BY <3>2 DEF Radials
            <4> QED BY <3>1, <4>1 DEF SweepInv
        <3>4. Rays(rays')
            BY <2>1, <3>3, FromRadialsGives DEF Scan, SweepInv
        <3> QED BY <3>3, <3>4 DEF SweepInv
    <2>2. CASE UNCHANGED sweepVars
        BY <2>2 DEF SweepInv, sweepVars, Rays
    <2> QED BY <2>1, <2>2 DEF SweepNext
<1> QED BY <1>1, <1>2, PTL DEF SweepSpec
\* A mod of the circle is zero only at its multiples.
LEMMA AroundZero ==
    ASSUME NEW C \in Nat \ {0}, NEW k \in Int, -2 * C < k, k < 2 * C
    PROVE  k % C = 0 <=> k \in {-C, 0, C}
<1>1. CASE k >= C
    <2>1. k % C = k - C
        BY <1>1
    <2> QED BY <1>1, <2>1
<1>2. CASE 0 <= k /\ k < C
    BY <1>2
<1>3. CASE -C <= k /\ k < 0
    <2>1. k % C = IF k = -C THEN 0 ELSE k + C
        BY <1>3
    <2> QED BY <1>3, <2>1
<1>4. CASE k < -C
    <2>1. k % C = k + 2 * C
        BY <1>4
    <2> QED BY <1>4, <2>1
<1> QED BY <1>1, <1>2, <1>3, <1>4

\* The short way from one angle to another.
Short(a, x, C) ==
    LET d == IF a > x THEN a - x ELSE x - a
    IN  IF d < C - d THEN d ELSE C - d

\* It is the least angle by which to turn from the one to get to the other.
LEMMA ShortIsLeast ==
    ASSUME NEW C \in Nat \ {0}, NEW a \in 0..(C - 1), NEW x \in 0..(C - 1)
    PROVE  Short(a, x, C) = CHOOSE d \in 0..C :
                /\ (a + d - x) % C = 0 \/ (a - d - x) % C = 0
                /\ \A e \in 0..(d - 1) : (a + e - x) % C # 0 /\ (a - e - x) % C # 0
<1> DEFINE meets(d) == (a + d - x) % C = 0 \/ (a - d - x) % C = 0
           m == Short(a, x, C)
<1>1. m \in 0..C /\ m \in Int
    BY DEF Short
<1>2. ASSUME NEW d \in 0..C PROVE meets(d) <=> d = m \/ d = C - m
    <2>1. (a + d - x) % C = 0 <=> a + d - x \in {-C, 0, C}
        <3> DEFINE k == a + d - x
        <3>1. k \in Int /\ -2 * C < k /\ k < 2 * C
            OBVIOUS
        <3> HIDE DEF k
        <3> QED BY <3>1, AroundZero DEF k
    <2>2. (a - d - x) % C = 0 <=> a - d - x \in {-C, 0, C}
        <3> DEFINE k == a - d - x
        <3>1. k \in Int /\ -2 * C < k /\ k < 2 * C
            OBVIOUS
        <3> HIDE DEF k
        <3> QED BY <3>1, AroundZero DEF k
    <2> QED BY <2>1, <2>2 DEF Short
<1>3. m <= C - m
    BY DEF Short
<1>4. \A d \in 0..C : \A e \in 0..(d - 1) : e \in 0..C
    OBVIOUS
<1> HIDE DEF meets, m
<1>5. ASSUME NEW d \in 0..C
      PROVE  meets(d) /\ (\A e \in 0..(d - 1) : ~meets(e)) <=> d = m
    <2>1. CASE d = m
        <3>1. \A e \in 0..(d - 1) : e # m /\ e # C - m
            BY <1>1, <1>3, <2>1
        <3> QED BY <1>2, <1>4, <2>1, <3>1
    <2>2. CASE d # m /\ meets(d)
        <3>1. m \in 0..(d - 1)
            BY <1>1, <1>2, <1>3, <2>2
        <3> QED BY <1>1, <1>2, <2>2, <3>1
    <2> QED BY <2>1, <2>2
<1>6. m = CHOOSE d \in 0..C : meets(d) /\ \A e \in 0..(d - 1) : ~meets(e)
    BY <1>1, <1>5
<1>7. \A e \in 0..C : (a + e - x) % C # 0 /\ (a - e - x) % C # 0 <=> ~meets(e)
    BY DEF meets
<1>8. \A d \in 0..C :
        (/\ (a + d - x) % C = 0 \/ (a - d - x) % C = 0
         /\ \A e \in 0..(d - 1) : (a + e - x) % C # 0 /\ (a - e - x) % C # 0)
        <=> d = m
    BY <1>4, <1>5, <1>7 DEF meets
<1>9. m = CHOOSE d \in 0..C :
                /\ (a + d - x) % C = 0 \/ (a - d - x) % C = 0
                /\ \A e \in 0..(d - 1) : (a + e - x) % C # 0 /\ (a - e - x) % C # 0
    BY <1>1, <1>8
<1> QED BY <1>9 DEF m

AtMost(angle, n, x) == {i \in 1..n : angle[i] <= x}

\* Of numbers in ascending order those up to a bound come first
\* (partition_point), and their count tells which.
LEMMA FirstUpTo ==
    ASSUME NEW n \in Nat, NEW angle \in [1..n -> Int], NEW x \in Int,
           \A i, j \in 1..n : i < j => angle[i] <= angle[j]
    PROVE  LET p == Cardinality(AtMost(angle, n, x)) IN
           /\ p \in 0..n
           /\ \A i \in 1..n : i <= p <=> angle[i] <= x
<1> DEFINE I == {i \in 1..n : angle[i] <= x}
<1>1. PICK p \in 0..n : \A i \in 1..n : i <= p <=> angle[i] <= x
    <2>1. CASE I = {}
        <3>1. \A i \in 1..n : ~(i <= 0) /\ ~(angle[i] <= x)
            BY <2>1
        <3> QED BY <3>1
    <2>2. CASE I # {}
        <3>1. Places(I)
            <4>1. I \in SUBSET (1..n) /\ IsFiniteSet(1..n)
                BY FS_Interval
            <4>2. I \subseteq Nat
                OBVIOUS
            <4> HIDE DEF I
            <4> QED BY <4>1, <4>2, FS_Subset DEF Places
        <3>2. PICK m \in I : \A k \in I : k <= m
            <4> HIDE DEF I
            <4> QED BY <2>2, <3>1, HasLast
        <3>3. ASSUME NEW i \in 1..n PROVE i <= m <=> angle[i] <= x
            <4>1. angle[i] <= x => i <= m
                BY <3>2
            <4>2. /\ m \in 1..n /\ m \in Int /\ i \in Int
                  /\ angle[m] <= x /\ angle[m] \in Int /\ angle[i] \in Int
                OBVIOUS
            <4>3. i < m => angle[i] <= angle[m]
                BY <4>2
            <4>4. i <= m => angle[i] <= x
                BY <4>2, <4>3
            <4> QED BY <4>1, <4>4
        <3>4. m \in 0..n
            OBVIOUS
        <3> QED BY <3>3, <3>4
    <2> QED BY <2>1, <2>2
<1>2. I = 1..p
    BY <1>1
<1>3. Cardinality(1..p) = p
    BY FS_Interval
<1>4. Cardinality(I) = p
    BY <1>2, <1>3
<1> QED BY <1>1, <1>4 DEF AtMost

\* A measured code's band is the one whose bounds it lies between, the first
\* and the last open-ended.
LEMMA ClassIs ==
    ASSUME NEW code \in Nat
    PROVE  Class(code) + 1 = Band(code)
<1> DEFINE N == Classes + 1
           p == Cardinality({i \in 1..N : Bounds[i] <= code})
<1>1. N \in Nat /\ Classes \in Nat /\ Classes >= 1 /\ DOMAIN Bounds = 1..N
      /\ \A i \in 1..N : Bounds[i] \in Int
    BY SweepConstants
<1>2. p \in 0..N /\ \A i \in 1..N : i <= p <=> Bounds[i] <= code
    <2>1. Bounds \in [1..N -> Int] /\ \A i, j \in 1..N : i < j => Bounds[i] <= Bounds[j]
        BY <1>1, SweepConstants
    <2>2. p = Cardinality(AtMost(Bounds, N, code)) /\ code \in Int
        BY DEF AtMost
    <2> HIDE DEF N, p
    <2> QED BY <1>1, <2>1, <2>2, FirstUpTo
<1>3. Class(code) = IF p = 0 THEN IF 0 < Classes THEN 0 ELSE Classes - 1
                    ELSE IF p - 1 < Classes THEN p - 1 ELSE Classes - 1
    BY <1>1 DEF Class
<1> DEFINE b == Class(code) + 1
<1>4. b = IF p = 0 THEN 1 ELSE IF p <= Classes THEN p ELSE Classes
    <2> HIDE DEF p
    <2> QED BY <1>1, <1>2, <1>3
<1> HIDE DEF p, b
<1>5. \A c \in 1..Classes : c \in 1..N /\ c + 1 \in 1..N /\ c \in Int
    BY <1>1
<1>6. \A c \in 1..Classes : code < Bounds[c + 1] <=> c >= p
    BY <1>1, <1>2, <1>5
<1>7. \A c \in 1..Classes : Bounds[c] <= code <=> c <= p
    BY <1>1, <1>2, <1>5
<1>8. b \in 1..Classes
    BY <1>1, <1>2, <1>4
<1>9. \A c \in 1..Classes :
        (c = 1 \/ Bounds[c] <= code) /\ (c = Classes \/ code < Bounds[c + 1]) <=> c = b
    <2> TAKE c \in 1..Classes
    <2>1. (c = 1 \/ c <= p) /\ (c = Classes \/ c >= p) <=> c = b
        BY <1>1, <1>2, <1>4, <1>5
    <2> QED BY <1>6, <1>7, <2>1
<1>10. b = Band(code)
    BY <1>8, <1>9 DEF Band
<1> QED BY <1>10 DEF b

\* Of rays in ascending order one of the two neighbours of an angle, round the
\* circle, is nearest to it.
LEMMA NeighbourIsNearest ==
    ASSUME NEW C \in Nat \ {0}, NEW n \in Nat \ {0}, NEW angle \in [1..n -> 0..(C - 1)],
           NEW x \in 0..(C - 1), \A i, j \in 1..n : i < j => angle[i] <= angle[j],
           NEW p \in 0..n, \A i \in 1..n : i <= p <=> angle[i] <= x
    PROVE  LET after == p % n
               before == (after + n - 1) % n
           IN  /\ after \in 0..(n - 1) /\ before \in 0..(n - 1)
               /\ \A i \in 1..n : \/ Short(angle[before + 1], x, C) <= Short(angle[i], x, C)
                                  \/ Short(angle[after + 1], x, C) <= Short(angle[i], x, C)
<1> DEFINE after == p % n
           before == (after + n - 1) % n
<1>1. \A i \in 1..n : angle[i] \in 0..(C - 1) /\ angle[i] \in Int /\ i \in Int
    OBVIOUS
<1>2. CASE 1 <= p /\ p < n
    <2>1. after = p /\ before = p - 1
        <3>1. after = p
            BY <1>2
        <3>2. (p + n - 1) % n = p - 1
            <4> DEFINE k == p - 1
            <4>1. k \in 0..(n - 1) /\ p + n - 1 = k + n
                BY <1>2
            <4> HIDE DEF k
            <4>2. (k + n) % n = k
                BY <4>1
            <4> QED BY <4>1, <4>2 DEF k
        <3> QED BY <3>1, <3>2
    <2> HIDE DEF after, before
    <2>2. before + 1 = p /\ after + 1 = p + 1 /\ p \in 1..n /\ p + 1 \in 1..n
        BY <1>2, <2>1
    <2>3. angle[p] <= x /\ x < angle[p + 1]
        BY <1>1, <1>2, <2>2
    <2>4. ASSUME NEW i \in 1..n
          PROVE  \/ Short(angle[p], x, C) <= Short(angle[i], x, C)
                 \/ Short(angle[p + 1], x, C) <= Short(angle[i], x, C)
        <3>1. angle[i] <= angle[p] \/ angle[p + 1] <= angle[i]
            <4>1. i < p \/ i = p \/ i = p + 1 \/ p + 1 < i
                BY <1>1
            <4> QED BY <1>1, <2>2, <4>1
        <3>2. angle[i] \in 0..(C - 1) /\ angle[p] \in 0..(C - 1) /\ angle[p + 1] \in 0..(C - 1)
            BY <2>2
        <3> DEFINE a == angle[p]
                   b == angle[p + 1]
                   c == angle[i]
        <3>3. /\ a \in 0..(C - 1) /\ b \in 0..(C - 1) /\ c \in 0..(C - 1)
              /\ a <= x /\ x < b /\ (c <= a \/ b <= c)
            BY <2>3, <3>1, <3>2
        <3> HIDE DEF a, b, c
        <3>4. c <= a => Short(a, x, C) <= Short(c, x, C) \/ Short(b, x, C) <= Short(c, x, C)
            BY <3>3 DEF Short
        <3>5. b <= c => Short(a, x, C) <= Short(c, x, C) \/ Short(b, x, C) <= Short(c, x, C)
            BY <3>3 DEF Short
        <3> QED BY <3>3, <3>4, <3>5 DEF a, b, c
    <2> QED BY <2>1, <2>2, <2>4, <1>2 DEF after, before
<1>3. CASE p = 0 \/ p = n
    <2>1. after = 0 /\ before = n - 1
        BY <1>3
    <2> HIDE DEF after, before
    <2>2. before + 1 = n /\ after + 1 = 1 /\ 1 \in 1..n /\ n \in 1..n
        BY <2>1
    <2>3. \A i \in 1..n : angle[1] <= angle[i] /\ angle[i] <= angle[n]
        <3> TAKE i \in 1..n
        <3>1. (i = 1 \/ 1 < i) /\ (i = n \/ i < n)
            OBVIOUS
        <3> QED BY <1>1, <2>2, <3>1
    <2>4. (\A i \in 1..n : x < angle[i]) \/ (\A i \in 1..n : angle[i] <= x)
        BY <1>1, <1>3
    <2>5. ASSUME NEW i \in 1..n
          PROVE  \/ Short(angle[n], x, C) <= Short(angle[i], x, C)
                 \/ Short(angle[1], x, C) <= Short(angle[i], x, C)
        <3>1. angle[i] \in 0..(C - 1) /\ angle[1] \in 0..(C - 1) /\ angle[n] \in 0..(C - 1)
            BY <2>2
        <3>2. angle[1] <= angle[i] /\ angle[i] <= angle[n]
            BY <2>3
        <3>3. \/ x < angle[1] /\ x < angle[i] /\ x < angle[n]
              \/ angle[1] <= x /\ angle[i] <= x /\ angle[n] <= x
            BY <2>2, <2>4
        <3> DEFINE a == angle[1]
                   b == angle[n]
                   c == angle[i]
        <3>4. /\ a \in 0..(C - 1) /\ b \in 0..(C - 1) /\ c \in 0..(C - 1) /\ a <= c /\ c <= b
              /\ (x < a /\ x < c /\ x < b) \/ (a <= x /\ c <= x /\ b <= x)
            BY <3>1, <3>2, <3>3
        <3> HIDE DEF a, b, c
        <3>5. Short(b, x, C) <= Short(c, x, C) \/ Short(a, x, C) <= Short(c, x, C)
            BY <3>4 DEF Short
        <3> QED BY <3>5 DEF a, b, c
    <2>6. \A i \in 1..n : \/ Short(angle[before + 1], x, C) <= Short(angle[i], x, C)
                         \/ Short(angle[after + 1], x, C) <= Short(angle[i], x, C)
        BY <2>2, <2>5
    <2>7. after \in 0..(n - 1) /\ before \in 0..(n - 1)
        BY <2>1
    <2> QED BY <2>6, <2>7 DEF after, before
<1> QED BY <1>2, <1>3
\* Each slice draws the nearest ray, or nothing within the gap, whatever was
\* scanned (DrawsNearest), for any circle, gap, codes and palette.
THEOREM DrawsNearestHolds == SweepSpec => []DrawsNearest
<1>1. SweepInv => DrawsNearest
    <2> SUFFICES ASSUME SweepInv, rays # <<>>, NEW slice \in 0..(Slices - 1)
        PROVE  /\ LutRow(slice) + 1 \in DOMAIN Texture
               /\ IF NearestRays(2 * slice + 1) = {} THEN Texture[LutRow(slice) + 1] = 0
                  ELSE \E r \in NearestRays(2 * slice + 1) :
                        Texture[LutRow(slice) + 1] = IF rays[r].code < 2 THEN 0 ELSE Band(rays[r].code)
        BY DEF DrawsNearest
    <2> DEFINE x == 2 * slice + 1
               n == Len(rays)
               angle == [i \in 1..n |-> rays[i].azimuth]
               p == Cardinality({i \in DOMAIN rays : rays[i].azimuth <= x})
               after == p % n
               before == (after + n - 1) % n
               short(i) == Short(angle[i], x, Circle)
               nearest == NearestRays(x)
               row == IF short(before + 1) <= short(after + 1) THEN before ELSE after
               of(r) == IF rays[r].code < 2 THEN 0 ELSE Band(rays[r].code)
    <2>1. /\ Circle \in Nat \ {0} /\ x \in 0..(Circle - 1) /\ x \in Int /\ Gap \in Int
          /\ n \in Nat \ {0} /\ DOMAIN rays = 1..n
        BY SweepConstants DEF SweepInv, Rays, Circle
    <2>2. /\ \A i \in 1..n : rays[i].azimuth \in 0..(Circle - 1) /\ rays[i].code \in Codes
          /\ angle \in [1..n -> 0..(Circle - 1)]
          /\ \A i, j \in 1..n : i < j => angle[i] <= angle[j]
        <3> DEFINE R == [azimuth : 0..(Circle - 1), code : Codes]
        <3>1. \A i \in 1..n : rays[i] \in R
            <4>1. rays \in Seq(R)
                BY DEF SweepInv, Rays
            <4> HIDE DEF R
            <4> QED BY <4>1
        <3>2. \A i \in 1..n : rays[i].azimuth \in 0..(Circle - 1) /\ rays[i].code \in Codes
            BY <3>1
        <3> QED BY <3>2 DEF SweepInv, Rays
    <2>3. p \in 0..n /\ \A i \in 1..n : i <= p <=> angle[i] <= x
        <3>1. p = Cardinality(AtMost(angle, n, x))
            <4>1. {i \in DOMAIN rays : rays[i].azimuth <= x} = AtMost(angle, n, x)
                BY <2>1 DEF AtMost
            <4> QED BY <4>1
        <3>2. angle \in [1..n -> Int]
            BY <2>1, <2>2
        <3> HIDE DEF p, angle, n, x
        <3> QED BY <2>1, <2>2, <3>1, <3>2, FirstUpTo
    <2>4. /\ after \in 0..(n - 1) /\ before \in 0..(n - 1)
          /\ \A i \in 1..n : short(before + 1) <= short(i) \/ short(after + 1) <= short(i)
        <3> HIDE DEF p, angle, n, x
        <3> QED BY <2>1, <2>2, <2>3, NeighbourIsNearest
    <2>5. before + 1 \in 1..n /\ after + 1 \in 1..n /\ row \in 0..(n - 1) /\ row + 1 \in 1..n
        <3> HIDE DEF before, after, n
        <3> QED BY <2>1, <2>4
    <2>6. ASSUME NEW i \in 1..n PROVE Around(i, x) = short(i) /\ short(i) \in Int
        <3>1. angle[i] = rays[i].azimuth /\ angle[i] \in 0..(Circle - 1)
            BY <2>2
        <3> HIDE DEF x, angle
        <3>2. short(i) = Around(i, x)
            BY <2>1, <3>1, ShortIsLeast DEF Around
        <3>3. short(i) \in Int
            BY <2>1, <3>1 DEF Short
        <3> QED BY <3>2, <3>3
    <2>7. Distance(before, x) = short(before + 1) /\ Distance(after, x) = short(after + 1)
        <3>1. angle[before + 1] = rays[before + 1].azimuth /\ angle[after + 1] = rays[after + 1].azimuth
            <4> HIDE DEF before, after
            <4> QED BY <2>5
        <3> HIDE DEF before, after, x, angle
        <3> QED BY <3>1 DEF Distance, Short
    <2>8. Distance(row, x) = short(row + 1) /\ LutRow(slice) = IF short(row + 1) > Gap THEN n ELSE row
        <3>1. /\ Distance(before, x) <= Distance(after, x) =>
                    LutRow(slice) = IF Distance(before, x) > Gap THEN n ELSE before
              /\ ~(Distance(before, x) <= Distance(after, x)) =>
                    LutRow(slice) = IF Distance(after, x) > Gap THEN n ELSE after
            BY DEF LutRow
        <3> HIDE DEF before, after, x, short, n
        <3> QED BY <2>7, <3>1
    <2>9. \A i \in 1..n : short(row + 1) <= short(i)
        <3> HIDE DEF before, after, short, n
        <3> QED BY <2>4, <2>5, <2>6
    <2>10. nearest = {} <=> short(row + 1) > Gap
        <3> HIDE DEF row, n, short, x
        <3> USE DEF NearestRays
        <3>1. short(row + 1) <= Gap => row + 1 \in nearest
            BY <2>1, <2>5, <2>6, <2>9
        <3>2. ASSUME NEW r \in nearest PROVE short(row + 1) <= Gap
            <4>1. r \in 1..n /\ Around(r, x) <= Gap
                BY <2>1
            <4> QED BY <2>1, <2>5, <2>6, <2>9, <4>1
        <3>3. short(row + 1) \in Int
            BY <2>5, <2>6
        <3> QED BY <2>1, <3>1, <3>2, <3>3
    <2> DEFINE colours == [i \in DOMAIN rays |-> IF rays[i].code \in {0, 1} THEN 0
                                                 ELSE Class(rays[i].code) + 1]
    <2>11. ASSUME NEW i \in 1..n PROVE Texture[i] = of(i) /\ i \in DOMAIN Texture
        <3>1. colours \in Seq({colours[j] : j \in 1..n}) /\ Len(colours) = n
            BY <2>1
        <3>2. Texture = colours \o (IF NeedsBlank THEN <<0>> ELSE <<>>)
            BY DEF Texture
        <3>3. Texture[i] = colours[i] /\ i \in DOMAIN Texture
            <4> HIDE DEF colours, n
            <4> QED BY <2>1, <3>1, <3>2
        <3>4. rays[i].code \in Nat
            BY <2>2, SweepConstants
        <3>5. colours[i] = IF rays[i].code \in {0, 1} THEN 0 ELSE Class(rays[i].code) + 1
            BY <2>1
        <3>6. rays[i].code \in {0, 1} <=> rays[i].code < 2
            BY <3>4
        <3> QED BY <3>3, <3>4, <3>5, <3>6, ClassIs
    <2>12. NeedsBlank => Texture[n + 1] = 0 /\ n + 1 \in DOMAIN Texture
        <3>1. colours \in Seq({colours[j] : j \in 1..n}) /\ Len(colours) = n
            BY <2>1
        <3> HIDE DEF colours, n
        <3> QED BY <2>1, <3>1 DEF Texture, colours
    <2> HIDE DEF row, n, short
    <2>13. CASE short(row + 1) > Gap
        <3>1. LutRow(slice) = n /\ nearest = {}
            BY <2>8, <2>10, <2>13
        <3>2. NeedsBlank
            BY <3>1 DEF NeedsBlank, n
        <3> QED BY <2>12, <3>1, <3>2 DEF n
    <2>14. CASE ~(short(row + 1) > Gap)
        <3>1. LutRow(slice) = row /\ nearest # {}
            BY <2>8, <2>10, <2>14
        <3>2. row + 1 \in nearest
            <4> HIDE DEF x
            <4> QED BY <2>1, <2>5, <2>6, <2>9, <2>14 DEF NearestRays
        <3>3. Texture[row + 1] = of(row + 1) /\ row + 1 \in DOMAIN Texture
            BY <2>5, <2>11
        <3> HIDE DEF nearest, of
        <3>4. \E r \in nearest : Texture[LutRow(slice) + 1] = of(r)
            BY <3>1, <3>2, <3>3
        <3> QED BY <3>1, <3>3, <3>4 DEF nearest, of
    <2> QED BY <2>13, <2>14
<1> QED BY <1>1, SweepInvHolds, PTL
=============================================================================

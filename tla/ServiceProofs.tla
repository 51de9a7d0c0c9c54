--------------------------- MODULE ServiceProofs ---------------------------
(***************************************************************************)
(* The two services that answer clients from the network: TileJSON is read *)
(* once however many tasks want it, and an answer to a METAR query is made *)
(* from a box that holds the query's view, whoever fetched it, and holds   *)
(* the airports that come first, in order.                                 *)
(***************************************************************************)
EXTENDS Tiles, Metar, OrderingProofs

-----------------------------------------------------------------------------
(* TileJSON *)

\* A task of serve_tiles has its fields.
Fields == {"phase", "queue", "key", "newer", "standIns", "fetch", "set", "until", "total"}
TaskShape(t) == DOMAIN t = Fields

\* It waits for its GET of TileJSON, or is in it.
ReadsJson(t) == t.phase \in {"permit", "get"} /\ t.fetch = "json"

\* Whoever reads TileJSON holds the lock, and has looked again with it.
JsonInv ==
    /\ DOMAIN task = Users /\ \A c \in Users : TaskShape(task[c])
    /\ template \in BOOLEAN
    /\ reads = IF template THEN 1 ELSE 0
    /\ \A c \in Users : ReadsJson(task[c]) => jsonLock = c /\ ~template

\* Whatever a task becomes, short of reading TileJSON, keeps the invariant.
LEMMA BecomeKeeps ==
    ASSUME JsonInv, NEW c \in Users, NEW t, TaskShape(t), Become(c, t),
           ReadsJson(t) => ReadsJson(task[c]) /\ jsonLock' = jsonLock,
           jsonLock' = jsonLock \/ jsonLock = c,
           UNCHANGED <<template, reads>>
    PROVE  JsonInv'
<1>1. /\ DOMAIN task' = Users /\ task'[c] = t /\ \A d \in Users \ {c} : task'[d] = task[d]
    BY DEF JsonInv, Become
<1>2. \A d \in Users : TaskShape(task'[d])
    BY <1>1 DEF JsonInv
<1>3. ASSUME NEW d \in Users, ReadsJson(task'[d]) PROVE jsonLock' = d /\ ~template'
    <2>1. CASE d = c
        BY <1>1, <1>3, <2>1 DEF JsonInv
    <2>2. CASE d # c
        BY <1>1, <1>3, <2>2 DEF JsonInv
    <2> QED BY <2>1, <2>2
<1> QED BY <1>1, <1>2, <1>3 DEF JsonInv, TaskShape, ReadsJson

\* A task that serves a mask or renders one reads nothing.
LEMMA ServeKeeps ==
    ASSUME JsonInv, NEW c \in Users, NEW t, NEW set, TaskShape(t), Serve(c, t, set),
           jsonLock' = jsonLock \/ jsonLock = c, UNCHANGED <<template, reads>>
    PROVE  JsonInv'
<1>1. TaskShape(Done(t)) /\ ~ReadsJson(Done(t))
    BY DEF TaskShape, Fields, ReadsJson, Done
<1>2. /\ TaskShape([t EXCEPT !.phase = "render", !.set = set, !.fetch = ""])
      /\ ~ReadsJson([t EXCEPT !.phase = "render", !.set = set, !.fetch = ""])
    BY DEF TaskShape, Fields, ReadsJson
<1>3. Become(c, Done(t)) \/ Become(c, [t EXCEPT !.phase = "render", !.set = set, !.fetch = ""])
    BY DEF Serve
<1> QED BY <1>1, <1>2, <1>3, BecomeKeeps

\* So does one whose tile came to nothing.
LEMMA StandInKeeps ==
    ASSUME JsonInv, NEW c \in Users, StandIn(c),
           jsonLock' = jsonLock \/ jsonLock = c, UNCHANGED <<template, reads>>
    PROVE  JsonInv'
<1>1. TaskShape(task[c])
    BY DEF JsonInv
<1>2. TaskShape([task[c] EXCEPT !.standIns = @ \cup {task[c].key}])
    BY <1>1 DEF TaskShape, Fields
<1> QED BY <1>2, ServeKeeps DEF StandIn

\* A task that goes on to another phase than a GET of TileJSON.
LEMMA GoKeeps ==
    ASSUME JsonInv, NEW c \in Users, NEW p, Go(c, p), UNCHANGED <<template, reads>>,
           p \notin {"permit", "get"} \/ ReadsJson(task[c]) \/ task[c].fetch # "json",
           jsonLock' = jsonLock \/ jsonLock = c, ReadsJson(task[c]) => jsonLock' = jsonLock
    PROVE  JsonInv'
<1>1. TaskShape(task[c])
    BY DEF JsonInv
<1> DEFINE t == [task[c] EXCEPT !.phase = p]
<1>2. TaskShape(t) /\ t.phase = p /\ t.fetch = task[c].fetch
    BY <1>1 DEF TaskShape, Fields
<1>3. Become(c, t)
    BY DEF Go
<1> HIDE DEF t
<1>4. ReadsJson(t) => ReadsJson(task[c])
    BY <1>2 DEF ReadsJson
<1> QED BY <1>2, <1>3, <1>4, BecomeKeeps

\* The end of a pass leads to no GET.
LEMMA AfterPassKeeps ==
    ASSUME JsonInv, NEW c \in Users, AfterPass(c), UNCHANGED <<template, reads, jsonLock>>
    PROVE  JsonInv'
<1> DEFINE t == [task[c] EXCEPT !.newer = None, !.standIns = {}, !.total = 0]
<1>1. TaskShape(t)
    BY DEF JsonInv, TaskShape, Fields
<1>2. PICK u : /\ Become(c, u)
               /\ u \in {[t EXCEPT !.phase = "batch", !.queue = task[c].newer],
                         [t EXCEPT !.phase = "recv"],
                         [t EXCEPT !.phase = "retry", !.queue = task[c].standIns, !.until = backOff]}
    BY DEF AfterPass
<1> HIDE DEF t
<1>3. TaskShape(u) /\ u.phase \in {"batch", "recv", "retry"}
    BY <1>1, <1>2 DEF TaskShape, Fields
<1>4. ~ReadsJson(u)
    BY <1>3 DEF ReadsJson
<1> QED BY <1>2, <1>3, <1>4, BecomeKeeps

\* Every step of a client's task keeps the invariant.
LEMMA TaskKeeps ==
    ASSUME JsonInv, NEW c \in Users, TaskStep(c)
    PROVE  JsonInv'
<1>1. TaskShape(task[c])
    BY DEF JsonInv
<1>2. CASE Pick(c)
    <2>1. UNCHANGED <<template, reads, jsonLock>>
        BY <1>2 DEF Pick, source
    <2>2. PICK t : /\ TaskShape(t)
                   /\ \/ Become(c, Done(t)) \/ Serve(c, t, "osm")
                      \/ Become(c, [t EXCEPT !.phase = "template"])
        <3>1. ASSUME NEW key, NEW newer
              PROVE  TaskShape([task[c] EXCEPT !.queue = @ \ {key}, !.key = key, !.newer = newer])
            BY <1>1 DEF TaskShape, Fields
        <3>2. PICK key \in task[c].queue :
                LET newer == IF channel[c] = <<>> THEN task[c].newer ELSE Last(channel[c])
                    t == [task[c] EXCEPT !.queue = @ \ {key}, !.key = key, !.newer = newer]
                IN  \/ Become(c, Done(t)) \/ Serve(c, t, "osm")
                    \/ Become(c, [t EXCEPT !.phase = "template"])
            BY <1>2 DEF Pick
        <3> QED BY <3>1, <3>2
    <2>3. /\ TaskShape(Done(t)) /\ ~ReadsJson(Done(t))
          /\ TaskShape([t EXCEPT !.phase = "template"]) /\ ~ReadsJson([t EXCEPT !.phase = "template"])
        BY <2>2 DEF TaskShape, Fields, ReadsJson, Done
    <2> QED BY <2>1, <2>2, <2>3, ServeKeeps, BecomeKeeps
<1>3. CASE Template(c)
    <2>1. UNCHANGED <<template, reads, jsonLock>> /\ (Go(c, "lookup") \/ Go(c, "queued"))
        BY <1>3 DEF Template, source
    <2> QED BY <2>1, GoKeeps
<1>4. CASE Locked(c)
    <2>1. UNCHANGED <<template, reads>> /\ task[c].phase = "queued" /\ jsonLock = Nobody
        BY <1>4 DEF Locked
    <2>2. CASE template
        BY <1>4, <2>1, <2>2, GoKeeps DEF Locked
    <2>3. CASE ~template /\ backOff # 0
        BY <1>4, <2>1, <2>3, StandInKeeps DEF Locked
    <2>4. CASE ~template /\ backOff = 0
        <3> DEFINE t == [task[c] EXCEPT !.phase = "permit", !.fetch = "json"]
        <3>1. Become(c, t) /\ jsonLock' = c
            BY <1>4, <2>4 DEF Locked
        <3>2. TaskShape(t)
            BY <1>1 DEF TaskShape, Fields
        <3>3. \A d \in Users : d # Nobody /\ ~ReadsJson(task[d])
            BY <2>1, TilesConstants DEF JsonInv, Nobody
        <3> HIDE DEF t
        <3>4. DOMAIN task' = Users /\ task'[c] = t /\ \A d \in Users \ {c} : task'[d] = task[d]
            BY <3>1 DEF JsonInv, Become
        <3>5. \A d \in Users : TaskShape(task'[d]) /\ (ReadsJson(task'[d]) => jsonLock' = d)
            BY <3>1, <3>2, <3>3, <3>4 DEF JsonInv
        <3> QED BY <2>1, <2>4, <3>4, <3>5 DEF JsonInv, TaskShape, ReadsJson
    <2> QED BY <2>2, <2>3, <2>4
<1>5. CASE Lookup(c)
    <2>1. UNCHANGED <<template, reads, jsonLock>>
        BY <1>5 DEF Lookup
    <2> DEFINE t == [task[c] EXCEPT !.phase = "permit", !.fetch = "tile"]
    <2>2. Serve(c, task[c], "osm") \/ StandIn(c) \/ Become(c, t)
        BY <1>5 DEF Lookup
    <2>3. TaskShape(t) /\ ~ReadsJson(t)
        BY <1>1 DEF TaskShape, Fields, ReadsJson
    <2> HIDE DEF t
    <2> QED BY <1>1, <2>1, <2>2, <2>3, ServeKeeps, StandInKeeps, BecomeKeeps
<1>6. CASE Permit(c)
    <2>1. /\ UNCHANGED <<template, reads, jsonLock>> /\ Go(c, "get") /\ task[c].phase = "permit"
        BY <1>6 DEF Permit, source
    <2> QED BY <2>1, GoKeeps DEF ReadsJson
<1>7. CASE GotJson(c)
    <2> DEFINE t == [task[c] EXCEPT !.phase = "lookup"]
    <2>1. /\ task[c].phase = "get" /\ task[c].fetch = "json"
          /\ template' = TRUE /\ reads' = reads + 1 /\ Become(c, t)
        BY <1>7 DEF GotJson, Go
    <2>2. jsonLock = c /\ ~template
        BY <2>1 DEF JsonInv, ReadsJson
    <2>3. \A d \in Users \ {c} : ~ReadsJson(task[d])
        BY <2>2 DEF JsonInv
    <2>4. TaskShape(t) /\ ~ReadsJson(t)
        BY <1>1 DEF TaskShape, Fields, ReadsJson
    <2> HIDE DEF t
    <2>5. DOMAIN task' = Users /\ task'[c] = t /\ \A d \in Users \ {c} : task'[d] = task[d]
        BY <2>1 DEF JsonInv, Become
    <2>6. \A d \in Users : TaskShape(task'[d]) /\ ~ReadsJson(task'[d])
        BY <2>3, <2>4, <2>5 DEF JsonInv
    <2>7. reads' = 1
        BY <2>1, <2>2 DEF JsonInv
    <2> QED BY <2>1, <2>5, <2>6, <2>7 DEF JsonInv, TaskShape, ReadsJson
<1>8. CASE GotTile(c)
    <2>1. UNCHANGED <<template, reads, jsonLock>> /\ (StandIn(c) \/ Serve(c, task[c], "osm"))
        BY <1>8 DEF GotTile
    <2> QED BY <1>1, <2>1, ServeKeeps, StandInKeeps
<1>9. CASE GetFails(c)
    <2>1. UNCHANGED <<template, reads>> /\ StandIn(c) /\ (jsonLock' = jsonLock \/ jsonLock = c)
        BY <1>9 DEF GetFails, Unlocked
    <2> QED BY <2>1, StandInKeeps
<1>10. CASE Publish(c)
    <2>1. UNCHANGED <<template, reads, jsonLock>> /\ Become(c, Done(task[c]))
        BY <1>10 DEF Publish, source
    <2>2. TaskShape(Done(task[c])) /\ ~ReadsJson(Done(task[c]))
        BY <1>1 DEF TaskShape, Fields, ReadsJson, Done
    <2> QED BY <2>1, <2>2, BecomeKeeps
<1>11. CASE EndPass(c)
    <2>1. UNCHANGED <<template, reads, jsonLock>> /\ (Go(c, "evict") \/ AfterPass(c))
        BY <1>11 DEF EndPass
    <2>2. task[c].phase = "batch"
        BY <1>11 DEF EndPass
    <2> QED BY <2>1, <2>2, GoKeeps, AfterPassKeeps DEF ReadsJson
<1>12. CASE Evict(c)
    <2> DEFINE t == [task[c] EXCEPT !.phase = "evicted", !.total = Len(cached')]
    <2>1. UNCHANGED <<template, reads, jsonLock>> /\ Become(c, t)
        BY <1>12 DEF Evict
    <2>2. TaskShape(t) /\ ~ReadsJson(t)
        BY <1>1 DEF TaskShape, Fields, ReadsJson
    <2> HIDE DEF t
    <2> QED BY <2>1, <2>2, BecomeKeeps
<1>13. CASE Evicted(c)
    <2>1. UNCHANGED <<template, reads, jsonLock>> /\ AfterPass(c)
        BY <1>13 DEF Evicted
    <2> QED BY <2>1, AfterPassKeeps
<1>14. CASE Recv(c) \/ Retry(c)
    <2>1. PICK q : /\ UNCHANGED <<template, reads, jsonLock>>
                   /\ Become(c, [Idle EXCEPT !.phase = "batch", !.queue = q])
        BY <1>14 DEF Recv, Retry, source
    <2>2. /\ TaskShape([Idle EXCEPT !.phase = "batch", !.queue = q])
          /\ ~ReadsJson([Idle EXCEPT !.phase = "batch", !.queue = q])
        BY DEF TaskShape, Fields, ReadsJson, Idle
    <2> QED BY <2>1, <2>2, BecomeKeeps
<1> QED BY <1>2, <1>3, <1>4, <1>5, <1>6, <1>7, <1>8, <1>9, <1>10, <1>11, <1>12, <1>13, <1>14
    DEF TaskStep

\* The invariant holds when the daemon starts.
LEMMA JsonInvInit == TilesInit => JsonInv
<1>1. TaskShape(Idle) /\ ~ReadsJson(Idle)
    BY DEF TaskShape, Fields, ReadsJson, Idle
<1> QED BY <1>1 DEF TilesInit, JsonInv

\* Every step of the tile service keeps the invariant.
LEMMA JsonInvStep == JsonInv /\ [TilesNext]_tilesVars => JsonInv'
<1> SUFFICES ASSUME JsonInv, [TilesNext]_tilesVars PROVE JsonInv'
    OBVIOUS
<1>1. CASE Expire
    BY <1>1 DEF Expire, JsonInv, TaskShape, ReadsJson
<1>2. ASSUME NEW c \in Users, Ask(c) PROVE JsonInv'
    BY <1>2 DEF Ask, source, JsonInv, TaskShape, ReadsJson
<1>3. CASE UNCHANGED tilesVars
    BY <1>3 DEF tilesVars, source, JsonInv, TaskShape, ReadsJson
<1> QED BY <1>1, <1>2, <1>3, TaskKeeps DEF TilesNext

\* However many clients ask, TileJSON is read once in a daemon's life.
THEOREM TileJsonOnceHolds == TilesSpec => []TileJsonOnce
<1>1. JsonInv => TileJsonOnce
    BY DEF JsonInv, TileJsonOnce
<1> QED BY <1>1, JsonInvInit, JsonInvStep, PTL DEF TilesSpec

-----------------------------------------------------------------------------
(* METAR *)

QueryRecords ==
    [client : Askers, view : Nat, phase : {"begin", "follow", "permit", "get", "done", "gone"},
     kind : Kinds, box : Nat, ranks : Nat, ok : BOOLEAN, stale : BOOLEAN]

\* A query past its feed has a box that holds its view, and one that wanted
\* ranks and is done has those of such a box, unless it says it is stale; one
\* that did not has none.
Fits(q) ==
    /\ Answerable(q) \/ q.kind = "stations" => ~q.ok \/ q.stale \/ Covers(q.box, q.view)
    /\ Answerable(q) /\ q.ok /\ ~q.stale /\ q.view \in Ranked => Covers(q.ranks, q.view)
    /\ q.view \notin Ranked => q.kind = "feed" /\ q.ranks = 0

MetarInv ==
    /\ entries \in [Kinds -> Seq(Nat)]
    /\ query \in Seq(QueryRecords)
    /\ \A i \in Queries : Fits(query[i])

\* A box holds the view it was fetched for.
LEMMA CoversItself == \A v \in Nat : Covers(v, v)
BY MetarConstants DEF Covers

\* A box that covers a view reports every airport the view shows.
LEMMA CoveredIsReported ==
    ASSUME NEW b \in Nat, NEW v \in Nat, Covers(b, v)
    PROVE  {a \in Airports : Between(a, v, Reach)} \subseteq Reported(b)
<1>1. Reach \in Nat /\ Pad \in Nat /\ \A a \in Airports : a \in Nat
    BY MetarConstants
<1>2. ASSUME NEW a \in Airports, Between(a, v, Reach) PROVE Between(a, b, Reach + Pad)
    BY <1>1, <1>2 DEF Covers, Between
<1> QED BY <1>2 DEF Reported

\* What one entry less leaves of the cache.
LEMMA OneLess ==
    ASSUME NEW s \in Seq(Nat), NEW v
    PROVE  RemoveFirst(s, v) \in Seq(Nat)
<1>1. CASE \E i \in 1..Len(s) : s[i] = v
    <2> DEFINE I == {i \in 1..Len(s) : s[i] = v}
    <2>1. I \subseteq Nat /\ I # {} /\ I \subseteq 1..Len(s)
        BY <1>1
    <2>2. RemoveFirst(s, v) = RemoveAt(s, Min(I))
        BY <1>1 DEF RemoveFirst, SelectInSeq
    <2> HIDE DEF I
    <2>3. PICK k \in I : \A j \in I : ~(<<j, k>> \in OpToRel(<, Nat))
        BY <2>1, NatLessThanWellFounded, WFMin
    <2>4. \A j \in I : ~(j < k)
        BY <2>1, <2>3 DEF OpToRel
    <2>5. \A j \in I : k <= j
        BY <2>1, <2>4
    <2>6. Min(I) \in I
        BY <2>5 DEF Min
    <2>7. Min(I) \in 1..Len(s)
        BY <2>1, <2>6
    <2> DEFINE n == Min(I)
    <2>8. n \in 1..Len(s)
        BY <2>7
    <2> HIDE DEF n
    <2>9. SubSeq(s, 1, n - 1) \in Seq(Nat) /\ SubSeq(s, n + 1, Len(s)) \in Seq(Nat)
        BY <2>8
    <2>10. RemoveAt(s, n) \in Seq(Nat)
        BY <2>9 DEF RemoveAt
    <2> QED BY <2>2, <2>10 DEF n
<1>2. CASE ~\E i \in 1..Len(s) : s[i] = v
    BY <1>2 DEF RemoveFirst
<1> QED BY <1>1, <1>2

\* The outcome of a stage is a query again, and it fits.
LEMMA OutcomeFits ==
    ASSUME NEW q \in QueryRecords, Fits(q), ~Answerable(q), NEW ok \in BOOLEAN, NEW box \in Nat,
           ok => Covers(box, q.view) \/ q.stale, entries \in [Kinds -> Seq(Nat)]
    PROVE  Outcome(q, ok, box) \in QueryRecords /\ Fits(Outcome(q, ok, box))
<1>1. CASE q.kind = "stations"
    <2> DEFINE last == entries["stations"]
               r == IF ok THEN box ELSE IF last = <<>> THEN 0 ELSE Last(last)
               o == [q EXCEPT !.phase = "done", !.stale = q.stale \/ ~ok, !.ranks = r]
    <2>1. r \in Nat
        BY DEF Last, Kinds
    <2>2. Outcome(q, ok, box) = o
        BY <1>1 DEF Outcome
    <2> HIDE DEF r
    <2>3. o \in QueryRecords /\ o.view = q.view /\ o.ok = q.ok /\ o.stale = (q.stale \/ ~ok)
          /\ o.box = q.box /\ o.ranks = r
        BY <2>1 DEF QueryRecords
    <2>4. ok => r = box
        BY DEF r
    <2> HIDE DEF o
    <2> QED BY <1>1, <2>2, <2>3, <2>4 DEF Fits
<1>2. CASE q.kind = "feed" /\ ~ok
    <2> DEFINE o == [q EXCEPT !.phase = "done", !.ok = FALSE]
    <2>1. Outcome(q, ok, box) = o
        BY <1>2 DEF Outcome
    <2>2. o \in QueryRecords /\ ~o.ok /\ o.view = q.view /\ o.kind = q.kind /\ o.ranks = q.ranks
        BY DEF QueryRecords
    <2> HIDE DEF o
    <2> QED BY <2>1, <2>2 DEF Fits, Answerable
<1>3. CASE q.kind = "feed" /\ ok /\ q.view \in Ranked
    <2> DEFINE o == [q EXCEPT !.phase = "begin", !.kind = "stations", !.box = box]
    <2>1. Outcome(q, ok, box) = o
        BY <1>3 DEF Outcome
    <2>2. o \in QueryRecords /\ o.phase = "begin" /\ o.box = box /\ o.view = q.view /\ o.stale = q.stale
        BY DEF QueryRecords, Kinds
    <2> HIDE DEF o
    <2> QED BY <1>3, <2>1, <2>2 DEF Fits, Answerable
<1>4. CASE q.kind = "feed" /\ ok /\ q.view \notin Ranked
    <2> DEFINE o == [q EXCEPT !.phase = "done", !.box = box]
    <2>1. Outcome(q, ok, box) = o
        BY <1>4 DEF Outcome
    <2>2. o \in QueryRecords /\ o.box = box /\ o.view = q.view /\ o.stale = q.stale
          /\ o.kind = q.kind /\ o.ranks = q.ranks
        BY DEF QueryRecords
    <2> HIDE DEF o
    <2> QED BY <1>4, <2>1, <2>2 DEF Fits
<1>5. q.kind \in {"feed", "stations"}
    BY DEF QueryRecords, Kinds
<1> QED BY <1>1, <1>2, <1>3, <1>4, <1>5

\* One query changes and the others stay.
LEMMA OneQuery ==
    ASSUME MetarInv, NEW i \in Queries, NEW q \in QueryRecords, Fits(q),
           query' = [query EXCEPT ![i] = q], entries' \in [Kinds -> Seq(Nat)]
    PROVE  MetarInv'
<1>1. query' \in Seq(QueryRecords) /\ Len(query') = Len(query)
    BY DEF MetarInv, Queries
<1>2. \A j \in Queries : query'[j] = IF j = i THEN q ELSE query[j]
    BY DEF MetarInv, Queries
<1>3. \A j \in Queries : Fits(query'[j])
    BY <1>2 DEF MetarInv
<1> QED BY <1>1, <1>3 DEF MetarInv, Queries, Fits, Answerable

\* The end of a fetch gives its leader and those who wait a box that fits.
LEMMA WakeKeeps ==
    ASSUME MetarInv, NEW i \in Queries, query[i].phase = "get", NEW ok \in BOOLEAN, Wake(i, ok),
           entries' \in [Kinds -> Seq(Nat)]
    PROVE  MetarInv'
<1> DEFINE new(j) == IF j = i \/ (query[j].phase = "follow" /\ SameKey(query[i], query[j]))
                     THEN Outcome(query[j], ok, query[i].view) ELSE query[j]
<1>1. query \in Seq(QueryRecords) /\ query[i] \in QueryRecords /\ Len(query) \in Nat
    BY DEF MetarInv, Queries
<1>2. query' = [j \in 1..Len(query) |-> new(j)]
    BY DEF Wake, Queries
<1>3. ASSUME NEW j \in 1..Len(query) PROVE new(j) \in QueryRecords /\ Fits(new(j))
    <2>1. query[j] \in QueryRecords /\ Fits(query[j])
        BY DEF MetarInv, Queries
    <2>2. CASE j = i \/ (query[j].phase = "follow" /\ SameKey(query[i], query[j]))
        <3>1. query[j].view = query[i].view /\ query[i].view \in Nat
            BY <1>1, <2>2 DEF SameKey, QueryRecords
        <3>2. Covers(query[i].view, query[j].view)
            BY <3>1, CoversItself
        <3>3. ~Answerable(query[j])
            BY <2>2 DEF Answerable
        <3>4. entries \in [Kinds -> Seq(Nat)]
            BY DEF MetarInv
        <3>5. /\ Outcome(query[j], ok, query[i].view) \in QueryRecords
              /\ Fits(Outcome(query[j], ok, query[i].view))
            BY <2>1, <3>1, <3>2, <3>3, <3>4, OutcomeFits
        <3> QED BY <2>2, <3>5
    <2>3. CASE ~(j = i \/ (query[j].phase = "follow" /\ SameKey(query[i], query[j])))
        BY <2>1, <2>3
    <2> QED BY <2>2, <2>3
<1> HIDE DEF new
<1>4. query' \in Seq(QueryRecords) /\ Len(query') = Len(query) /\ \A j \in 1..Len(query) : query'[j] = new(j)
    BY <1>1, <1>2, <1>3
<1>5. \A j \in 1..Len(query) : Fits(query'[j])
    BY <1>3, <1>4
<1> QED BY <1>4, <1>5 DEF MetarInv, Queries, Fits, Answerable

\* The invariant holds before anyone asks.
LEMMA MetarInvInit == MetarInit => MetarInv
BY DEF MetarInit, MetarInv, Queries

\* Every step of the METAR service keeps the invariant.
LEMMA MetarInvStep == MetarInv /\ [MetarNext]_metarVars => MetarInv'
<1> SUFFICES ASSUME MetarInv, [MetarNext]_metarVars PROVE MetarInv'
    OBVIOUS
<1>1. entries \in [Kinds -> Seq(Nat)] /\ query \in Seq(QueryRecords) /\ Len(query) \in Nat
      /\ \A i \in Queries : query[i] \in QueryRecords /\ Fits(query[i]) /\ query[i].kind \in Kinds
    <2>1. /\ entries \in [Kinds -> Seq(Nat)] /\ query \in Seq(QueryRecords) /\ Len(query) \in Nat
          /\ \A i \in Queries : query[i] \in QueryRecords /\ Fits(query[i])
        BY DEF MetarInv, Queries
    <2>2. \A q \in QueryRecords : q.kind \in Kinds
        BY DEF QueryRecords
    <2> QED BY <2>1, <2>2
<1>2. ASSUME NEW i \in Queries, Begin(i) PROVE MetarInv'
    <2> DEFINE q == query[i]
               boxes == entries[q.kind]
               hits == Covering(q.kind, q.view)
    <2>1. q \in QueryRecords /\ Fits(q) /\ q.phase = "begin" /\ boxes \in Seq(Nat)
          /\ entries' \in [Kinds -> Seq(Nat)]
        BY <1>1, <1>2 DEF Begin
    <2>2. CASE hits # {}
        <3> DEFINE n == CHOOSE n \in hits : \A m \in hits : n >= m
        <3>1. n \in hits
            <4>1. hits \subseteq 1..Len(boxes) /\ Len(boxes) \in Nat
                BY <2>1 DEF Covering
            <4> DEFINE R == {Len(boxes) - h : h \in hits}
            <4>2. R \subseteq Nat /\ R # {}
                BY <2>2, <4>1
            <4> HIDE DEF hits
            <4>3. PICK k \in R : \A j \in R : ~(<<j, k>> \in OpToRel(<, Nat))
                <5> HIDE DEF R
                <5> QED BY <4>2, NatLessThanWellFounded, WFMin
            <4>4. \A j \in R : ~(j < k)
                <5> HIDE DEF R
                <5> QED BY <4>2, <4>3 DEF OpToRel
            <4>5. PICK h \in hits : k = Len(boxes) - h
                BY <4>3
            <4>6. ASSUME NEW m \in hits PROVE h >= m
                <5>1. ~(Len(boxes) - m < Len(boxes) - h)
                    BY <4>4, <4>5
                <5> QED BY <4>1, <5>1
            <4> QED BY <4>6
        <3>2. boxes[n] \in Nat /\ Covers(boxes[n], q.view)
            <4> HIDE DEF n
            <4> QED BY <2>1, <3>1 DEF Covering
        <3> DEFINE o == Outcome(q, TRUE, boxes[n])
        <3>3. query' = [query EXCEPT ![i] = o]
            BY <1>2, <2>2 DEF Begin, With
        <3>4. o \in QueryRecords /\ Fits(o)
            <4> HIDE DEF n
            <4> QED BY <1>1, <2>1, <3>2, OutcomeFits DEF Answerable
        <3> HIDE DEF o
        <3> QED BY <2>1, <3>3, <3>4, OneQuery
    <2>3. CASE hits = {} /\ resting
        <3> DEFINE p == [q EXCEPT !.stale = TRUE]
                   box == IF boxes = <<>> THEN 0 ELSE Last(boxes)
                   ok == boxes # <<>>
                   o == Outcome(p, ok, box)
        <3>1. query' = [query EXCEPT ![i] = o]
            BY <1>2, <2>3 DEF Begin, With
        <3>2. p \in QueryRecords /\ p.stale /\ p.phase = "begin"
              /\ p.view = q.view /\ p.kind = q.kind /\ p.ranks = q.ranks
            BY <2>1 DEF QueryRecords
        <3>3. box \in Nat /\ ok \in BOOLEAN
            BY <2>1 DEF Last
        <3> HIDE DEF p, box, ok
        <3>4. Fits(p) /\ ~Answerable(p)
            BY <2>1, <3>2 DEF Fits, Answerable
        <3>5. o \in QueryRecords /\ Fits(o)
            BY <1>1, <3>2, <3>3, <3>4, OutcomeFits
        <3> HIDE DEF o
        <3> QED BY <2>1, <3>1, <3>5, OneQuery
    <2>4. CASE hits = {} /\ ~resting
        <3>1. PICK phase \in {"follow", "permit"} : query' = [query EXCEPT ![i] = [q EXCEPT !.phase = phase]]
            BY <1>2, <2>4 DEF Begin, With
        <3> DEFINE o == [q EXCEPT !.phase = phase]
        <3>2. o \in QueryRecords /\ o.phase = phase /\ o.kind = q.kind /\ o.ok = q.ok
              /\ o.stale = q.stale /\ o.box = q.box /\ o.view = q.view /\ o.ranks = q.ranks
            BY <2>1 DEF QueryRecords
        <3>3. query' = [query EXCEPT ![i] = o]
            BY <3>1
        <3> HIDE DEF o
        <3>4. Fits(o)
            BY <2>1, <3>2 DEF Fits, Answerable
        <3> QED BY <2>1, <3>2, <3>3, <3>4, OneQuery
    <2> QED BY <2>2, <2>3, <2>4
<1>3. ASSUME NEW i \in Queries, Acquire(i) PROVE MetarInv'
    <2> DEFINE o == [query[i] EXCEPT !.phase = "get"]
    <2>1. query' = [query EXCEPT ![i] = o] /\ entries' = entries /\ query[i].phase = "permit"
        BY <1>3 DEF Acquire, With
    <2>2. o \in QueryRecords /\ o.phase = "get" /\ o.kind = query[i].kind /\ o.ok = query[i].ok
          /\ o.stale = query[i].stale /\ o.box = query[i].box /\ o.view = query[i].view
          /\ o.ranks = query[i].ranks
        BY <1>1 DEF QueryRecords
    <2> HIDE DEF o
    <2>3. Fits(o)
        BY <1>1, <2>2 DEF Fits, Answerable
    <2> QED BY <1>1, <2>1, <2>2, <2>3, OneQuery
<1>4. ASSUME NEW i \in Queries, Fetched(i) PROVE MetarInv'
    <2> DEFINE kept == Append(RemoveFirst(entries[query[i].kind], query[i].view), query[i].view)
               e == IF Len(kept) > CacheCap THEN Tail(kept) ELSE kept
    <2>1. RemoveFirst(entries[query[i].kind], query[i].view) \in Seq(Nat) /\ query[i].view \in Nat
        BY <1>1, OneLess DEF QueryRecords
    <2>2. kept \in Seq(Nat) /\ kept # <<>>
        BY <2>1
    <2> HIDE DEF kept
    <2>3. e \in Seq(Nat)
        BY <2>2
    <2>4. entries' = [entries EXCEPT ![query[i].kind] = e]
        BY <1>4 DEF Fetched, kept
    <2> HIDE DEF e
    <2>5. entries' \in [Kinds -> Seq(Nat)]
        BY <1>1, <2>3, <2>4
    <2> QED BY <1>4, <2>5, WakeKeeps DEF Fetched
<1>5. ASSUME NEW i \in Queries, FetchFails(i) PROVE MetarInv'
    BY <1>1, <1>5, WakeKeeps DEF FetchFails
<1>6. ASSUME NEW i \in Queries, Answer(i) PROVE MetarInv'
    <2> DEFINE o == [query[i] EXCEPT !.phase = "gone"]
    <2>1. query' = [query EXCEPT ![i] = o] /\ entries' = entries /\ query[i].phase = "done"
        BY <1>6 DEF Answer, With
    <2>2. o \in QueryRecords /\ o.phase = "gone" /\ o.kind = query[i].kind /\ o.ok = query[i].ok
          /\ o.stale = query[i].stale /\ o.box = query[i].box /\ o.view = query[i].view
          /\ o.ranks = query[i].ranks
        BY <1>1 DEF QueryRecords
    <2> HIDE DEF o
    <2>3. Fits(o)
        BY <1>1, <2>1, <2>2 DEF Fits, Answerable
    <2> QED BY <1>1, <2>1, <2>2, <2>3, OneQuery
<1>7. ASSUME NEW c \in Askers, AskMetar(c) PROVE MetarInv'
    <2>1. PICK v \in Asks[c] :
            query' = Append(query, [client |-> c, view |-> v, phase |-> "begin", kind |-> "feed",
                                    box |-> 0, ranks |-> 0, ok |-> TRUE, stale |-> FALSE])
        BY <1>7 DEF AskMetar
    <2>2. v \in Nat
        BY MetarConstants
    <2> DEFINE q == [client |-> c, view |-> v, phase |-> "begin", kind |-> "feed",
                     box |-> 0, ranks |-> 0, ok |-> TRUE, stale |-> FALSE]
    <2>3. q \in QueryRecords /\ Fits(q)
        BY <2>2 DEF QueryRecords, Kinds, Fits, Answerable
    <2>4. query' = Append(query, q)
        BY <2>1
    <2> HIDE DEF q
    <2>5. /\ query' \in Seq(QueryRecords) /\ Len(query') = Len(query) + 1
          /\ query'[Len(query) + 1] = q /\ \A i \in 1..Len(query) : query'[i] = query[i]
        BY <1>1, <2>3, <2>4
    <2>6. \A i \in 1..Len(query') : i \in Queries \/ i = Len(query) + 1
        BY <1>1, <2>5 DEF Queries
    <2>7. \A i \in 1..Len(query') : Fits(query'[i])
        BY <1>1, <2>3, <2>5, <2>6 DEF Queries
    <2>8. entries' = entries
        BY <1>7 DEF AskMetar
    <2> QED BY <1>1, <2>5, <2>7, <2>8 DEF MetarInv, Queries, Fits, Answerable
<1>8. CASE MetarTime
    <2>1. query' = query
        BY <1>8 DEF MetarTime
    <2>2. entries' \in [Kinds -> Seq(Nat)]
        <3>1. CASE entries' = entries
            BY <1>1, <3>1
        <3>2. ASSUME NEW k \in Kinds, entries[k] # <<>>, entries' = [entries EXCEPT ![k] = Tail(@)]
              PROVE  entries' \in [Kinds -> Seq(Nat)]
            <4>1. Tail(entries[k]) \in Seq(Nat)
                BY <1>1, <3>2
            <4> QED BY <1>1, <3>2, <4>1
        <3> QED BY <1>8, <3>1, <3>2 DEF MetarTime
    <2> QED BY <1>1, <2>1, <2>2 DEF MetarInv, Queries, Fits, Answerable
<1>9. CASE UNCHANGED metarVars
    BY <1>9 DEF metarVars, MetarInv, Queries, Fits, Answerable
<1> QED BY <1>2, <1>3, <1>4, <1>5, <1>6, <1>7, <1>8, <1>9 DEF MetarNext, MetarStep

\* An answer is made from boxes that hold what its query shows.
THEOREM AnswersCoverHolds == MetarSpec => []AnswersCover
<1>1. ASSUME MetarInv PROVE AnswersCover
    <2> SUFFICES ASSUME NEW i \in Queries, Answerable(query[i]), query[i].ok, ~query[i].stale
                 PROVE  LET seen == {a \in Airports : Between(a, query[i].view, Reach)} IN
                        /\ seen \subseteq Reported(query[i].box)
                        /\ query[i].view \in Ranked => seen \subseteq Reported(query[i].ranks)
        BY DEF AnswersCover
    <2>1. query[i] \in QueryRecords /\ Fits(query[i])
        BY <1>1 DEF MetarInv, Queries
    <2>2. query[i].view \in Nat /\ query[i].box \in Nat /\ query[i].ranks \in Nat
        BY <2>1 DEF QueryRecords
    <2> QED BY <2>1, <2>2, CoveredIsReported DEF Fits
<1> QED BY <1>1, MetarInvInit, MetarInvStep, PTL DEF MetarSpec

-----------------------------------------------------------------------------
(* The choice among the reports *)

\* Of two airports one is nearer to the radar, or has the lesser id.
LEMMA NearerOrders ==
    /\ \A a, b \in Nat : a # b => Nearer(a, b) \/ Nearer(b, a)
    /\ \A a \in Nat : ~Nearer(a, a)
    /\ \A a, b, c \in Nat : Nearer(a, b) /\ Nearer(b, c) => Nearer(a, c)
<1>1. \A a \in Nat : Distance(a) \in Int
    BY MetarConstants DEF Distance
<1> HIDE DEF Distance
<1> QED BY <1>1 DEF Nearer

\* A query asks first for each airport once, and for no more than its limit.
LEMMA PinnedIs ==
    /\ Pinned \in Seq(Nat) /\ Len(Pinned) <= Limit
    /\ \A m, n \in 1..Len(Pinned) : Pinned[m] = Pinned[n] => m = n
<1> DEFINE N == Len(AlwaysOn)
           I == {i \in DOMAIN AlwaysOn : \A j \in 1..(i - 1) : AlwaysOn[j] # AlwaysOn[i]}
           J == {i \in I : Cardinality({j \in I : j <= i}) <= Limit}
           P == Pinned
<1>1. /\ N \in Nat /\ DOMAIN AlwaysOn = 1..N /\ Limit \in Nat
      /\ \A i \in 1..N : AlwaysOn[i] \in Nat /\ i \in Nat
    BY MetarConstants
<1>2. I \in SUBSET (1..N) /\ J \in SUBSET I /\ \A i \in J : i \in 1..N
    BY <1>1
<1>3. \A i, j \in I : AlwaysOn[i] = AlwaysOn[j] => i = j
    <2> SUFFICES ASSUME NEW i \in I, NEW j \in I, AlwaysOn[i] = AlwaysOn[j] PROVE i = j
        OBVIOUS
    <2>1. i \in 1..N /\ j \in 1..N
        BY <1>1
    <2>2. ~(i < j)
        <3>1. i < j => i \in 1..(j - 1)
            BY <2>1
        <3> QED BY <3>1
    <2>3. ~(j < i)
        <3>1. j < i => j \in 1..(i - 1)
            BY <2>1
        <3> QED BY <3>1
    <2> QED BY <2>1, <2>2, <2>3
<1>4. Places(I) /\ Places(J) /\ IsFiniteSet(I)
    <2> HIDE DEF I, J
    <2>1. IsFiniteSet(1..N)
        BY <1>1, FS_Interval
    <2>2. IsFiniteSet(I)
        BY <1>2, <2>1, FS_Subset
    <2>3. IsFiniteSet(J)
        BY <1>2, <2>2, FS_Subset
    <2> QED BY <1>1, <1>2, <2>2, <2>3 DEF Places
<1>5. \A i \in J : Cardinality(Upto(I, i)) <= Limit
    BY DEF Upto
<1>6. P = Retain(AlwaysOn, J)
    BY DEF Pinned
<1> HIDE DEF I, J, P
<1>7. Cardinality(J) \in Nat /\ Cardinality(J) <= Limit
    <2>1. CASE J = {}
        BY <1>1, <2>1, FS_EmptySet
    <2>2. CASE J # {}
        <3>1. PICK m \in J : \A k \in J : k <= m
            BY <1>4, <2>2, HasLast
        <3>2. J \in SUBSET Upto(I, m)
            BY <1>2, <3>1 DEF Upto
        <3>3. IsFiniteSet(Upto(I, m)) /\ Cardinality(Upto(I, m)) \in Nat
            BY <1>1, <1>2, <1>4, UptoIs
        <3>4. Cardinality(J) <= Cardinality(Upto(I, m))
            BY <3>2, <3>3, FS_Subset
        <3>5. Cardinality(J) \in Nat
            BY <1>4, FS_CardinalityType DEF Places
        <3> QED BY <1>1, <1>5, <3>3, <3>4, <3>5
    <2> QED BY <2>1, <2>2
<1> DEFINE k == Cardinality(J)
<1>8. ASSUME NEW n \in 1..k PROVE P[n] = AlwaysOn[Nth(J, n)] /\ Nth(J, n) \in J
    BY <1>4, <1>6, NthIs DEF Retain
<1>9. P \in Seq(Nat) /\ Len(P) = k
    <2>1. P = [n \in 1..k |-> AlwaysOn[Nth(J, n)]]
        BY <1>6 DEF Retain
    <2>2. \A n \in 1..k : AlwaysOn[Nth(J, n)] \in Nat
        BY <1>1, <1>2, <1>8
    <2> HIDE DEF k
    <2> QED BY <1>7, <2>1, <2>2 DEF k
<1>10. ASSUME NEW m \in 1..k, NEW n \in 1..k, P[m] = P[n] PROVE m = n
    <2>1. Nth(J, m) = Nth(J, n)
        BY <1>2, <1>3, <1>8, <1>10
    <2>2. \A a, b \in 1..k : a < b => Nth(J, a) < Nth(J, b)
        BY <1>4, NthInOrder
    <2>3. Nth(J, m) \in Int /\ Nth(J, n) \in Int
        <3>1. \A i \in J : i \in Int
            BY <1>1, <1>2
        <3>2. Nth(J, m) \in J /\ Nth(J, n) \in J
            BY <1>8
        <3> QED BY <3>1, <3>2
    <2>4. ~(m < n) /\ ~(n < m) /\ m \in Int /\ n \in Int
        BY <1>7, <2>1, <2>2, <2>3
    <2> QED BY <2>4
<1> QED BY <1>7, <1>9, <1>10 DEF P

\* All that a view shows, each once, in the order an answer has it.
LEMMA ShownInOrder ==
    ASSUME NEW q, NEW S, S = Shown(q), S \subseteq Nat, IsFiniteSet(S),
           q.ranks # 0 => S \subseteq Reported(q.ranks)
    PROVE  LET all == AskedFirst(q) \o InTurn(q) IN
           /\ all \in Seq(S) /\ Len(all) = Cardinality(S)
           /\ \A x \in S : \E n \in 1..Len(all) : all[n] = x
           /\ \A m, n \in 1..Len(all) : all[m] = all[n] => m = n
           /\ \A m, n \in 1..Len(all) : m < n => Precedes(all[m], all[n], q)
<1> DEFINE P == Pinned
           I == {i \in DOMAIN P : P[i] \in S}
           F == AskedFirst(q)
           R == S \ ToSet(F)
           hubs == IF q.ranks = 0 THEN {} ELSE Hubs \cap Reported(q.ranks)
           sooner(a, b) == IF (a \in hubs) = (b \in hubs) THEN Nearer(a, b) ELSE a \in hubs
           B == {p \in R \X R : sooner(p[1], p[2])}
           G == InTurn(q)
           f == Cardinality(I)
           r == Cardinality(R)
           all == F \o G
<1>0. /\ P \in Seq(Nat) /\ Len(P) \in Nat /\ Len(P) <= Limit /\ Limit \in Nat /\ DOMAIN P = 1..Len(P)
      /\ \A m, n \in 1..Len(P) : P[m] = P[n] => m = n
    BY PinnedIs, MetarConstants
<1>1. F = Retain(P, I) /\ G = SortBy(R, B)
    BY DEF AskedFirst, InTurn
<1>2. /\ \A i \in I : i \in 1..Len(P) /\ i \in Nat /\ P[i] \in S
      /\ \A x \in S : x \in ToSet(P) => \E i \in I : x = P[i]
      /\ \A i \in I : P[i] \in ToSet(P)
    BY <1>0 DEF ToSet
<1>3. Places(I) /\ f \in Nat
    <2> HIDE DEF P
    <2>1. I \in SUBSET (1..Len(P)) /\ I \subseteq Nat
        BY <1>2
    <2> HIDE DEF I
    <2>2. IsFiniteSet(1..Len(P))
        BY <1>0, FS_Interval
    <2>3. IsFiniteSet(I)
        BY <2>1, <2>2, FS_Subset
    <2> QED BY <2>1, <2>3, FS_CardinalityType DEF Places
<1> HIDE DEF P, I, G, F
<1>4. ASSUME NEW n \in 1..f PROVE F[n] = P[Nth(I, n)] /\ Nth(I, n) \in I
    BY <1>1, <1>3, NthIs DEF Retain
<1>5. F \in Seq(S) /\ Len(F) = f /\ DOMAIN F = 1..f
    <2>1. F = [n \in 1..f |-> P[Nth(I, n)]]
        BY <1>1 DEF Retain
    <2>2. \A n \in 1..f : P[Nth(I, n)] \in S
        BY <1>2, <1>4
    <2> HIDE DEF f
    <2> QED BY <1>3, <2>1, <2>2
<1>6. /\ \A m, n \in 1..f : m < n => Nth(I, m) < Nth(I, n)
      /\ \A i \in I : \E n \in 1..f : i = Nth(I, n)
    BY <1>3, NthInOrder
<1>7. /\ \A x \in S : x \in ToSet(P) => \E n \in 1..f : F[n] = x
      /\ \A n \in 1..f : F[n] \in ToSet(F) /\ F[n] \in ToSet(P)
    <2>1. \A x \in S : x \in ToSet(P) => \E n \in 1..f : F[n] = x
        BY <1>2, <1>4, <1>6
    <2>2. \A n \in 1..f : F[n] \in ToSet(F)
        BY <1>5 DEF ToSet
    <2> QED BY <1>2, <1>4, <2>1, <2>2
<1>8. /\ R \in SUBSET S /\ IsFiniteSet(R) /\ r \in Nat
      /\ \A x \in R : x \in Nat /\ x \notin ToSet(P) /\ x \notin ToSet(F)
    <2>1. R \in SUBSET S
        OBVIOUS
    <2>2. \A x \in R : x \in Nat /\ x \notin ToSet(P) /\ x \notin ToSet(F)
        BY <1>7
    <2> HIDE DEF R
    <2> QED BY <2>1, <2>2, FS_Subset, FS_CardinalityType
<1>9. ASSUME NEW x \in S PROVE x \in hubs <=> q.ranks # 0 /\ x \in Hubs
    OBVIOUS
<1>10. \A x, y \in R : <<x, y>> \in B <=> sooner(x, y)
    OBVIOUS
<1>11. \A x \in S : x \in ToSet(F) \/ x \in R
    OBVIOUS
<1>12. \A x \in ToSet(F) : \E n \in 1..f : F[n] = x
    BY <1>5 DEF ToSet
<1> HIDE DEF R, hubs
<1>13. Orders(B, R)
    <2> HIDE DEF B
    <2>1. \A x, y \in R : x # y => sooner(x, y) \/ sooner(y, x)
        BY <1>8, NearerOrders
    <2>2. \A x \in R : ~sooner(x, x)
        BY <1>8, NearerOrders
    <2>3. \A x, y, z \in R : sooner(x, y) /\ sooner(y, z) => sooner(x, z)
        BY <1>8, NearerOrders
    <2> HIDE DEF sooner
    <2> QED BY <1>8, <1>10, <2>1, <2>2, <2>3 DEF Orders
<1> HIDE DEF B
<1>14. /\ G \in [1..r -> R]
       /\ \A x \in R : \E n \in 1..r : G[n] = x
       /\ \A m, n \in 1..r : m < n => <<G[m], G[n]>> \in B
       /\ \A m, n \in 1..r : G[m] = G[n] => m = n
    BY <1>1, <1>13, SortGives
<1>15. G \in Seq(S) /\ Len(G) = r
    <2>1. \A n \in 1..r : G[n] \in S
        BY <1>8, <1>14
    <2> HIDE DEF r
    <2> QED BY <1>8, <1>14, <2>1
<1> DEFINE T == 1..(f + r)
<1> HIDE DEF f, r
<1>16. /\ all \in Seq(S) /\ Len(all) = f + r
       /\ \A n \in 1..f : n \in T /\ all[n] = F[n]
       /\ \A n \in 1..r : f + n \in T /\ all[f + n] = G[n]
       /\ \A n \in T : /\ n \in Int
                       /\ \/ n \in 1..f /\ all[n] = F[n]
                          \/ n > f /\ n - f \in 1..r /\ all[n] = G[n - f]
    <2>1. all \in Seq(S) /\ Len(all) = f + r
        BY <1>5, <1>15
    <2>2. \A n \in 1..f : n \in T /\ all[n] = F[n]
        BY <1>3, <1>5, <1>8, <1>15
    <2>3. \A n \in 1..r : f + n \in T /\ all[f + n] = G[n]
        BY <1>3, <1>5, <1>8, <1>15
    <2>4. ASSUME NEW n \in T
          PROVE  /\ n \in Int
                 /\ \/ n \in 1..f /\ all[n] = F[n]
                    \/ n > f /\ n - f \in 1..r /\ all[n] = G[n - f]
        <3>1. n \in Int /\ (n \in 1..f \/ (n > f /\ n - f \in 1..r /\ f + (n - f) = n))
            BY <1>3, <1>8
        <3> HIDE DEF all
        <3> QED BY <2>2, <2>3, <3>1
    <2> QED BY <2>1, <2>2, <2>3, <2>4
<1> HIDE DEF all, T
<1>17. ASSUME NEW m \in T, NEW n \in T, m < n
       PROVE  all[m] # all[n] /\ Precedes(all[m], all[n], q)
    <2> DEFINE place(x) == IF x \in ToSet(P) THEN CHOOSE k \in DOMAIN P : P[k] = x
                           ELSE IF q.ranks # 0 /\ x \in Hubs THEN Limit + 1 ELSE Limit + 2
               a == all[m]
               b == all[n]
    <2>1. m \in Int /\ n \in Int
        BY <1>16
    <2>2. SUFFICES a # b /\ (place(a) < place(b) \/ (place(a) = place(b) /\ Nearer(a, b)))
        BY DEF Precedes, P
    <2>3. ASSUME NEW k \in 1..f
          PROVE  place(F[k]) = Nth(I, k) /\ Nth(I, k) \in Int /\ Nth(I, k) <= Limit
        <3>1. /\ F[k] = P[Nth(I, k)] /\ Nth(I, k) \in 1..Len(P) /\ F[k] \in ToSet(P)
              /\ Nth(I, k) \in Int
            BY <1>2, <1>4, <1>7
        <3>2. place(F[k]) = Nth(I, k)
            BY <1>0, <3>1
        <3> QED BY <1>0, <3>1, <3>2
    <2>4. \A k \in 1..r : G[k] \in R /\ place(G[k]) = IF G[k] \in hubs THEN Limit + 1 ELSE Limit + 2
        BY <1>8, <1>9, <1>14
    <2> HIDE DEF place
    <2>5. CASE m \in 1..f /\ n \in 1..f
        <3>1. a = F[m] /\ b = F[n]
            BY <1>3, <1>16, <2>5
        <3>2. Nth(I, m) < Nth(I, n)
            BY <1>6, <1>17, <2>5
        <3>3. place(a) < place(b) /\ place(a) \in Int
            BY <2>3, <2>5, <3>1, <3>2
        <3>4. a # b
            BY <3>3
        <3> QED BY <3>3, <3>4
    <2>6. CASE m \in 1..f /\ n > f
        <3>1. a = F[m] /\ n - f \in 1..r /\ b = G[n - f]
            <4>1. a = F[m]
                BY <1>16, <2>6
            <4>2. ~(n \in 1..f)
                BY <1>3, <2>1, <2>6
            <4>3. n - f \in 1..r /\ b = G[n - f]
                BY <1>16, <4>2
            <4> QED BY <4>1, <4>3
        <3>2. a \in ToSet(F) /\ b \in R
            BY <1>7, <2>4, <2>6, <3>1
        <3>3. place(a) \in Int /\ place(a) <= Limit /\ place(b) \in {Limit + 1, Limit + 2}
            BY <2>3, <2>4, <2>6, <3>1
        <3> QED BY <1>0, <1>8, <3>2, <3>3
    <2>7. CASE m > f /\ n > f
        <3>1. m - f \in 1..r /\ a = G[m - f] /\ n - f \in 1..r /\ b = G[n - f] /\ m - f < n - f
            BY <1>3, <1>16, <1>17, <2>1, <2>7
        <3>2. a \in R /\ b \in R /\ sooner(a, b)
            BY <1>10, <1>14, <3>1
        <3>3. a # b
            BY <1>8, <3>2, NearerOrders
        <3>4. /\ place(a) = IF a \in hubs THEN Limit + 1 ELSE Limit + 2
              /\ place(b) = IF b \in hubs THEN Limit + 1 ELSE Limit + 2
            BY <2>4, <3>1
        <3> QED BY <1>0, <3>2, <3>3, <3>4
    <2>8. (m \in 1..f \/ m > f) /\ (n \in 1..f \/ n > f) /\ ~(m > f /\ n \in 1..f)
        BY <1>3, <1>16, <1>17, <2>1
    <2> QED BY <2>5, <2>6, <2>7, <2>8
<1>18. \A m, n \in T : all[m] = all[n] => m = n
    <2> SUFFICES ASSUME NEW m \in T, NEW n \in T, all[m] = all[n] PROVE m = n
        OBVIOUS
    <2>1. ~(m < n) /\ ~(n < m) /\ m \in Int /\ n \in Int
        BY <1>16, <1>17
    <2> QED BY <2>1
<1>19. \A x \in S : \E n \in T : all[n] = x
    BY <1>11, <1>12, <1>14, <1>16
<1>20. f + r = Cardinality(S)
    <2>1. all \in [T -> S]
        BY <1>16 DEF T
    <2>2. all \in Injection(T, S) /\ all \in Surjection(T, S)
        BY <1>18, <1>19, <2>1 DEF Injection, IsInjective, Surjection
    <2>3. Cardinality(T) = Cardinality(S)
        BY <2>2, FS_Injection
    <2>4. Cardinality(T) = f + r
        BY <1>3, <1>8, FS_Interval DEF T
    <2> QED BY <2>3, <2>4
<1>21. 1..Len(all) = T
    BY <1>16 DEF T
<1> QED BY <1>16, <1>17, <1>18, <1>19, <1>20, <1>21 DEF all, F, G

\* Answers hold what precedes all else in the view, up to the limit, in order
\* and each once (AnswersFit), for any airports, ranks, boxes and failures.
THEOREM AnswersFitHolds == MetarSpec => []AnswersFit
<1>1. ASSUME MetarInv PROVE AnswersFit
    <2> SUFFICES ASSUME NEW i \in Queries, Answerable(query[i]), query[i].ok, ~query[i].stale
                 PROVE  LET q == query[i] seen == {a \in Airports : Between(a, q.view, Reach)}
                            answer == Select(q)
                        IN  /\ Len(answer) = IF Cardinality(seen) < Limit THEN Cardinality(seen)
                                             ELSE Limit
                            /\ \A n \in DOMAIN answer :
                                /\ answer[n] \in seen
                                /\ \A b \in seen \ {answer[m] : m \in 1..n} : Precedes(answer[n], b, q)
                                /\ \A m \in 1..(n - 1) : answer[m] # answer[n]
        BY DEF AnswersFit
    <2> DEFINE q == query[i]
               seen == {a \in Airports : Between(a, q.view, Reach)}
               all == AskedFirst(q) \o InTurn(q)
               N == Cardinality(seen)
               k == IF N < Limit THEN N ELSE Limit
               answer == Select(q)
    <2>1. q \in QueryRecords /\ Fits(q)
        BY <1>1 DEF MetarInv, Queries
    <2>2. q.view \in Nat /\ q.box \in Nat /\ q.ranks \in Nat /\ q.kind \in Kinds
        BY <2>1 DEF QueryRecords
    <2>3. seen \in SUBSET Reported(q.box) /\ (q.ranks # 0 => seen \subseteq Reported(q.ranks))
        BY <2>1, <2>2, CoveredIsReported DEF Fits
    <2>4. seen = Shown(q) /\ seen \subseteq Nat
        BY <2>3, MetarConstants DEF Shown, Reported
    <2>5. IsFiniteSet(seen)
        <3> DEFINE low == q.view - Reach
                   high == q.view + Reach
                   V == low..high
        <3>1. seen \in SUBSET V
            BY DEF Between
        <3>2. low \in Int /\ high \in Int
            BY <2>2, MetarConstants
        <3> HIDE DEF low, high
        <3>3. IsFiniteSet(V)
            BY <3>2, FS_Interval
        <3> HIDE DEF V, seen
        <3> QED BY <3>1, <3>3, FS_Subset
    <2> HIDE DEF seen, q
    <2>6. /\ all \in Seq(seen) /\ Len(all) = N
          /\ \A x \in seen : \E n \in 1..Len(all) : all[n] = x
          /\ \A m, n \in 1..Len(all) : all[m] = all[n] => m = n
          /\ \A m, n \in 1..Len(all) : m < n => Precedes(all[m], all[n], q)
        BY <2>3, <2>4, <2>5, ShownInOrder
    <2>7. answer = SubSeq(all, 1, k)
        BY <2>6 DEF Select, UpToLimit
    <2> HIDE DEF all, answer
    <2>8. N \in Nat /\ Limit \in Nat /\ k \in 0..N
        BY <2>5, FS_CardinalityType, MetarConstants
    <2> HIDE DEF N, k
    <2>9. Len(answer) = k /\ DOMAIN answer = 1..k /\ \A n \in 1..k : answer[n] = all[n]
        BY <2>6, <2>7, <2>8
    <2>10. ASSUME NEW n \in 1..k
           PROVE  /\ answer[n] \in seen
                  /\ \A b \in seen \ {answer[m] : m \in 1..n} : Precedes(answer[n], b, q)
                  /\ \A m \in 1..(n - 1) : answer[m] # answer[n]
        <3>1. n \in 1..Len(all) /\ n \in Int /\ answer[n] = all[n]
            BY <2>6, <2>8, <2>9
        <3>2. \A m \in 1..n : m \in 1..Len(all) /\ m \in Int /\ answer[m] = all[m]
            BY <2>6, <2>8, <2>9
        <3>3. ASSUME NEW b \in seen, b \notin {answer[m] : m \in 1..n} PROVE Precedes(answer[n], b, q)
            <4>1. PICK j \in 1..Len(all) : all[j] = b
                BY <2>6
            <4>2. j \notin 1..n
                BY <3>2, <3>3, <4>1
            <4>3. n < j
                BY <2>6, <2>8, <3>1, <4>2
            <4> QED BY <2>6, <3>1, <4>1, <4>3
        <3>4. \A m \in 1..(n - 1) : m \in 1..n /\ m # n
            BY <3>1
        <3> QED BY <2>6, <3>1, <3>2, <3>3, <3>4
    <2> QED BY <2>9, <2>10 DEF k, N, q, seen, answer
<1> QED BY <1>1, MetarInvInit, MetarInvStep, PTL DEF MetarSpec
=============================================================================

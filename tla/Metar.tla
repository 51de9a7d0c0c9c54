-------------------------------- MODULE Metar --------------------------------
(***************************************************************************)
(* METAR queries (metar.rs, and their dispatch in main.rs): a query that   *)
(* no cached feed covers leads one fetch for its box or joins the one in   *)
(* flight; station priorities are a second such fetch.  Only a client's    *)
(* newest query is answered, with the airports that matter most to it.     *)
(* Places lie on a line: a view shows those within Reach of its middle,    *)
(* and the box fetched for it reaches Pad further.  All queries are from   *)
(* one radar, within the network, and ask for the same airports first.     *)
(***************************************************************************)
EXTENDS Integers, Sequences, FiniteSets, SequencesExt, Ordering

CONSTANTS
    Askers,         \* clients
    Asks,           \* for each the views it may ask for, by their middle
    Reach, Pad,     \* half a view, and the margin fetched around it
    Ranked,         \* the views asked for with pick=priority
    Airports,       \* the airports that report, by place
    Hubs,           \* those of the first rank
    Radar,          \* the place of the queries' radar
    AlwaysOn,       \* the airports they ask for first, as the client lists them
    Limit,          \* and how many they ask for
    MetarInFlight,  \* IN_FLIGHT
    CacheCap,       \* CACHE_CAP
    MaxQueries,     \* bound: queries
    MaxMetarFaults  \* bound: fetches that fail or are dropped

ASSUME MetarConstants ==
    /\ Asks \in [Askers -> SUBSET (Nat \ {0})] /\ Ranked \subseteq Nat /\ Reach \in Nat /\ Pad \in Nat
    /\ Airports \subseteq Nat /\ Hubs \subseteq Airports /\ Radar \in Nat
    /\ AlwaysOn \in Seq(Nat) /\ Limit \in Nat \ {0}
    /\ MetarInFlight \in Nat \ {0} /\ CacheCap \in Nat \ {0}
    /\ MaxQueries \in Nat /\ MaxMetarFaults \in Nat

Kinds == {"feed", "stations"}

VARIABLES
    metarFaults,
    entries,     \* for each kind the fresh boxes cached, oldest first
    resting,     \* back_off_until lies ahead
    query,       \* the queries, in the order they came
    ticket,      \* metar_seq: each client's newest query
    answered     \* each client's answers, as queries

metarVars == <<metarFaults, entries, resting, query, ticket, answered>>

Queries == 1..Len(query)
With(i, fields) == [query EXCEPT ![i] = fields]

-----------------------------------------------------------------------------
(* Boxes, and the choice among the reports in one *)

Between(x, middle, reach) == x \in (middle - reach)..(middle + reach)

\* Whether the box fetched for a view (fetch_box) holds the box of another.
Covers(box, view) ==
    /\ box - Reach - Pad <= view - Reach
    /\ view + Reach <= box + Reach + Pad

Covering(kind, view) == {i \in 1..Len(entries[kind]) : Covers(entries[kind][i], view)}
Reported(box) == {a \in Airports : Between(a, box, Reach + Pad)}

\* Query::parse: the airports asked for first, once each and no more than Limit.
Pinned ==
    LET firsts == {i \in DOMAIN AlwaysOn : \A j \in 1..(i - 1) : AlwaysOn[j] # AlwaysOn[i]}
    IN  Retain(AlwaysOn, {i \in firsts : Cardinality({j \in firsts : j <= i}) <= Limit})

Distance(a) == IF a > Radar THEN a - Radar ELSE Radar - a
Nearer(a, b) == Distance(a) < Distance(b) \/ (Distance(a) = Distance(b) /\ a < b)

\* The reports in a query's view, and those of them asked for first.
Shown(q) == {a \in Reported(q.box) : Between(a, q.view, Reach)}
AskedFirst(q) == Retain(Pinned, {i \in DOMAIN Pinned : Pinned[i] \in Shown(q)})

\* Then hubs as far as ranks are known, then by distance from the radar.
InTurn(q) ==
    LET rest == Shown(q) \ ToSet(AskedFirst(q))
        hubs == IF q.ranks = 0 THEN {} ELSE Hubs \cap Reported(q.ranks)
        sooner(a, b) == IF (a \in hubs) = (b \in hubs) THEN Nearer(a, b) ELSE a \in hubs
    IN  SortBy(rest, {p \in rest \X rest : sooner(p[1], p[2])})

UpToLimit(s) == SubSeq(s, 1, IF Len(s) < Limit THEN Len(s) ELSE Limit)

\* Mutant: the airports asked for first are taken beside the Limit others.
SelectBeside(q) == AskedFirst(q) \o UpToLimit(InTurn(q))

Select(q) == UpToLimit(AskedFirst(q) \o InTurn(q))

\* What a query does next with the outcome of its stage.  The feed is needed;
\* in place of the priorities, whatever ranks this radar cached last will do.
Outcome(q, ok, box) ==
    IF q.kind = "stations"
    THEN LET last == entries["stations"] IN
         [q EXCEPT !.phase = "done", !.stale = @ \/ ~ok,
                   !.ranks = IF ok THEN box ELSE IF last = <<>> THEN 0 ELSE Last(last)]
    ELSE IF ~ok THEN [q EXCEPT !.phase = "done", !.ok = FALSE]
    ELSE IF q.view \in Ranked
    THEN [q EXCEPT !.phase = "begin", !.kind = "stations", !.box = box]
    ELSE [q EXCEPT !.phase = "done", !.box = box]

-----------------------------------------------------------------------------
(* single_flight *)

\* BoxKey: the box and its hour or day.
SameKey(a, b) == a.kind = b.kind /\ a.view = b.view

Leading(q) == q.phase \in {"permit", "get"}
Leaders(i) == {j \in Queries \ {i} : Leading(query[j]) /\ SameKey(query[i], query[j])}

\* A cached box, then the back-off and what this radar has cached, then the
\* flight of the same key, and a flight of its own.  Nothing is awaited in
\* between, so that one look under the lock is the same as two.
Begin(i) ==
    LET q == query[i]
        boxes == entries[q.kind]
        hits == Covering(q.kind, q.view)
    IN
    /\ q.phase = "begin"
    /\ query' = With(i,
        IF hits # {} THEN Outcome(q, TRUE, boxes[CHOOSE n \in hits : \A m \in hits : n >= m])
        ELSE IF resting
        THEN Outcome([q EXCEPT !.stale = TRUE], boxes # <<>>, IF boxes = <<>> THEN 0 ELSE Last(boxes))
        ELSE [q EXCEPT !.phase = IF Leaders(i) # {} THEN "follow" ELSE "permit"])
    /\ UNCHANGED <<metarFaults, entries, resting, ticket, answered>>

Acquire(i) ==
    /\ query[i].phase = "permit"
    /\ Cardinality({j \in Queries : query[j].phase = "get"}) < MetarInFlight
    /\ query' = With(i, [query[i] EXCEPT !.phase = "get"])
    /\ UNCHANGED <<metarFaults, entries, resting, ticket, answered>>

\* Mutant: only a fetch that succeeds tells the queries that wait for it.
WakeLeader(i, ok) ==
    query' = [j \in Queries |->
        IF j = i \/ (ok /\ query[j].phase = "follow" /\ SameKey(query[i], query[j]))
        THEN Outcome(query[j], ok, query[i].view) ELSE query[j]]

\* Done: the fetch ends, however it does, for the leader and its followers.
Wake(i, ok) ==
    query' = [j \in Queries |->
        IF j = i \/ (query[j].phase = "follow" /\ SameKey(query[i], query[j]))
        THEN Outcome(query[j], ok, query[i].view) ELSE query[j]]

\* The value is stored before the flight ends; the oldest entries make room.
Fetched(i) ==
    /\ query[i].phase = "get"
    /\ Wake(i, TRUE)
    /\ LET kept == Append(RemoveFirst(entries[query[i].kind], query[i].view), query[i].view) IN
       entries' = [entries EXCEPT ![query[i].kind] =
                        IF Len(kept) > CacheCap THEN Tail(kept) ELSE kept]
    /\ UNCHANGED <<metarFaults, resting, ticket, answered>>

\* 429, 5xx and transport failures back off; other failures and a dropped
\* leader do not.
FetchFails(i) ==
    /\ query[i].phase = "get" /\ metarFaults < MaxMetarFaults
    /\ metarFaults' = metarFaults + 1
    /\ resting' \in {TRUE, resting}
    /\ Wake(i, FALSE)
    /\ UNCHANGED <<entries, ticket, answered>>

-----------------------------------------------------------------------------
(* The client's task *)

\* A query that a newer one of the same client has replaced is not answered.
Answer(i) ==
    /\ query[i].phase = "done"
    /\ query' = With(i, [query[i] EXCEPT !.phase = "gone"])
    /\ answered' = IF ticket[query[i].client] = i
                   THEN [answered EXCEPT ![query[i].client] = Append(@, i)] ELSE answered
    /\ UNCHANGED <<metarFaults, entries, resting, ticket>>

AskMetar(c) ==
    /\ Len(query) < MaxQueries
    /\ \E v \in Asks[c] :
        query' = Append(query, [client |-> c, view |-> v, phase |-> "begin", kind |-> "feed",
                                box |-> 0, ranks |-> 0, ok |-> TRUE, stale |-> FALSE])
    /\ ticket' = [ticket EXCEPT ![c] = Len(query')]
    /\ UNCHANGED <<metarFaults, entries, resting, answered>>

\* TTL and BACK_OFF run out.
MetarTime ==
    \/ /\ \E k \in Kinds : /\ entries[k] # <<>>
                           /\ entries' = [entries EXCEPT ![k] = Tail(@)]
       /\ UNCHANGED <<metarFaults, resting, query, ticket, answered>>
    \/ /\ resting /\ resting' = FALSE
       /\ UNCHANGED <<metarFaults, entries, query, ticket, answered>>

MetarInit ==
    /\ metarFaults = 0 /\ entries = [k \in Kinds |-> <<>>] /\ resting = FALSE
    /\ query = <<>> /\ ticket = [c \in Askers |-> 0] /\ answered = [c \in Askers |-> <<>>]

MetarStep == \E i \in Queries : Begin(i) \/ Acquire(i) \/ Fetched(i) \/ Answer(i)

MetarNext ==
    \/ MetarStep \/ (\E i \in Queries : FetchFails(i))
    \/ (\E c \in Askers : AskMetar(c)) \/ MetarTime

MetarSpec == MetarInit /\ [][MetarNext]_metarVars

-----------------------------------------------------------------------------
(* Properties *)

Answerable(q) == q.phase \in {"done", "gone"}

\* Whoever fetched it, an answer that is not stale is made from a box that
\* holds every airport of the query's view, and so are its ranks.
AnswersCover ==
    \A i \in Queries :
        LET q == query[i] seen == {a \in Airports : Between(a, q.view, Reach)} IN
        Answerable(q) /\ q.ok /\ ~q.stale =>
            seen \subseteq Reported(q.box) /\ (q.view \in Ranked => seen \subseteq Reported(q.ranks))

\* What comes first in an answer: the airports asked for, in that order, then
\* hubs if ranks were wanted and had, then what is near.
Precedes(a, b, q) ==
    LET place(x) == IF x \in ToSet(Pinned) THEN CHOOSE n \in DOMAIN Pinned : Pinned[n] = x
                    ELSE IF q.ranks # 0 /\ x \in Hubs THEN Limit + 1 ELSE Limit + 2
    IN  place(a) < place(b) \/ (place(a) = place(b) /\ Nearer(a, b))

\* Whoever fetched the box it is made from, an answer holds the airports of
\* the query's view, each once and up to the limit, and none is left out, or
\* put behind another, that precedes it; unless a source that rests or fails
\* left only what this radar had cached.
AnswersFit ==
    \A i \in Queries :
        LET q == query[i] seen == {a \in Airports : Between(a, q.view, Reach)} answer == Select(q) IN
        Answerable(q) /\ q.ok /\ ~q.stale =>
            /\ Len(answer) = IF Cardinality(seen) < Limit THEN Cardinality(seen) ELSE Limit
            /\ \A n \in DOMAIN answer :
                /\ answer[n] \in seen
                /\ \A b \in seen \ {answer[m] : m \in 1..n} : Precedes(answer[n], b, q)
                /\ \A m \in 1..(n - 1) : answer[m] # answer[n]

\* Each client's newest query is answered, though the fetch it waits for is
\* another client's and fails.
NewestIsAnswered ==
    \A c \in Askers : []<>(ticket[c] # 0 => ticket[c] \in ToSet(answered[c]))
=============================================================================

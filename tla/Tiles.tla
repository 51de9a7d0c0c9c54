-------------------------------- MODULE Tiles --------------------------------
(***************************************************************************)
(* The basemap's vector tiles: one task per client (serve_tiles, main.rs)  *)
(* that answers requests tile by tile, and the source they share (osm.rs): *)
(* TileJSON read once under a lock, GETs under permits, a back-off after a *)
(* failure, a cache with a ceiling, and the store of rendered masks        *)
(* (tiles.rs).  The runtime has one thread: a step runs from one await to  *)
(* the next.  All tiles are between FROM_ZOOM and MAX_ZOOM.                *)
(***************************************************************************)
EXTENDS Integers, Sequences, FiniteSets, SequencesExt

CONSTANTS
    Users,        \* clients
    Tile,         \* tiles
    Requests,     \* the rectangles a client may ask for
    BadTiles,     \* tiles that budget::check rejects
    ChannelCap,   \* a client's channel of requests (8)
    InFlight,     \* IN_FLIGHT
    MaxFiles,     \* MAX_FILES
    Ceiling, Target, \* in tiles
    MaxRequests,  \* bound: requests of all clients
    MaxFaults     \* bound: GETs that fail

ASSUME TilesConstants ==
    /\ Requests \subseteq SUBSET Tile \ {{}} /\ BadTiles \subseteq Tile
    /\ ChannelCap \in Nat \ {0} /\ InFlight \in Nat \ {0} /\ MaxFiles \in Nat \ {0}
    /\ Ceiling \in Nat /\ Target \in 0..Ceiling
    /\ MaxRequests \in Nat /\ MaxFaults \in Nat /\ "nobody" \notin Users

VARIABLES
    faults,
    \* the source
    version,     \* a data version is known, from the cache or from TileJSON
    template,    \* TileJSON has been read
    jsonLock,    \* who holds the lock it is read under, or nobody
    reads,       \* how often it was read
    backOff,     \* the failure whose back-off is running, 0 for none
    status,
    rejected,    \* tiles whose content was rejected, for a while
    cached,      \* tiles on disk, the one read longest ago first
    cacheBytes, grown,
    ready,       \* rendered masks in the order they were announced
    \* the clients
    channel, asked, wanted, heard,
    task

source == <<version, template, jsonLock, reads, backOff, status, rejected, cached, cacheBytes,
            grown>>
clients == <<channel, asked, wanted, heard>>
tilesVars == <<faults, source, ready, clients, task>>

None == {}
Nobody == "nobody"
Idle == [phase |-> "recv", queue |-> {}, key |-> "", newer |-> None, standIns |-> {},
         fetch |-> "", set |-> "", until |-> 0, total |-> 0]

Become(c, t) == task' = [task EXCEPT ![c] = t]
Go(c, p) == Become(c, [task[c] EXCEPT !.phase = p])
Drop(s, key) == SelectSeq(s, LAMBDA e : e # key)
Used == Cardinality({c \in Users : task[c].phase = "get"})

-----------------------------------------------------------------------------
(* The source *)

\* fail and succeed.
FailedFetch ==
    /\ faults < MaxFaults /\ faults' = faults + 1
    /\ backOff' = faults + 1
    /\ status' = IF version THEN "offline" ELSE "unavailable"

Succeeded == backOff' = 0 /\ status' = "ok"

Expire ==
    \/ /\ backOff # 0 /\ backOff' = 0
       /\ UNCHANGED <<faults, version, template, jsonLock, reads, status, rejected, cached,
                      cacheBytes, grown, ready, clients, task>>
    \/ /\ rejected # {} /\ rejected' = {}
       /\ UNCHANGED <<faults, version, template, jsonLock, reads, backOff, status, cached,
                      cacheBytes, grown, ready, clients, task>>

\* Store::announce, with the cap on files.
Announce(entry) ==
    LET order == IF Contains(ready, entry) THEN ready ELSE Append(ready, entry) IN
    ready' = IF Len(order) > MaxFiles THEN Tail(order) ELSE order

-----------------------------------------------------------------------------
(* Answers *)

Done(t) == [t EXCEPT !.phase = "batch", !.key = "", !.fetch = "", !.set = ""]

\* Answer with a mask of this session, or render one.
Serve(c, t, set) ==
    IF Contains(ready, <<set, t.key>>)
    THEN /\ heard' = [heard EXCEPT ![c][t.key] = set]
         /\ Become(c, Done(t))
    ELSE /\ Become(c, [t EXCEPT !.phase = "render", !.set = set, !.fetch = ""])
         /\ UNCHANGED heard

\* serve_osm came to nothing: the tile is answered as `ne` and kept for later.
StandIn(c) ==
    Serve(c, [task[c] EXCEPT !.standIns = @ \cup {task[c].key}], "ne")

\* publish_tile: rendered, written and recorded.
Publish(c) ==
    /\ task[c].phase = "render"
    /\ Announce(<<task[c].set, task[c].key>>)
    /\ heard' = [heard EXCEPT ![c][task[c].key] = task[c].set]
    /\ Become(c, Done(task[c]))
    /\ UNCHANGED <<faults, source, channel, asked, wanted>>

-----------------------------------------------------------------------------
(* A pass over the tiles of a request *)

\* The newest request decides which of the pending tiles are still wanted.
\* A mask this session has drawn answers at once.
Pick(c) ==
    /\ task[c].phase = "batch" /\ task[c].queue # {}
    /\ channel' = [channel EXCEPT ![c] = <<>>]
    /\ \E key \in task[c].queue :
        LET newer == IF channel[c] = <<>> THEN task[c].newer ELSE Last(channel[c])
            t == [task[c] EXCEPT !.queue = @ \ {key}, !.key = key, !.newer = newer]
        IN  IF newer # None /\ key \notin newer
            THEN Become(c, Done(t)) /\ UNCHANGED heard
            ELSE IF Contains(ready, <<"osm", key>>)
            THEN Serve(c, t, "osm")
            ELSE Become(c, [t EXCEPT !.phase = "template"]) /\ UNCHANGED heard
    /\ UNCHANGED <<faults, source, ready, asked, wanted>>

\* template: known, or the lock is queued for ...
Template(c) ==
    /\ task[c].phase = "template"
    /\ Go(c, IF template THEN "lookup" ELSE "queued")
    /\ UNCHANGED <<faults, source, ready, clients>>

\* Mutant: once it has the lock, a task does not look again.
LockedBlind(c) ==
    /\ task[c].phase = "queued" /\ jsonLock = Nobody
    /\ IF backOff # 0 THEN StandIn(c) /\ UNCHANGED jsonLock
       ELSE /\ Become(c, [task[c] EXCEPT !.phase = "permit", !.fetch = "json"])
            /\ jsonLock' = c /\ UNCHANGED heard
    /\ UNCHANGED <<faults, version, template, reads, backOff, status, rejected, cached, cacheBytes,
                   grown, ready, channel, asked, wanted>>

\* ... and with the lock looked at again.
Locked(c) ==
    /\ task[c].phase = "queued" /\ jsonLock = Nobody
    /\ IF template THEN Go(c, "lookup") /\ UNCHANGED <<jsonLock, heard>>
       ELSE IF backOff # 0 THEN StandIn(c) /\ UNCHANGED jsonLock
       ELSE /\ Become(c, [task[c] EXCEPT !.phase = "permit", !.fetch = "json"])
            /\ jsonLock' = c /\ UNCHANGED heard
    /\ UNCHANGED <<faults, version, template, reads, backOff, status, rejected, cached, cacheBytes,
                   grown, ready, channel, asked, wanted>>

\* tile, once the template is known: the cache, else a GET unless the source
\* backs off or the tile was rejected.  A cached tile that does not pass the
\* budget is removed.
Lookup(c) ==
    LET key == task[c].key
        have == Contains(cached, key)
    IN
    /\ task[c].phase = "lookup"
    /\ IF have /\ key \notin BadTiles
       THEN /\ cached' = Append(Drop(cached, key), key)
            /\ Serve(c, task[c], "osm")
            /\ UNCHANGED cacheBytes
       ELSE /\ cached' = Drop(cached, key)
            /\ cacheBytes' = IF have /\ cacheBytes > 0 THEN cacheBytes - 1 ELSE cacheBytes
            /\ IF backOff # 0 \/ key \in rejected THEN StandIn(c)
               ELSE /\ Become(c, [task[c] EXCEPT !.phase = "permit", !.fetch = "tile"])
                    /\ UNCHANGED heard
    /\ UNCHANGED <<faults, version, template, jsonLock, reads, backOff, status, rejected, grown,
                   ready, channel, asked, wanted>>

\* get: one of IN_FLIGHT.
Permit(c) ==
    /\ task[c].phase = "permit" /\ Used < InFlight
    /\ Go(c, "get")
    /\ UNCHANGED <<faults, source, ready, clients>>

Unlocked(c) == jsonLock' = IF jsonLock = c THEN Nobody ELSE jsonLock

GotJson(c) ==
    /\ task[c].phase = "get" /\ task[c].fetch = "json"
    /\ Succeeded
    /\ version' = TRUE /\ template' = TRUE /\ reads' = reads + 1 /\ Unlocked(c)
    /\ Go(c, "lookup")
    /\ UNCHANGED <<faults, rejected, cached, cacheBytes, grown, ready, clients>>

\* A tile is cached as it was served; rejected content is remembered.
GotTile(c) ==
    /\ task[c].phase = "get" /\ task[c].fetch = "tile"
    /\ Succeeded
    /\ LET key == task[c].key IN
       IF key \in BadTiles
       THEN /\ rejected' = rejected \cup {key}
            /\ StandIn(c)
            /\ UNCHANGED <<cached, cacheBytes, grown>>
       ELSE /\ cached' = Append(Drop(cached, key), key)
            /\ cacheBytes' = cacheBytes + 1 /\ grown' = TRUE
            /\ Serve(c, task[c], "osm")
            /\ UNCHANGED rejected
    /\ UNCHANGED <<faults, version, template, jsonLock, reads, ready, channel, asked, wanted>>

GetFails(c) ==
    /\ task[c].phase = "get"
    /\ FailedFetch /\ Unlocked(c)
    /\ StandIn(c)
    /\ UNCHANGED <<version, template, reads, rejected, cached, cacheBytes, grown, ready, channel,
                   asked, wanted>>

-----------------------------------------------------------------------------
(* After a pass *)

\* Mutant: the stand-ins are not asked for again.
AfterPassForgetful(c) ==
    LET t == [task[c] EXCEPT !.newer = None, !.standIns = {}, !.total = 0] IN
    IF task[c].newer # None
    THEN Become(c, [t EXCEPT !.phase = "batch", !.queue = task[c].newer])
    ELSE Become(c, [t EXCEPT !.phase = "recv"])

\* A newer request, or the stand-ins when the back-off has passed (retry_at),
\* or whatever is asked for next.
AfterPass(c) ==
    LET t == [task[c] EXCEPT !.newer = None, !.standIns = {}, !.total = 0] IN
    IF task[c].newer # None
    THEN Become(c, [t EXCEPT !.phase = "batch", !.queue = task[c].newer])
    ELSE IF task[c].standIns = {} THEN Become(c, [t EXCEPT !.phase = "recv"])
    ELSE Become(c, [t EXCEPT !.phase = "retry", !.queue = task[c].standIns, !.until = backOff])

\* trim: nothing is due, or the files read longest ago go until TARGET holds ...
EndPass(c) ==
    /\ task[c].phase = "batch" /\ task[c].queue = {}
    /\ grown' = FALSE
    /\ IF grown /\ cacheBytes > Ceiling THEN Go(c, "evict") ELSE AfterPass(c)
    /\ UNCHANGED <<faults, version, template, jsonLock, reads, backOff, status, rejected, cached,
                   cacheBytes, ready, clients>>

Evict(c) ==
    /\ task[c].phase = "evict"
    /\ cached' = IF Len(cached) > Target THEN SubSeq(cached, Len(cached) - Target + 1, Len(cached))
                 ELSE cached
    /\ Become(c, [task[c] EXCEPT !.phase = "evicted", !.total = Len(cached')])
    /\ UNCHANGED <<faults, version, template, jsonLock, reads, backOff, status, rejected,
                   cacheBytes, grown, ready, clients>>

\* ... and then the count is what was left, whatever was written meanwhile.
Evicted(c) ==
    /\ task[c].phase = "evicted"
    /\ cacheBytes' = task[c].total
    /\ AfterPass(c)
    /\ UNCHANGED <<faults, version, template, jsonLock, reads, backOff, status, rejected, cached,
                   grown, ready, clients>>

\* A request arrives while the task waits for one, or for the back-off.
Recv(c) ==
    /\ task[c].phase \in {"recv", "retry"} /\ channel[c] # <<>>
    /\ Become(c, [Idle EXCEPT !.phase = "batch", !.queue = Head(channel[c])])
    /\ channel' = [channel EXCEPT ![c] = Tail(@)]
    /\ UNCHANGED <<faults, source, ready, asked, wanted, heard>>

\* The back-off it waited for is over, or one such time has passed.
Retry(c) ==
    /\ task[c].phase = "retry" /\ channel[c] = <<>>
    /\ task[c].until = 0 \/ task[c].until # backOff
    /\ Become(c, [Idle EXCEPT !.phase = "batch", !.queue = task[c].queue])
    /\ UNCHANGED <<faults, source, ready, clients>>

-----------------------------------------------------------------------------
\* tiles_needed: try_send, so that a full channel loses the request.  `heard`
\* is what was answered since the last request the channel took.
Ask(c) ==
    /\ asked < MaxRequests /\ asked' = asked + 1
    /\ \E r \in Requests :
        IF Len(channel[c]) < ChannelCap
        THEN /\ channel' = [channel EXCEPT ![c] = Append(@, r)]
             /\ wanted' = [wanted EXCEPT ![c] = r]
             /\ heard' = [heard EXCEPT ![c] = [k \in Tile |-> ""]]
        ELSE UNCHANGED <<channel, wanted, heard>>
    /\ UNCHANGED <<faults, source, ready, task>>

\* The daemon starts with what an earlier one cached; the newest cached
\* version is its version until TileJSON is read.
TilesInit ==
    /\ faults = 0
    /\ \E files \in {<<>>} \cup {<<k>> : k \in Tile} :
        /\ cached = files /\ version = (files # <<>>) /\ cacheBytes = Len(files)
    /\ status = IF version THEN "ok" ELSE "unavailable"
    /\ template = FALSE /\ jsonLock = Nobody /\ reads = 0
    /\ backOff = 0 /\ rejected = {} /\ grown = FALSE /\ ready = <<>>
    /\ channel = [c \in Users |-> <<>>] /\ asked = 0
    /\ wanted = [c \in Users |-> {}] /\ heard = [c \in Users |-> [k \in Tile |-> ""]]
    /\ task = [c \in Users |-> Idle]

TaskStep(c) ==
    \/ Pick(c) \/ Template(c) \/ Locked(c) \/ Lookup(c) \/ Permit(c)
    \/ GotJson(c) \/ GotTile(c) \/ GetFails(c) \/ Publish(c)
    \/ EndPass(c) \/ Evict(c) \/ Evicted(c) \/ Recv(c) \/ Retry(c)

TilesNext == Expire \/ \E c \in Users : TaskStep(c) \/ Ask(c)

TilesSpec == TilesInit /\ [][TilesNext]_tilesVars

-----------------------------------------------------------------------------
(* Properties *)

\* TileJSON is read once in a daemon's life, however many tasks want it.
TileJsonOnce == reads <= 1

\* Every tile of the last request that was taken is answered, and in the end
\* as `osm` if its content can be used: after failures, behind other clients,
\* superseded passes and stand-ins.
AnswersSettle ==
    \A c \in Users :
        <>[](\A k \in wanted[c] : heard[c][k] = IF k \in BadTiles THEN "ne" ELSE "osm")

\* What docs/protocol.md says of `offline`: fetching fails, cached tiles still
\* serve.  (No tile that is in the cache is answered as `ne`.)
OfflineServesCached ==
    [][\A c \in Users, k \in Tile :
        heard'[c][k] = "ne" /\ heard[c][k] = "" /\ status' = "offline" /\ k \notin BadTiles
            => ~Contains(cached', k)]_tilesVars
=============================================================================

------------------------------- MODULE Poller -------------------------------
(***************************************************************************)
(* The polar poller of one station: discovery of the live volume           *)
(* (live_index.rs) and live::poll with its assembler, its cursor, its      *)
(* failures and its backfill, against a bucket that a radar fills while    *)
(* the poller reads.                                                       *)
(*                                                                         *)
(* A volume is known by the time it began, which every chunk's name        *)
(* carries: here its number.  Its chunks are numbered from 1; the lowest   *)
(* cut is in chunks 1 up to LowCut.  Directories (slots) form a ring and   *)
(* are reused, so one lists the chunks of several volumes.                 *)
(***************************************************************************)
EXTENDS Integers, Sequences, FiniteSets, FiniteSetsExt

CONSTANTS
    Volumes,        \* bound: volumes the radar scans
    First,          \* the volume coming in when the poller starts
    Slots,          \* directories of the ring (999)
    Chunks,         \* chunks of a volume: the first is its Start, the last its End
    LowCut,         \* the chunk whose last radial ends the lowest cut
    Replayed,       \* LOW_CUT_REPLAY
    Recent,         \* a volume this many before the newest is not recent (30 min)
    BackfillVolumes,\* BACKFILL_VOLUMES
    OfflineAfter, RestartAfter,
    MaxFaults       \* bound: calls that fail

ASSUME PollerConstants ==
    /\ Volumes \in Nat /\ First \in 1..Volumes /\ Chunks \in Nat \ {0} /\ LowCut \in 1..Chunks
    /\ Slots \in Nat /\ Slots > 3 /\ Replayed \in Nat \ {0}
    /\ Recent \in Nat /\ BackfillVolumes \in Nat /\ MaxFaults \in Nat
    /\ OfflineAfter \in Nat \ {0} /\ RestartAfter \in Nat \ {0}

Vols == 1..Volumes

VARIABLES
    \* the radar and the two buckets
    begun,       \* the newest volume
    uploaded,    \* how many of each volume's chunks are in its directory
    archived,    \* the newest volume in the archive bucket
    faults,      \* calls that have failed
    \* the poller
    phase,
    probe,       \* discovery: the archived volume, and slots looked at after it
    todo,        \* the chunks of the joined volume still to replay
    cursor,
    assembler,
    known,       \* start times catalogued or seen
    skipKnown,
    failures,
    backfill,    \* the backfill task: volumes to try and what it takes as known
    \* what was reported
    heard, base, back, filled,   \* see PollerSpec
    trouble,     \* the last Offline or Silent event, until the next sweep
    whole        \* starts of the sweeps in the catalog: cached, or reported complete

world == <<begun, uploaded, archived>>
vars == <<begun, uploaded, archived, faults, phase, probe, todo, cursor, assembler, known,
          skipKnown, failures, backfill, heard, base, back, filled, trouble, whole>>

-----------------------------------------------------------------------------
(* Directories and generations *)

SlotOf(v) == ((v - 1) % Slots) + 1
NextSlot(slot) == (slot % Slots) + 1

Listing(slot) == {v \in Vols : SlotOf(v) = slot /\ uploaded[v] > 0}

\* Mutant: leftovers of the slot's previous use count as a generation.
AnyGeneration(slot, after) == IF Listing(slot) = {} THEN 0 ELSE Max(Listing(slot))

\* generation: the newest volume of a directory that began after `after`.
Generation(slot, after) ==
    LET newer == {v \in Listing(slot) : v > after} IN IF newer = {} THEN 0 ELSE Max(newer)

-----------------------------------------------------------------------------
(* The assembler *)

NoCut == [vol |-> 0, cut |-> {}, done |-> FALSE]

\* A Start, or a chunk of another volume, discards the previous cut.
Base(a, v, c) == IF c = 1 \/ v # a.vol THEN [vol |-> v, cut |-> {}, done |-> FALSE] ELSE a

\* A chunk beyond the cut ends it, if any of it is in.
Changes(b, c) == ~b.done /\ (c <= LowCut \/ b.cut # {})

Feed(a, v, c) ==
    LET b == Base(a, v, c) IN
    IF ~Changes(b, c) THEN b
    ELSE [vol |-> v, cut |-> IF c <= LowCut THEN b.cut \cup {c} ELSE b.cut, done |-> c >= LowCut]

\* start_ms: the time of the first radial in the cut.
StartOf(a) == <<a.vol, Min(a.cut)>>
Seen(a) == IF a.cut = {} THEN {} ELSE {StartOf(a)}

-----------------------------------------------------------------------------
(* The cursor: the last chunk taken of a volume, and the last one queued. *)

At(v, taken, queued) ==
    [vol |-> v, seq |-> taken, ended |-> taken = Chunks, ready |-> queued, looked |-> FALSE]

NoFailures == [calls |-> 0, evidence |-> 0]
NoProbe == [after |-> 0, slot |-> 1, tried |-> 0]

\* Back to discovery: the cursor, the assembler and the failures end with the
\* loop they were made for.
StartOver ==
    /\ phase' = "finding"
    /\ cursor' = At(1, 0, 0) /\ assembler' = NoCut /\ failures' = NoFailures

-----------------------------------------------------------------------------
(* Reporting *)

Quiet == UNCHANGED <<heard, base, back, filled, trouble, whole>>

\* deliver: feed the chunk and report what changed, but not a known sweep
\* when the chunk is part of a filtered replay.
Deliver(v, c, filtered) ==
    LET a == Feed(assembler, v, c) IN
    /\ assembler' = a
    /\ IF ~Changes(Base(assembler, v, c), c) \/ (filtered /\ StartOf(a) \in known)
       THEN Quiet
       ELSE /\ trouble' = "none"
            /\ heard' = [t |-> v, done |-> a.done]
            /\ whole' = IF a.done THEN whole \cup {StartOf(a)} ELSE whole
            /\ UNCHANGED <<base, back, filled>>

\* A call fails, times out or is refused: the world's choice, MaxFaults times.
Fault == faults < MaxFaults /\ faults' = faults + 1

-----------------------------------------------------------------------------
(* Discovery: live_index::latest *)

\* last_archived and archived_slot.
FindArchived ==
    /\ phase = "finding"
    /\ archived # 0
    /\ probe' = [after |-> archived, slot |-> NextSlot(SlotOf(archived)), tried |-> 0]
    /\ phase' = "probing"
    /\ Quiet
    /\ UNCHANGED <<world, faults, todo, cursor, assembler, known, skipKnown, failures, backfill>>

\* An empty archive: Silent, and a back-off before the next try.
NothingArchived ==
    /\ phase = "finding" /\ archived = 0
    /\ trouble' = "silent"
    /\ UNCHANGED <<world, faults, phase, probe, todo, cursor, assembler, known, skipKnown,
                   failures, backfill, heard, base, back,
                   filled, whole>>

\* Discovery cannot be reached: Offline, and a back-off.
FindFails ==
    /\ phase \in {"finding", "probing"}
    /\ Fault
    /\ phase' = "finding" /\ probe' = NoProbe
    /\ trouble' = "offline"
    /\ UNCHANGED <<world, todo, cursor, assembler, known, skipKnown, failures, backfill,
                   heard, base, back,
                   filled, whole>>

\* prior_volumes: the last finished ones, none newer than the archived file.
Prior(after) == {v \in Vols : v <= after /\ v + BackfillVolumes > after}

\* The replay skips what cannot be fetched.
Fetched(ids) == IF faults < MaxFaults THEN SUBSET ids ELSE {ids}

\* poll, once a generation is found: the cursor is set at its newest chunk,
\* the chunks of its lowest cut and the newest are fetched, and the first
\* join starts the backfill.
Join(v) ==
    LET newest == uploaded[v]
        ids == {c \in 1..newest : c <= Replayed \/ c = newest}
    IN  /\ cursor' = At(v, newest, newest)
        /\ \E got \in Fetched(ids) :
              /\ todo' = got
              /\ faults' = IF got = ids THEN faults ELSE faults + 1
        /\ assembler' = NoCut
        /\ backfill' = IF base # 0 THEN backfill
                       ELSE [todo |-> Prior(probe.after), cached |-> known]
        /\ base' = IF base = 0 THEN v ELSE base
        /\ back' = (back \/ v < heard.t)
        /\ heard' = [heard EXCEPT !.done = FALSE]
        /\ phase' = "replaying"

\* pick_join: the first of the three slots after the archived one that holds
\* something newer; none of them doing so is Silent.
Probe ==
    /\ phase = "probing"
    /\ LET v == Generation(probe.slot, probe.after) IN
       IF v # 0
       THEN Join(v) /\ probe' = NoProbe /\ UNCHANGED trouble
       ELSE /\ IF probe.tried < 2
               THEN /\ probe' = [after |-> probe.after, slot |-> NextSlot(probe.slot),
                               tried |-> probe.tried + 1]
                    /\ UNCHANGED <<phase, trouble>>
               ELSE /\ trouble' = "silent"
                    /\ phase' = "finding" /\ probe' = NoProbe
            /\ UNCHANGED <<todo, cursor, assembler, backfill, heard, base, back, faults>>
    /\ UNCHANGED <<world, known, skipKnown, failures, filled, whole>>

-----------------------------------------------------------------------------
(* Replay *)

Replay ==
    /\ phase = "replaying" /\ todo # {}
    /\ todo' = todo \ {Min(todo)}
    /\ Deliver(cursor.vol, Min(todo), skipKnown)
    /\ UNCHANGED <<world, faults, phase, probe, cursor, known, skipKnown, failures, backfill>>

\* From here on what was replayed is known and replays are filtered.
Follow ==
    /\ phase = "replaying" /\ todo = {}
    /\ known' = known \cup Seen(assembler)
    /\ skipKnown' = TRUE
    /\ failures' = NoFailures
    /\ phase' = "following"
    /\ Quiet
    /\ UNCHANGED <<world, faults, probe, todo, cursor, assembler, backfill>>

-----------------------------------------------------------------------------
(* Following *)

Pending == cursor.seq < cursor.ready
More == ~cursor.ended /\ uploaded[cursor.vol] > cursor.seq
NextVolume == Generation(NextSlot(SlotOf(cursor.vol)), cursor.vol)

\* Cursor::next lists the current directory, unless its volume has ended ...
ListCurrent ==
    /\ phase = "following" /\ ~Pending /\ ~cursor.looked
    /\ cursor' = IF More THEN [cursor EXCEPT !.ready = uploaded[cursor.vol]]
                 ELSE [cursor EXCEPT !.looked = TRUE]
    /\ Quiet
    /\ UNCHANGED <<world, faults, phase, probe, todo, assembler, known, skipKnown, failures,
                   backfill>>

\* Mutant: the next directory is followed into whatever it holds.
ListNextLeftover ==
    /\ phase = "following" /\ cursor.looked
    /\ LET v == AnyGeneration(NextSlot(SlotOf(cursor.vol)), cursor.vol) IN
       cursor' = IF v = 0 THEN [cursor EXCEPT !.looked = FALSE] ELSE At(v, 0, uploaded[v])
    /\ Quiet
    /\ UNCHANGED <<world, faults, phase, probe, todo, assembler, known, skipKnown, failures,
                   backfill>>

\* ... and when that gave nothing the next one.  What reached the current
\* directory in between is passed over.
ListNext ==
    /\ phase = "following" /\ cursor.looked
    /\ cursor' = IF NextVolume = 0 THEN [cursor EXCEPT !.looked = FALSE]
                 ELSE At(NextVolume, 0, uploaded[NextVolume])
    /\ Quiet
    /\ UNCHANGED <<world, faults, phase, probe, todo, assembler, known, skipKnown, failures,
                   backfill>>

\* The next queued chunk is fetched and delivered.
FetchChunk ==
    /\ phase = "following" /\ Pending
    /\ LET c == cursor.seq + 1 IN
       /\ cursor' = [cursor EXCEPT !.seq = c, !.ended = c = Chunks]
       /\ Deliver(cursor.vol, c, FALSE)
    /\ known' = known \cup Seen(assembler')
    /\ failures' = NoFailures
    /\ UNCHANGED <<world, faults, phase, probe, todo, skipKnown, backfill>>

\* A call fails: evidence against the feed unless the connection was reset;
\* reported from OfflineAfter on, and at RestartAfter the poller starts over.
CallFails(reset) ==
    /\ phase = "following"
    /\ Fault
    /\ LET calls == failures.calls + 1
           evidence == failures.evidence + IF reset THEN 0 ELSE 1
       IN  /\ trouble' = IF evidence >= OfflineAfter THEN "offline" ELSE trouble
           /\ IF calls >= RestartAfter THEN StartOver
              ELSE /\ failures' = [calls |-> calls, evidence |-> evidence]
                   /\ cursor' = [cursor EXCEPT !.looked = FALSE]
                   /\ UNCHANGED <<phase, assembler>>
    /\ UNCHANGED <<world, probe, todo, known, skipKnown, backfill, heard, base, back, filled,
                   whole>>

\* Mutant: only calls that are too slow pass the deadline.
GoQuietWhenSlow ==
    /\ phase = "following"
    /\ Fault
    /\ StartOver
    /\ Quiet
    /\ UNCHANGED <<world, probe, todo, known, skipKnown, backfill>>

\* No recent chunk for QUIET_RESTART: there was none to fetch, the walk is
\* through volumes that are no longer recent, or the calls were too slow.
GoQuiet ==
    /\ phase = "following"
    /\ \/ ~Pending /\ ~More /\ NextVolume = 0 /\ UNCHANGED faults
       \/ cursor.vol + Recent < begun /\ UNCHANGED faults
       \/ Fault
    /\ StartOver
    /\ Quiet
    /\ UNCHANGED <<world, probe, todo, known, skipKnown, backfill>>

-----------------------------------------------------------------------------
(* Backfill *)

\* Mutant: what the session lists already is fetched again.
BackfillKnown ==
    /\ backfill.todo # {}
    /\ LET v == Max(backfill.todo) IN
       /\ backfill' = [todo |-> backfill.todo \ {v}, cached |-> backfill.cached]
       /\ filled' = filled \cup {v}
    /\ UNCHANGED <<faults, heard, base, back, trouble, whole>>
    /\ UNCHANGED <<world, phase, probe, todo, cursor, assembler, known, skipKnown, failures>>

\* The newest volume left: its lowest cut is reported when it is all there
\* and its start was not catalogued; a failed listing ends the backfill, a
\* failed chunk only this volume.
BackfillOne ==
    /\ backfill.todo # {}
    /\ LET v == Max(backfill.todo)
           rest == backfill.todo \ {v}
       IN  \/ /\ <<v, 1>> \notin backfill.cached /\ uploaded[v] >= LowCut
              /\ backfill' = [todo |-> rest, cached |-> backfill.cached]
              /\ filled' = filled \cup {v}
              /\ UNCHANGED <<faults, heard, base, back, trouble, whole>>
           \/ /\ <<v, 1>> \in backfill.cached \/ uploaded[v] < LowCut
              /\ backfill' = [todo |-> rest, cached |-> backfill.cached]
              /\ UNCHANGED faults
              /\ Quiet
           \/ /\ Fault
              /\ \E left \in {rest, {}} : backfill' = [todo |-> left, cached |-> backfill.cached]
              /\ Quiet
    /\ UNCHANGED <<world, phase, probe, todo, cursor, assembler, known, skipKnown, failures>>

-----------------------------------------------------------------------------
(* The radar *)

UnchangedPoller ==
    UNCHANGED <<faults, phase, probe, todo, cursor, assembler, known, skipKnown, failures,
                backfill, heard, base, back, filled, trouble, whole>>

\* A volume begins; one that the radar cut short may never be uploaded.  A
\* scan takes longer than a discovery may (START_TIMEOUT), and the archive
\* lags by two volumes at most.
Scan ==
    /\ phase # "probing"
    /\ begun > First => archived + 1 >= begun
    /\ \E v \in {begun + 1, begun + 2} \cap Vols : begun' = v
    /\ UNCHANGED <<uploaded, archived>>
    /\ UnchangedPoller

\* Chunks come in order; the last ones of a volume may be late.
Upload ==
    /\ \E v \in {begun - 1, begun} \cap Vols :
        /\ uploaded[v] < Chunks /\ (v < begun => uploaded[v] > 0)
        /\ uploaded' = [uploaded EXCEPT ![v] = @ + 1]
    /\ UNCHANGED <<begun, archived>>
    /\ UnchangedPoller

Archive ==
    /\ \E v \in Vols : /\ archived < v /\ v < begun /\ uploaded[v] > 0
                       /\ archived' = v
    /\ UNCHANGED <<begun, uploaded>>
    /\ UnchangedPoller

-----------------------------------------------------------------------------
\* The poller starts while volume First comes in, with the start times of the
\* station's listed frames; skip_known for a respawn.
Init ==
    /\ begun = First
    /\ uploaded = [v \in Vols |-> IF v < First THEN Chunks ELSE IF v = First THEN 1 ELSE 0]
    /\ archived \in {0, First - 1}
    /\ faults = 0
    /\ phase = "finding"
    /\ probe = NoProbe
    /\ todo = {} /\ cursor = At(1, 0, 0) /\ assembler = NoCut
    /\ known \in {{}, {<<First - 1, 1>>}}
    /\ skipKnown \in {FALSE, known # {}}
    /\ failures = NoFailures
    /\ backfill = [todo |-> {}, cached |-> {}]
    /\ heard = [t |-> 0, done |-> FALSE] /\ base = 0 /\ back = FALSE
    /\ filled = {} /\ trouble = "none"
    /\ whole = known

Step ==
    \/ FindArchived \/ Probe
    \/ Replay \/ Follow
    \/ ListCurrent \/ ListNext \/ FetchChunk

Next ==
    \/ Step
    \/ NothingArchived \/ FindFails
    \/ \E reset \in BOOLEAN : CallFails(reset)
    \/ GoQuiet
    \/ BackfillOne
    \/ Scan \/ Upload \/ Archive

Spec == Init /\ [][Next]_vars

\* The poller's calls are made when they can be, its deadline passes when
\* nothing comes, and a radar archives what it has finished.  Faults are
\* bounded, so that calls succeed in the end.
Fairness == WF_vars(Step) /\ WF_vars(GoQuiet) /\ WF_vars(Archive)

FairSpec == Spec /\ Fairness

-----------------------------------------------------------------------------
(* Properties *)

\* PollerSpec: what Engine assumes of a poller.
Promises == INSTANCE PollerSpec
ImplementsPromises == Promises!Spec

\* A sweep that is complete in the assembler of a poller that follows it has
\* been reported complete, or was catalogued before.
CompleteIsReported ==
    (phase = "following" /\ assembler.done) => StartOf(assembler) \in whole

\* Whatever fails, is lost or comes late, the poller gets to the newest
\* chunk of the newest volume.
ReachesNewest ==
    (begun = Volumes /\ uploaded[Volumes] > 0) ~>
        (cursor.vol = Volumes /\ cursor.seq = uploaded[Volumes])

\* No volume is backfilled under a start that a live sweep was reported with,
\* or twice.
BackfillIsNew ==
    \A v \in filled : <<v, 1>> \notin whole
=============================================================================

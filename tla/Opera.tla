-------------------------------- MODULE Opera -------------------------------
(***************************************************************************)
(* The OPERA poller (opera.rs): the newest composite at once, then a loop  *)
(* that asks for the newest every half minute, beside a task that fetches  *)
(* the dozen before it two at a time and sends them oldest first.          *)
(***************************************************************************)
EXTENDS GridFeed

CONSTANTS
    InFlight,   \* BACKFILL_IN_FLIGHT
    KnownCap    \* HISTORY_MAX * 4

ASSUME OperaConstants == InFlight \in Nat \ {0} /\ KnownCap \in Nat \ {0}

VARIABLES
    out,        \* the live task's message, while it waits for a slot
    task,       \* the backfill: "off", "listing", "loading", "done"
    targets,    \* composites it has not begun to fetch
    inflight,   \* those it has, oldest first, and how far they are
    seen        \* the known set it was started with

opera == <<out, task, targets, inflight, seen>>
operaVars == <<gridWorld, faults, feed, view, phase, known, opera>>

\* list_recent: today's directory, yesterday's when it is empty.
Recently == IF Today # {} THEN Today ELSE Yesterday

Remember(t) ==
    IF Cardinality(known \cup {t}) > KnownCap THEN {t} ELSE known \cup {t}

Say(kind, at) == out' = <<Message(kind, at)>>

-----------------------------------------------------------------------------
(* The live task *)

\* fetch_newest under START_TIMEOUT, and its decode.
FirstFetch ==
    /\ phase = "start"
    /\ phase' = "first"
    /\ LET newest == Newest(Recently) IN
       \/ /\ newest = 0
          /\ Say("silent", 0) /\ UNCHANGED <<known, faults>>
       \/ /\ newest # 0 /\ newest \notin bad
          /\ known' = known \cup {newest}
          /\ Say("frame", newest) /\ UNCHANGED faults
       \/ /\ IF newest # 0 /\ newest \in bad THEN UNCHANGED faults ELSE Fault
          /\ Say("offline", 0) /\ UNCHANGED known
    /\ UNCHANGED <<gridWorld, feed, view, task, targets, inflight, seen>>

\* load_newest: a composite is known before it is sent, and no answer is
\* awaited.  Nothing newer says nothing.
NextFetch ==
    /\ phase = "poll" /\ out = <<>>
    /\ LET newest == Newest(Recently) IN
       \/ /\ newest # 0 /\ newest \notin known \cup bad
          /\ known' = Remember(newest)
          /\ Say("frame", newest) /\ UNCHANGED faults
       \/ /\ IF newest \in bad THEN newest \notin known /\ UNCHANGED faults ELSE Fault
          /\ Say("offline", 0) /\ UNCHANGED known
    /\ UNCHANGED <<gridWorld, feed, view, phase, task, targets, inflight, seen>>

\* A slot is free; after the first message the backfill is spawned.
SendLive ==
    /\ out # <<>> /\ Free
    /\ Put(Head(out)) /\ out' = <<>>
    /\ phase' = "poll"
    /\ IF phase = "first" THEN task' = "listing" /\ seen' = known ELSE UNCHANGED <<task, seen>>
    /\ UNCHANGED <<gridWorld, faults, session, view, known, targets, inflight>>

-----------------------------------------------------------------------------
(* The backfill *)

\* A listing that fails ends it.
ListHistory ==
    /\ task = "listing"
    /\ \/ /\ targets' = NewestOf(Recently, MaxFrames) \ seen
          /\ task' = "loading" /\ UNCHANGED faults
       \/ Fault /\ task' = "done" /\ UNCHANGED targets
    /\ UNCHANGED <<gridWorld, feed, view, phase, known, out, inflight, seen>>

Begin ==
    /\ task = "loading" /\ targets # {} /\ Len(inflight) < InFlight
    /\ inflight' = Append(inflight, [at |-> Min(targets), load |-> "running"])
    /\ targets' = targets \ {Min(targets)}
    /\ UNCHANGED <<gridWorld, faults, feed, view, phase, known, out, task, seen>>

\* Loads end in any order.
Loaded ==
    /\ \E i \in 1..Len(inflight) :
        /\ inflight[i].load = "running"
        /\ \/ /\ inflight[i].at \notin bad /\ UNCHANGED faults
              /\ inflight' = [inflight EXCEPT ![i].load = "loaded"]
           \/ /\ IF inflight[i].at \in bad THEN UNCHANGED faults ELSE Fault
              /\ inflight' = [inflight EXCEPT ![i].load = "failed"]
    /\ UNCHANGED <<gridWorld, feed, view, phase, known, out, task, targets, seen>>

\* Full is in flight, or nothing more to begin: the oldest is joined.
Joining == task = "loading" /\ inflight # <<>> /\ (targets = {} \/ Len(inflight) = InFlight)

\* Mutant: whichever is loaded first is sent first.
JoinAny ==
    /\ Joining
    /\ \E i \in 1..Len(inflight) :
        /\ inflight[i].load = "loaded" /\ Free
        /\ Put(Message("backfill", inflight[i].at))
        /\ inflight' = SubSeq(inflight, 1, i - 1) \o SubSeq(inflight, i + 1, Len(inflight))
    /\ UNCHANGED <<gridWorld, faults, session, view, phase, known, out, task, targets, seen>>

JoinOldest ==
    /\ Joining
    /\ \/ /\ Head(inflight).load = "loaded" /\ Free
          /\ Put(Message("backfill", Head(inflight).at))
       \/ Head(inflight).load = "failed" /\ UNCHANGED <<queue, reserved, ack>>
    /\ inflight' = Tail(inflight)
    /\ UNCHANGED <<gridWorld, faults, session, view, phase, known, out, task, targets, seen>>

HistoryDone ==
    /\ task = "loading" /\ targets = {} /\ inflight = <<>>
    /\ task' = "done"
    /\ UNCHANGED <<gridWorld, faults, feed, view, phase, known, out, targets, inflight, seen>>

-----------------------------------------------------------------------------
NoTask == /\ out = <<>> /\ task = "off" /\ targets = {} /\ inflight = <<>> /\ seen = {}

\* AbortOnDrop: what the poller has in flight ends with it, and its
\* successor knows nothing.
OperaRestart ==
    /\ session <= MaxRestarts
    /\ session' = session + 1
    /\ known' = {} /\ phase' = "start"
    /\ out' = <<>> /\ task' = "off" /\ targets' = {} /\ inflight' = <<>> /\ seen' = {}
    /\ reserved' = FALSE /\ ack' = "none"
    /\ UNCHANGED <<gridWorld, faults, queue, view>>

OperaStep == FirstFetch \/ SendLive
OperaTask == ListHistory \/ Begin \/ Loaded \/ JoinOldest \/ HistoryDone
OperaNext == OperaStep \/ NextFetch \/ OperaTask \/ OperaRestart

-----------------------------------------------------------------------------
(* Properties *)

\* The backfill's composites reach the channel oldest first, in whatever
\* order their downloads end: none is sent while an older one is on its way.
BackfillInOrder ==
    [][queue' # queue /\ queue' # <<>> /\ queue'[1].kind = "backfill" /\ task' = "loading"
        => \A i \in 1..Len(inflight') : queue'[1].at < inflight'[i].at]_operaVars
=============================================================================

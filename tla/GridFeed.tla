------------------------------ MODULE GridFeed ------------------------------
(***************************************************************************)
(* What the two grid pollers share: the bucket they list, the channel of   *)
(* one message with its permits and acknowledgements (source.rs), and what *)
(* mosaic_events and accept_mosaic make of a message (main.rs).  A grid is *)
(* known by its observation time, 1 up to Times; those after Midnight are  *)
(* in the next day's directory.                                            *)
(***************************************************************************)
EXTENDS Integers, Sequences, FiniteSets, FiniteSetsExt

CONSTANTS
    Times,        \* bound: observations
    Midnight,     \* the last observation of the first day
    Window,       \* MRMS keeps an hour; OPERA's policy has no window
    MaxFrames,    \* the policy's max_frames
    Undecodable,  \* observations that may turn out not to decode
    MaxFaults,    \* bound: calls and publications that fail, or are too slow
    MaxRestarts   \* bound: restarts of the poller

ASSUME GridConstants ==
    /\ Times \in Nat \ {0} /\ Midnight \in 0..Times
    /\ Window \in Nat \ {0} /\ MaxFrames \in Nat \ {0}
    /\ Undecodable \subseteq 1..Times /\ MaxFaults \in Nat /\ MaxRestarts \in Nat

Obs == 1..Times

VARIABLES
    adapter,      \* the source selected: "mrms" or "opera"
    now, uploaded,\* the service: its clock and what it has published
    bad,          \* observations that do not decode
    faults,
    queue,        \* the channel
    reserved,     \* its slot is reserved by a permit
    session, ack, \* grid_session; the answer the sender of a message waits for
    stored, clock, status,  \* the timeline, frame_ms and connection status
    unshown,      \* stored, but the publication failed afterwards
    judged,       \* observations the session has judged
    phase, known  \* the poller

feed == <<queue, reserved, session, ack>>
view == <<stored, clock, status, unshown, judged>>
gridWorld == <<adapter, now, uploaded, bad>>

Newest(S) == IF S = {} THEN 0 ELSE Max(S)
\* (The bound T has TLC evaluate S once.)
NewestOf(S, n) == UNION {{t \in T : Cardinality({u \in T : u > t}) < n} : T \in {S}}

\* A call fails or is too slow: the world's choice, MaxFaults times.
Fault == faults < MaxFaults /\ faults' = faults + 1

-----------------------------------------------------------------------------
(* The bucket: a directory for each day *)

Today == {t \in uploaded : now > Midnight => t > Midnight}
Yesterday == {t \in uploaded : now > Midnight /\ t <= Midnight}
\* Mutant: the hour before the observation is forgotten.
CrossesAlone(t) == t <= Midnight
CrossesMidnight(t) == t - Window <= Midnight

-----------------------------------------------------------------------------
(* The channel *)

Free == queue = <<>> /\ ~reserved
Message(kind, at) == [session |-> session, kind |-> kind, at |-> at]

\* GridPermit::send: the message takes the slot and its answer is awaited.
Put(message) == queue' = <<message>> /\ reserved' = FALSE /\ ack' = "none"

-----------------------------------------------------------------------------
(* mosaic_events *)

PolicyWindow == IF adapter = "mrms" THEN Window ELSE Times + 1
Contains(t, newest) == t <= newest /\ t > newest - PolicyWindow

\* accept_mosaic's refusal: outside the window, or older than a full timeline.
Refused(t) ==
    \/ ~Contains(t, Max({clock, t}))
    \/ Cardinality(stored) >= MaxFrames /\ t < Min(stored)

Retained(S, newest) == NewestOf({t \in S : Contains(t, newest)}, MaxFrames)

SetStatus(s) == status' = s /\ UNCHANGED <<stored, clock, unshown, judged>>

\* A refusal and a duplicate are acknowledged; a frame that could not be
\* stored is not, nor one that was stored and could not be shown.
Accept(t, live) ==
    IF Refused(t) \/ t \in stored
    THEN /\ status' = IF ~Refused(t) /\ live /\ status = "loading" THEN "ok" ELSE status
         /\ judged' = judged \cup {t}
         /\ ack' = "true"
         /\ UNCHANGED <<stored, clock, unshown, faults>>
    ELSE \/ /\ Fault
            /\ ack' = "false"
            /\ status' = IF live THEN "offline" ELSE status
            /\ UNCHANGED <<stored, clock, unshown, judged>>
         \/ /\ clock' = Max({clock, t})
            /\ stored' = Retained(stored \cup {t}, clock')
            /\ judged' = judged \cup {t}
            /\ \/ /\ ack' = "true"
                  /\ status' = IF live THEN "ok" ELSE status
                  /\ UNCHANGED <<faults, unshown>>
               \/ /\ t = clock' /\ Fault
                  /\ ack' = "false"
                  /\ status' = IF live THEN "offline" ELSE status
                  /\ unshown' = unshown \cup {t}

\* A message of a poller that was replaced is dropped, its answer with it.
Receive ==
    /\ queue # <<>>
    /\ queue' = <<>>
    /\ LET m == Head(queue) IN
       IF m.session # session
       THEN UNCHANGED <<ack, view, faults>>
       ELSE \/ m.kind = "frame" /\ Accept(m.at, TRUE)
            \/ m.kind = "backfill" /\ Accept(m.at, FALSE)
            \/ /\ m.kind \in {"online", "offline", "silent"}
               /\ SetStatus(CASE m.kind = "online" -> "ok"
                              [] m.kind = "offline" -> "offline"
                              [] m.kind = "silent" -> "unavailable")
               /\ ack' = "true" /\ UNCHANGED faults
    /\ UNCHANGED <<gridWorld, reserved, session, phase, known>>

-----------------------------------------------------------------------------
(* The service: observations are published late, or never *)

Advance ==
    /\ now < Times /\ now' = now + 1
    /\ UNCHANGED <<adapter, uploaded, bad, faults, feed, view, phase, known>>

Publish ==
    /\ \E t \in 1..now \ uploaded : uploaded' = uploaded \cup {t}
    /\ UNCHANGED <<adapter, now, bad, faults, feed, view, phase, known>>

GridInit ==
    /\ adapter \in {"mrms", "opera"}
    /\ now \in Obs /\ uploaded \in SUBSET (1..now)
    /\ bad \in {{}, Undecodable}
    /\ faults = 0
    /\ queue = <<>> /\ reserved = FALSE /\ session = 1 /\ ack = "none"
    /\ stored = {} /\ clock = 0 /\ status = "loading"
    /\ unshown = {} /\ judged = {}
    /\ phase = "start" /\ known = {}
=============================================================================

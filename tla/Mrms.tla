-------------------------------- MODULE Mrms --------------------------------
(***************************************************************************)
(* The MRMS poller (mrms/live.rs): each poll reserves the channel's slot,  *)
(* sends the newest observation that decodes or a word on the feed, waits  *)
(* for the answer, and then fills the hour before it, newest first, one    *)
(* observation at a time until the next poll is due.                       *)
(***************************************************************************)
EXTENDS GridFeed

CONSTANT Fallback   \* FALLBACK_MAX: candidates tried for the newest

ASSUME MrmsConstants == Fallback \in Nat \ {0}

VARIABLES
    listing,    \* this poll's listing; ok, previous_read
    todo,       \* history still to load
    sent        \* the observation whose answer is awaited, 0 for none

mrms == <<listing, todo, sent>>
mrmsVars == <<gridWorld, faults, feed, view, phase, known, mrms>>

NoListing == [ok |-> FALSE, read |-> FALSE, objects |-> {}]

InHour(t, newest) == t <= newest /\ t > newest - Window
RetainKnown(K) == NewestOf({t \in K : t > Newest(K) - Window}, MaxFrames)

-----------------------------------------------------------------------------
(* The live observation *)

\* Mutant: a poll that finds nothing newer leaves the status alone.
NewestValidQuiet(candidates, lost) ==
    LET valid == {t \in candidates : \A k \in known : t > k} \ (bad \cup lost) IN
    IF valid # {} THEN Message("frame", Max(valid)) ELSE Message("none", 0)

\* newest_valid: of the candidates newer than all that is known the newest
\* that can be had; one that is no newer ends the search.
NewestValid(candidates, lost) ==
    LET newer == {t \in candidates : \A k \in known : t > k} IN
    IF newer \ (bad \cup lost) # {} THEN Message("frame", Max(newer \ (bad \cup lost)))
    ELSE IF candidates # newer THEN Message("online", 0)
    ELSE Message("offline", 0)

Candidates(objects, newest, n) == NewestOf({t \in objects : InHour(t, newest)}, n)

\* A poll that could list something: yesterday's directory is read too when
\* today's is empty, and when today's few are all bad just after midnight.
Found(lost, older) ==
    LET read == Today = {}
        objects == IF read THEN Yesterday ELSE Today
        newest == Newest(objects)
        first == NewestValid(Candidates(objects, newest, Fallback), lost)
        short == first.kind = "offline" /\ ~read /\ Cardinality(objects) < Fallback
                    /\ CrossesMidnight(newest)
        second == Candidates(older, newest, Fallback - Cardinality(objects))
    IN  IF objects = {} THEN [event |-> Message("silent", 0),
                              listing |-> [ok |-> TRUE, read |-> TRUE, objects |-> {}]]
        ELSE [event |-> IF short /\ second # {} THEN NewestValid(second, lost) ELSE first,
              listing |-> [ok |-> TRUE, read |-> read \/ short,
                           objects |-> IF short THEN objects \cup older ELSE objects]]

Poll ==
    /\ phase = "start" /\ Free
    /\ \/ \E lost \in {{}} \cup {{t} : t \in uploaded}, older \in {{}, Yesterday} :
            \E found \in {Found(lost, older)} :
            /\ IF lost = {} /\ older = Yesterday THEN UNCHANGED faults ELSE Fault
            /\ Put(found.event)
            /\ listing' = found.listing
            /\ sent' = IF found.event.kind = "frame" THEN found.event.at ELSE 0
       \/ /\ Fault
          /\ Put(Message("offline", 0))
          /\ listing' = NoListing /\ sent' = 0
    /\ phase' = "live"
    /\ UNCHANGED <<gridWorld, session, view, known, todo>>

\* Mutant: what was sent is known, whatever the answer.
AcknowledgedAnyway ==
    IF sent # 0 THEN RetainKnown(known \cup {sent}) ELSE known

\* An observation is known from its acknowledgement on.
Acknowledged ==
    IF ack = "true" /\ sent # 0 THEN RetainKnown(known \cup {sent}) ELSE known

-----------------------------------------------------------------------------
(* History *)

\* Mutant: the slots are counted without what is known.
HistoryUncounted(objects, K) ==
    IF K = {} THEN {}
    ELSE NewestOf({t \in objects \ K : InHour(t, Newest(K))}, MaxFrames)

\* history_candidates: what is missing of the newest MaxFrames of the hour,
\* counting what is known although a listing may omit it.
HistoryCandidates(objects, K) ==
    IF K = {} THEN {}
    ELSE RetainKnown(K \cup {t \in objects : InHour(t, Newest(K))}) \ K

\* The answer to the live message; then yesterday's directory if the hour
\* reaches into it, a failure of which costs only the history in it.
LiveAnswered ==
    /\ phase = "live" /\ ack # "none"
    /\ known' = Acknowledged
    /\ LET wanted == ~listing.read /\ CrossesMidnight(Newest(known')) IN
       IF ~listing.ok
       THEN phase' = "start" /\ todo' = {} /\ UNCHANGED faults
       ELSE /\ phase' = "history"
            /\ \/ /\ todo' = HistoryCandidates(
                        listing.objects \cup IF wanted THEN Yesterday ELSE {}, known')
                  /\ UNCHANGED faults
               \/ /\ wanted /\ Fault
                  /\ todo' = HistoryCandidates(listing.objects, known')
    /\ sent' = 0 /\ ack' = "none"
    /\ UNCHANGED <<gridWorld, queue, reserved, session, view, listing>>

\* The newest missing one: loaded and sent, or passed over when it cannot be.
Fill ==
    /\ phase = "history" /\ todo # {} /\ Free
    /\ todo' = todo \ {Max(todo)}
    /\ \/ /\ Max(todo) \notin bad
          /\ Put(Message("backfill", Max(todo)))
          /\ sent' = Max(todo) /\ phase' = "fill"
          /\ UNCHANGED faults
       \/ /\ IF Max(todo) \in bad THEN UNCHANGED faults ELSE Fault
          /\ UNCHANGED <<phase, queue, reserved, ack, sent>>
    /\ UNCHANGED <<gridWorld, session, view, known, listing>>

FillAnswered ==
    /\ phase = "fill" /\ ack # "none"
    /\ known' = Acknowledged
    /\ sent' = 0 /\ ack' = "none" /\ phase' = "history"
    /\ UNCHANGED <<gridWorld, faults, queue, reserved, session, view, listing, todo>>

\* The history is done, or the next poll is due before it is.
Sleep ==
    /\ phase = "history"
    /\ IF todo = {} THEN UNCHANGED faults ELSE Fault
    /\ phase' = "start" /\ todo' = {} /\ listing' = NoListing
    /\ UNCHANGED <<gridWorld, feed, view, known, sent>>

-----------------------------------------------------------------------------
\* restart_live: the poller is aborted wherever it is, its message stays in
\* the channel, and the next one starts with the timeline's observations.
MrmsRestart ==
    /\ session <= MaxRestarts
    /\ session' = session + 1
    /\ known' = RetainKnown(stored)
    /\ phase' = "start" /\ listing' = NoListing /\ todo' = {} /\ sent' = 0
    /\ reserved' = FALSE /\ ack' = "none"
    /\ UNCHANGED <<gridWorld, faults, queue, view>>

MrmsInit == listing = NoListing /\ todo = {} /\ sent = 0

MrmsStep == Poll \/ LiveAnswered \/ Fill \/ FillAnswered
MrmsNext == MrmsStep \/ Sleep \/ MrmsRestart

-----------------------------------------------------------------------------
(* Properties *)

\* What the poller takes as known is what the session has judged: an
\* observation whose publication failed is asked for again.
KnownIsJudged == adapter = "mrms" => known \subseteq judged

\* Nothing is downloaded for history that the timeline would turn away: it is
\* inside the hour, not older than a full timeline, and not there already.  (A
\* frame that was stored but could not be shown is not known to the poller.)
HistoryIsWanted ==
    adapter = "mrms" /\ unshown = {} =>
        \A i \in 1..Len(queue) :
            LET m == queue[i] IN
            m.kind = "backfill" /\ m.session = session =>
                ~Refused(m.at) /\ m.at \notin stored

\* In the end the timeline holds every observation of the hour before its
\* newest one that decodes, across midnight too, as far as it has room.
HourIsFilled ==
    adapter = "mrms" =>
        <>[](stored # {} =>
                \A t \in NewestOf({u \in uploaded : InHour(u, clock)}, MaxFrames) :
                    t \in stored \cup bad)

\* Once the feed can be reached, and its newest observation decodes, the
\* status says so.
FeedRecovers ==
    adapter = "mrms" =>
        <>[](uploaded = {} \/ Newest(uploaded) \in bad \/ status = "ok")
=============================================================================

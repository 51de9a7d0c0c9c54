------------------------------- MODULE Clients -------------------------------
(***************************************************************************)
(* The connections of main.rs: `client` registers a connection with a      *)
(* queue, a writer task and a reader task; `broadcast` puts each new state *)
(* in every queue and drops from the list a client whose queue is full.    *)
(* States are numbered in the order they come to be.                       *)
(***************************************************************************)
EXTENDS Integers, Sequences, FiniteSets, SequencesExt

CONSTANTS
    Connections,  \* each connects at most once
    QueueCap,     \* QUEUE
    ClientsMax,   \* 64
    MaxState,     \* bound: states
    MaxReplies    \* bound: commands that are answered

ASSUME ClientConstants ==
    /\ QueueCap \in Nat /\ QueueCap >= 2   \* hello and a snapshot must fit
    /\ ClientsMax \in Nat /\ MaxState \in Nat /\ MaxReplies \in Nat

Hello == -1
Reply == 0
Nothing == -2

VARIABLES
    version,    \* the state a snapshot would now give
    lastSent,   \* last_broadcast
    clients,    \* Shared.clients
    link,       \* each connection: "new", "up" or "down"
    outbox,     \* its queue
    writing,    \* what its writer has in hand
    writer,     \* its writer task: "none", "running" or "ended"
    stalled,    \* the peer has stopped reading
    seen,       \* the newest state the peer has read
    replies     \* commands answered

clientVars == <<version, lastSent, clients, link, outbox, writing, writer, stalled, seen, replies>>

\* mpsc try_send: refused when the queue is full or its receiver is gone.
Sendable(c) == writer[c] = "running" /\ Len(outbox[c]) < QueueCap

\* Past 64 clients a connection is closed unregistered.
Connect(c) ==
    /\ link[c] = "new" /\ Cardinality(clients) < ClientsMax
    /\ link' = [link EXCEPT ![c] = "up"]
    /\ outbox' = [outbox EXCEPT ![c] = <<Hello, version>>]
    /\ writer' = [writer EXCEPT ![c] = "running"]
    /\ clients' = clients \cup {c}
    /\ UNCHANGED <<version, lastSent, writing, stalled, seen, replies>>

\* The shared state, or the age a snapshot works out, moves on.
StateChanges ==
    /\ version < MaxState
    /\ version' = version + 1
    /\ UNCHANGED <<lastSent, clients, link, outbox, writing, writer, stalled, seen, replies>>

\* Mutant: a client with no room loses this state and stays in the list.
BroadcastLossy ==
    /\ version # lastSent
    /\ lastSent' = version
    /\ outbox' = [c \in Connections |->
                    IF c \in clients /\ Sendable(c) THEN Append(outbox[c], version)
                    ELSE outbox[c]]
    /\ UNCHANGED <<version, clients, link, writing, writer, stalled, seen, replies>>

\* Nothing is sent when nothing changed.
Broadcast ==
    /\ version # lastSent
    /\ lastSent' = version
    /\ outbox' = [c \in Connections |->
                    IF c \in clients /\ Sendable(c) THEN Append(outbox[c], version)
                    ELSE outbox[c]]
    /\ clients' = {c \in clients : Sendable(c)}
    /\ UNCHANGED <<version, link, writing, writer, stalled, seen, replies>>

\* The reader answers a rejected command on the client's own queue; when it
\* is full the answer is lost.
Command(c) ==
    /\ link[c] = "up" /\ ~stalled[c] /\ replies < MaxReplies
    /\ replies' = replies + 1
    /\ outbox' = IF Sendable(c) THEN [outbox EXCEPT ![c] = Append(@, Reply)] ELSE outbox
    /\ UNCHANGED <<version, lastSent, clients, link, writing, writer, stalled, seen>>

\* A message the writer has taken no longer holds a place in the queue.
Take(c) ==
    /\ writer[c] = "running" /\ writing[c] = Nothing /\ outbox[c] # <<>>
    /\ writing' = [writing EXCEPT ![c] = Head(outbox[c])]
    /\ outbox' = [outbox EXCEPT ![c] = Tail(@)]
    /\ UNCHANGED <<version, lastSent, clients, link, writer, stalled, seen, replies>>

\* Mutant: a writer that times out drops the message and takes the next.
WrittenOrDropped(c) ==
    /\ writing[c] # Nothing
    /\ writing' = [writing EXCEPT ![c] = Nothing]
    /\ seen' = IF ~stalled[c] /\ writing[c] > seen[c] THEN [seen EXCEPT ![c] = writing[c]] ELSE seen
    /\ UNCHANGED <<version, lastSent, clients, link, outbox, writer, stalled, replies>>

\* write_all: the peer reads the message, or WRITE_TIMEOUT ends the writer.
Written(c) ==
    /\ writing[c] # Nothing
    /\ writing' = [writing EXCEPT ![c] = Nothing]
    /\ IF stalled[c]
       THEN writer' = [writer EXCEPT ![c] = "ended"] /\ UNCHANGED seen
       ELSE /\ seen' = IF writing[c] > seen[c] THEN [seen EXCEPT ![c] = writing[c]] ELSE seen
            /\ UNCHANGED writer
    /\ UNCHANGED <<version, lastSent, clients, link, outbox, stalled, replies>>

Stall(c) ==
    /\ link[c] = "up" /\ stalled' = [stalled EXCEPT ![c] = ~@]
    /\ UNCHANGED <<version, lastSent, clients, link, outbox, writing, writer, seen, replies>>

\* The peer closes, or hears that the writer has shut its half: the reader
\* ends, the client leaves the list and the queue closes.  What is still
\* queued goes to nobody and is left out.
HangUp(c) ==
    /\ link[c] = "up"
    /\ link' = [link EXCEPT ![c] = "down"]
    /\ clients' = clients \ {c}
    /\ outbox' = [outbox EXCEPT ![c] = <<>>] /\ writing' = [writing EXCEPT ![c] = Nothing]
    /\ writer' = [writer EXCEPT ![c] = "none"] /\ stalled' = [stalled EXCEPT ![c] = FALSE]
    /\ seen' = [seen EXCEPT ![c] = 0]
    /\ UNCHANGED <<version, lastSent, replies>>

ClientsInit ==
    /\ version = 1 /\ lastSent = 0 /\ clients = {}
    /\ link = [c \in Connections |-> "new"] /\ outbox = [c \in Connections |-> <<>>]
    /\ writing = [c \in Connections |-> Nothing] /\ writer = [c \in Connections |-> "none"]
    /\ stalled = [c \in Connections |-> FALSE] /\ seen = [c \in Connections |-> 0]
    /\ replies = 0

ClientsNext ==
    \/ Broadcast \/ StateChanges
    \/ \E c \in Connections :
        Connect(c) \/ Command(c) \/ Take(c) \/ Written(c) \/ Stall(c) \/ HangUp(c)

ClientsSpec == ClientsInit /\ [][ClientsNext]_clientVars

-----------------------------------------------------------------------------
(* Properties *)

\* A client in the list is never left behind: what it has read, what its
\* writer holds and what is queued for it reach the last state broadcast,
\* unless its writer has given it up.  One that lost a state for want of room
\* is out of the list, so a gap in the states is never followed by silence.
ListedIsCurrent ==
    \A c \in clients : writer[c] = "running" =>
        \E v \in {seen[c], writing[c]} \cup ToSet(outbox[c]) : v >= lastSent

\* A reader that keeps reading sees the state settle on the newest one,
\* however others stall, as long as it is in the list.
FreshInTheEnd ==
    \A c \in Connections :
        []<>(c \in clients => stalled[c] \/ writer[c] = "ended" \/ seen[c] = version)
=============================================================================

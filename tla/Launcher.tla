------------------------------ MODULE Launcher ------------------------------
(***************************************************************************)
(* Starting and stopping the daemon (main.rs): `serve` takes engine.lock,  *)
(* clears a leftover socket, binds its own and answers with a hello;       *)
(* `ensure` wants a daemon of its own build there, ends one of another     *)
(* build and starts its own; `stop` ends whichever answers.                *)
(***************************************************************************)
EXTENDS Integers, FiniteSets

CONSTANTS
    Launchers,   \* processes that run `ensure` or `stop`
    Pids,        \* bound: the daemons there can be
    MaxCrashes,  \* bound: daemons that die by themselves
    MaxLate,     \* bound: deadlines of ensure that pass
    MaxRaces     \* bound: daemons that try the lock while a launcher probes it

Builds == {"new", "old", "stop"}   \* "stop" for a launcher that wants none
Free == 0

ASSUME LauncherConstants ==
    /\ Pids \subseteq Nat \ {Free} /\ 1 \in Pids   \* the one that may be serving
    /\ Launchers \cap Pids = {} /\ Free \notin Launchers
    /\ MaxCrashes \in Nat /\ MaxLate \in Nat /\ MaxRaces \in Nat

VARIABLES
    crashes, late, races,
    build,       \* what each launcher wants, and the build of each daemon
    lock,        \* who holds engine.lock: a daemon, a launcher that probes it, or Free
    socket,      \* the daemon that bound engine.sock, dead or not, or Free
    daemon,      \* each daemon: "none", "start", "locked", "clear", "bound", "serving",
                 \* "dying" or "dead"
    at,          \* where each launcher is
    told,        \* the daemon it last sent SIGTERM, or Free
    child        \* the daemon it started last, or Free

launcherVars == <<crashes, late, races, build, lock, socket, daemon, at, told, child>>
fates == <<crashes, late, races>>

Alive(d) == daemon[d] \notin {"none", "dead"}
Accepting == socket # Free /\ daemon[socket] \in {"bound", "serving", "dying"}
Answering == socket # Free /\ daemon[socket] \in {"serving", "dying"}
Becomes(d, phase) == daemon' = [daemon EXCEPT ![d] = phase]
Goes(l, place) == at' = [at EXCEPT ![l] = place]
Released(d) == IF lock = d THEN Free ELSE lock

-----------------------------------------------------------------------------
(* serve *)

\* Mutant: the leftover socket is cleared before the lock is held.
TryLockClearing(d) ==
    /\ daemon[d] = "start" /\ (lock \in Launchers => races < MaxRaces)
    /\ socket' = Free
    /\ races' = IF lock \in Launchers THEN races + 1 ELSE races
    /\ IF lock = Free THEN lock' = d /\ Becomes(d, "locked")
                      ELSE UNCHANGED lock /\ Becomes(d, "dead")
    /\ UNCHANGED <<crashes, late, build, at, told, child>>

\* "Engine already running": a daemon that finds the lock held, were it only
\* by a launcher's probe, ends.
TryLock(d) ==
    /\ daemon[d] = "start" /\ (lock \in Launchers => races < MaxRaces)
    /\ races' = IF lock \in Launchers THEN races + 1 ELSE races
    /\ IF lock = Free THEN lock' = d /\ Becomes(d, "locked")
                      ELSE UNCHANGED lock /\ Becomes(d, "dead")
    /\ UNCHANGED <<crashes, late, build, socket, at, told, child>>

ClearSocket(d) ==
    /\ daemon[d] = "locked"
    /\ socket' = Free /\ Becomes(d, "clear")
    /\ UNCHANGED <<fates, build, lock, at, told, child>>

Bind(d) ==
    /\ daemon[d] = "clear"
    /\ IF socket = Free THEN socket' = d /\ Becomes(d, "bound") /\ UNCHANGED lock
                        ELSE UNCHANGED socket /\ Becomes(d, "dead") /\ lock' = Free
    /\ UNCHANGED <<fates, build, at, told, child>>

\* The accept loop runs, so that a connection is answered with a hello.
Greets(d) ==
    /\ daemon[d] = "bound" /\ Becomes(d, "serving")
    /\ UNCHANGED <<fates, build, lock, socket, at, told, child>>

\* SIGTERM takes its effect; the system releases the lock, the socket stays.
Dies(d) ==
    /\ daemon[d] = "dying" /\ Becomes(d, "dead") /\ lock' = Released(d)
    /\ UNCHANGED <<fates, build, socket, at, told, child>>

Crash(d) ==
    /\ Alive(d) /\ crashes < MaxCrashes
    /\ crashes' = crashes + 1 /\ Becomes(d, "dead") /\ lock' = Released(d)
    /\ UNCHANGED <<late, races, build, socket, at, told, child>>

-----------------------------------------------------------------------------
(* ensure and stop *)

\* Where `ensure` goes when nothing answers: it starts a daemon, later looks
\* after it; `stop` has nothing to do.
Unanswered(l) ==
    IF build[l] = "stop" THEN "done" ELSE IF child[l] = Free THEN "spawn" ELSE "child"

Ends(l, d) ==
    Becomes(d, "dying") /\ told' = [told EXCEPT ![l] = d] /\ Goes(l, "wait")

\* Mutant: a daemon the launcher did not start itself is ended.
LookOwn(l) ==
    /\ at[l] = "look"
    /\ IF ~Answering THEN UNCHANGED <<daemon, told>> /\ Goes(l, Unanswered(l))
       ELSE IF socket = child[l]
            THEN UNCHANGED <<daemon, told>> /\ Goes(l, "done")
            ELSE Ends(l, socket)
    /\ UNCHANGED <<fates, build, lock, socket, child>>

\* handshake and ready: only a hello counts, and a daemon of another build is
\* sent SIGTERM.
Look(l) ==
    /\ at[l] = "look"
    /\ IF ~Answering THEN UNCHANGED <<daemon, told>> /\ Goes(l, Unanswered(l))
       ELSE IF build[socket] = build[l]
            THEN UNCHANGED <<daemon, told>> /\ Goes(l, "done")
            ELSE Ends(l, socket)
    /\ UNCHANGED <<fates, build, lock, socket, child>>

\* Mutant: ensure waits for a child that has exited.
ProbeWaiting(l) ==
    /\ lock = Free /\ at[l] = "wait" /\ ~Accepting /\ Goes(l, "waited")
    /\ lock' = l
    /\ UNCHANGED <<fates, build, socket, daemon, told, child>>

\* lock_is_free takes the lock for a moment, in terminate once the socket
\* refuses, in ensure once the child has exited.
Probe(l) ==
    /\ lock = Free
    /\ \/ at[l] = "wait" /\ ~Accepting /\ Goes(l, "waited")
       \/ at[l] = "child" /\ ~Alive(child[l]) /\ Goes(l, "probed")
    /\ lock' = l
    /\ UNCHANGED <<fates, build, socket, daemon, told, child>>

ProbeEnds(l) ==
    /\ at[l] \in {"waited", "probed"}
    /\ lock' = Free
    /\ Goes(l, IF at[l] = "waited" THEN Unanswered(l) ELSE "spawn")
    /\ UNCHANGED <<fates, build, socket, daemon, told, child>>

\* The child lives, or the lock is taken: look again.
LoopOn(l) ==
    /\ at[l] = "child" /\ (Alive(child[l]) \/ lock # Free)
    /\ Goes(l, "look")
    /\ UNCHANGED <<fates, build, lock, socket, daemon, told, child>>

Spawn(l) ==
    /\ at[l] = "spawn"
    /\ \E d \in Pids :
        /\ daemon[d] = "none" /\ \A e \in Pids : e < d => daemon[e] # "none"
        /\ Becomes(d, "start") /\ build' = [build EXCEPT ![d] = build[l]]
        /\ child' = [child EXCEPT ![l] = d]
    /\ Goes(l, "look")
    /\ UNCHANGED <<fates, lock, socket, told>>

\* terminate gives up, and its caller with it, when a look after 2 s still
\* finds a daemon or the lock taken.
TerminateDeadline(l) ==
    /\ at[l] = "wait" /\ (Accepting \/ lock # Free) /\ Goes(l, "failed")
    /\ UNCHANGED <<fates, build, lock, socket, daemon, told, child>>

\* ensure gives up after 10 s and kills its child.
EnsureDeadline(l) ==
    /\ late < MaxLate /\ late' = late + 1
    /\ at[l] = "look" /\ child[l] # Free /\ Goes(l, "failed")
    /\ Becomes(child[l], "dead") /\ lock' = Released(child[l])
    /\ UNCHANGED <<crashes, races, build, socket, told, child>>

\* A daemon of the old build may be serving.
LauncherInit ==
    /\ crashes = 0 /\ late = 0 /\ races = 0
    /\ build \in {b \in [Launchers \cup Pids -> Builds] : \A d \in Pids : b[d] = "old"}
    /\ socket \in {Free, 1} /\ lock = socket
    /\ daemon = [d \in Pids |-> IF d = socket THEN "serving" ELSE "none"]
    /\ at = [l \in Launchers |-> "look"] /\ child = [l \in Launchers |-> Free]
    /\ told = [l \in Launchers |-> Free]

DaemonStep(d) == TryLock(d) \/ ClearSocket(d) \/ Bind(d) \/ Greets(d) \/ Dies(d)
LauncherStep(l) ==
    Look(l) \/ Probe(l) \/ ProbeEnds(l) \/ LoopOn(l) \/ Spawn(l) \/ TerminateDeadline(l)

LauncherNext ==
    \/ \E d \in Pids : DaemonStep(d) \/ Crash(d)
    \/ \E l \in Launchers : LauncherStep(l) \/ EnsureDeadline(l)

LauncherSpec == LauncherInit /\ [][LauncherNext]_launcherVars

-----------------------------------------------------------------------------
(* Properties *)

\* The daemon that holds the lock is the one the socket leads to, from its
\* bind to its end: no daemon that starts, and none that is told to go, takes
\* the socket away from it, and no two serve.
SocketIsOwners ==
    \A d \in Pids : daemon[d] \in {"bound", "serving", "dying"} => lock = d /\ socket = d

OutOfPids(l) == at[l] = "spawn" /\ \A d \in Pids : daemon[d] # "none"
SameBuild == \A k, l \in Launchers : build[k] = build[l]

\* What a launch reported ready is not undone by another launch of the same
\* build: while no daemon crashes, ensure's deadline does not pass and nobody
\* asks for another build or a stop, a daemon of the build goes on serving.
ReadyLasts ==
    crashes = 0 /\ late = 0 /\ SameBuild =>
        \A l \in Launchers : at[l] = "done" /\ build[l] # "stop" =>
            \E d \in Pids : daemon[d] = "serving" /\ socket = d /\ build[d] = build[l]

\* Launches of one build all end, ready unless they gave up on a deadline: a
\* daemon that lost the lock to a probe, or to one that was ending, is started
\* again.
EnsureAnswers ==
    \A l \in Launchers :
        SameBuild /\ at[l] # "look" ~> at[l] \in {"done", "failed"} \/ OutOfPids(l)

\* "Engine (PID {pid}) did not stop within 2 s": when terminate gives up on a
\* socket that answers, the daemon the error names has not stopped.
StopErrorIsTrue ==
    [][\A l \in Launchers :
        at[l] = "wait" /\ at'[l] = "failed" /\ Accepting => Alive(told[l])]_launcherVars
=============================================================================

------------------------------ MODULE MCDaemon ------------------------------
(***************************************************************************)
(* The parts of the daemon that do not touch one another, in one run: the  *)
(* initial state says which part moves, and the others rest.               *)
(***************************************************************************)
EXTENDS Clients, Launcher, Retirement, Catalog, Feed, Covering, SweepTexture, Timeline

VARIABLE part

\* Two mosaics of one rank, one of them round the date line, and a better one.
Overlapping ==
    {[west |-> 0, east |-> 40, product |-> 1, priority |-> 1, id |-> 1],
     [west |-> 30, east |-> 4, product |-> 1, priority |-> 1, id |-> 2],
     [west |-> 36, east |-> 44, product |-> 2, priority |-> 0, id |-> 3]}
Places == 0..44

\* Two classes, the last bound above both.
Bands == <<3, 5, 9>>

daemonVars == <<part, clientVars, launcherVars, retireVars, catalogVars, feedVars, coveringVars,
                sweepVars, vars>>

DaemonInit ==
    /\ part \in {"clients", "launcher", "retirement", "catalog", "feed", "covering", "sweep",
                "timeline"}
    /\ ClientsInit /\ LauncherInit /\ RetireInit /\ CatalogInit /\ FeedInit /\ CoveringInit
    /\ SweepInit /\ Init
    /\ part # "launcher" => socket = Free /\ \A l \in Launchers : build[l] = "new"
    /\ part # "covering" => centre = 0
    /\ part # "timeline" => stored = <<>>

DaemonNext ==
    /\ UNCHANGED part
    /\ \/ /\ part = "clients" /\ ClientsNext
          /\ UNCHANGED <<launcherVars, retireVars, catalogVars, feedVars, coveringVars, sweepVars, vars>>
       \/ /\ part = "launcher" /\ LauncherNext
          /\ UNCHANGED <<clientVars, retireVars, catalogVars, feedVars, coveringVars, sweepVars, vars>>
       \/ /\ part = "retirement" /\ RetireNext
          /\ UNCHANGED <<clientVars, launcherVars, catalogVars, feedVars, coveringVars, sweepVars, vars>>
       \/ /\ part = "catalog" /\ CatalogNext
          /\ UNCHANGED <<clientVars, launcherVars, retireVars, feedVars, coveringVars, sweepVars, vars>>
       \/ /\ part = "feed" /\ FeedNext
          /\ UNCHANGED <<clientVars, launcherVars, retireVars, catalogVars, coveringVars, sweepVars, vars>>
       \/ /\ part = "covering" /\ CoveringNext
          /\ UNCHANGED <<clientVars, launcherVars, retireVars, catalogVars, feedVars, sweepVars, vars>>
       \/ /\ part = "sweep" /\ SweepNext
          /\ UNCHANGED <<clientVars, launcherVars, retireVars, catalogVars, feedVars, coveringVars,
                         vars>>
       \/ /\ part = "timeline" /\ Next
          /\ UNCHANGED <<clientVars, launcherVars, retireVars, catalogVars, feedVars, coveringVars,
                         sweepVars>>

\* Broadcast runs once a second and the writers run: a message is read or
\* times out.  The launchers run, and so do the daemons they start.
DaemonSpec ==
    /\ DaemonInit /\ [][DaemonNext]_daemonVars
    /\ WF_clientVars(part = "clients" /\ Broadcast)
    /\ \A c \in Connections :
        WF_clientVars(part = "clients" /\ Take(c)) /\ WF_clientVars(part = "clients" /\ Written(c))
    /\ \A d \in Pids : WF_launcherVars(part = "launcher" /\ DaemonStep(d))
    /\ \A l \in Launchers : WF_launcherVars(part = "launcher" /\ LauncherStep(l))
=============================================================================

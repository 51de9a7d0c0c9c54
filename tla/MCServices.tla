----------------------------- MODULE MCServices -----------------------------
\* The two services that answer a client's requests from the network, in one
\* run: the initial state says which one is asked, and the other rests.
EXTENDS Tiles, Metar

VARIABLE service

\* An airport the user lists twice, and one that does not report.
Home == <<3, 3, 9, 4>>

\* One looks about, beside its radar; the other sees part of that and more.
Views == [c \in Askers |-> IF c = "a1" THEN {2, 3} ELSE {3, 5}]

servicesVars == <<service, tilesVars, metarVars>>

ServicesInit ==
    /\ service \in {"tiles", "metar"}
    /\ TilesInit /\ MetarInit
    /\ service = "metar" => cached = <<>>

ServicesNext ==
    /\ UNCHANGED service
    /\ \/ service = "tiles" /\ TilesNext /\ UNCHANGED metarVars
       \/ service = "metar" /\ MetarNext /\ UNCHANGED tilesVars

\* Tasks run, GETs end, permits are given in turn (tokio's semaphore is a
\* queue), time passes and METAR's fetches end; nobody has to ask.
ServicesSpec ==
    /\ ServicesInit /\ [][ServicesNext]_servicesVars
    /\ \A c \in Users :
        /\ WF_tilesVars(service = "tiles" /\ TaskStep(c))
        /\ SF_tilesVars(service = "tiles" /\ Permit(c))
    /\ WF_tilesVars(service = "tiles" /\ Expire)
    /\ WF_metarVars(service = "metar" /\ MetarStep)
=============================================================================

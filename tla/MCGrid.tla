------------------------------- MODULE MCGrid -------------------------------
\* Both grid pollers in one run: the initial state says which is selected, and
\* the other one's variables rest.
EXTENDS Mrms, Opera

gridVars == <<gridWorld, faults, feed, view, phase, known, mrms, opera>>

\* MRMS starts on an empty bucket, OPERA with a history to fetch.
Init ==
    /\ adapter \in {"mrms", "opera"}
    /\ now = IF adapter = "mrms" THEN 1 ELSE Times - 1
    /\ uploaded = IF adapter = "mrms" THEN {} ELSE 1..now
    /\ GridInit /\ MrmsInit /\ NoTask

Next ==
    \/ (Receive \/ Advance \/ Publish) /\ UNCHANGED <<mrms, opera>>
    \/ adapter = "mrms" /\ MrmsNext /\ UNCHANGED opera
    \/ adapter = "opera" /\ OperaNext /\ UNCHANGED mrms

\* From any state of the bucket and its clock.
Spec == GridInit /\ MrmsInit /\ NoTask /\ [][Next]_gridVars

\* The tasks run, and MRMS sleeps when its history is done.
FairSpec ==
    /\ Init /\ [][Next]_gridVars
    /\ WF_gridVars(Receive /\ UNCHANGED <<mrms, opera>>)
    /\ WF_gridVars(adapter = "mrms" /\ (MrmsStep \/ (todo = {} /\ Sleep)) /\ UNCHANGED opera)
    /\ WF_gridVars(adapter = "opera" /\ (OperaStep \/ OperaTask) /\ UNCHANGED mrms)
=============================================================================

----------------------------- MODULE Retirement -----------------------------
(***************************************************************************)
(* Retired textures (main.rs): once a second `cleanup` deletes the files   *)
(* under tex/ that neither the state nor the mosaic ring has named for     *)
(* RETIRE_AFTER.  Every publication has a name of its own.                 *)
(***************************************************************************)
EXTENDS Integers, Sequences, FiniteSets, SequencesExt

CONSTANTS
    RetireAfter,      \* RETIRE_AFTER, in seconds
    MosaicRing,       \* frames the mosaic ring keeps
    TextureBudget,    \* texture_bytes_max, in mosaics
    MaxTextures,      \* bound: publications
    MaxSeconds,       \* bound: the clock
    MaxRestartsOfAll  \* bound: daemons that end and start again

ASSUME RetirementConstants ==
    /\ RetireAfter \in Nat \ {0} /\ MosaicRing \in Nat \ {0} /\ TextureBudget \in Nat
    /\ MaxTextures \in Nat /\ MaxSeconds \in Nat /\ MaxRestartsOfAll \in Nat

Textures == 1..MaxTextures
Unseen == -1

VARIABLES
    second, cleaned, restartsOfAll,
    published,     \* how many files have been published
    present,       \* the files under tex/
    ofMosaics,     \* those published that are named after the source
    onScreen,      \* the file the state names, if any
    mosaicRing,    \* Shared.mosaic
    unreferenced,  \* Retirement.unreferenced: since when, or Unseen
    started,       \* history: when this daemon started
    served         \* history: when each file was last named, or Unseen

retireVars == <<second, cleaned, restartsOfAll, published, present, ofMosaics, onScreen,
                mosaicRing, unreferenced, started, served>>

Named == onScreen \cup ToSet(mosaicRing)
Kept(ring) == IF Len(ring) > MosaicRing THEN Tail(ring) ELSE ring

\* The files named now are served now.
Serves(names) == served' = [f \in Textures |-> IF f \in names THEN second ELSE served[f]]

New == published + 1
Publishes ==
    /\ published < MaxTextures
    /\ published' = New /\ present' = present \cup {New}
    /\ UNCHANGED <<second, cleaned, restartsOfAll, unreferenced, started>>

\* A polar frame is shown, or another source is: the ring is empty then.
ShowPolar ==
    /\ Publishes /\ UNCHANGED ofMosaics
    /\ onScreen' = {New} /\ mosaicRing' = <<>> /\ Serves(Named \cup {New})

\* check_texture_budget: the source's files count until they are deleted.
InBudget == Cardinality(present \cap ofMosaics) < TextureBudget

\* A mosaic joins the ring, and takes the screen or not.  One that does not
\* fit beside what is there is refused, and nothing changes.
StoreMosaic ==
    /\ InBudget
    /\ Publishes /\ ofMosaics' = ofMosaics \cup {New}
    /\ mosaicRing' = Kept(Append(mosaicRing, New))
    /\ onScreen' \in {onScreen, {New}}
    /\ Serves(Named \cup {New})

\* Playback shows a mosaic under the name it has.
StepToMosaic ==
    /\ \E f \in ToSet(mosaicRing) : onScreen' = {f}
    /\ Serves(Named)
    /\ UNCHANGED <<second, cleaned, restartsOfAll, published, present, ofMosaics, mosaicRing,
                   unreferenced, started>>

\* Retirement::sweep on the files that are not in `referenced`.
Sweep(referenced) ==
    LET since == [f \in present \ referenced |->
                    IF unreferenced[f] = Unseen THEN second ELSE unreferenced[f]]
        expired == {f \in DOMAIN since : second - since[f] >= RetireAfter}
    IN
    /\ unreferenced' = [f \in Textures |->
                          IF f \in DOMAIN since \ expired THEN since[f] ELSE Unseen]
    /\ present' = present \ expired

\* Mutant: only the state's own files count as named.
CleanupOfScreen ==
    /\ ~cleaned /\ cleaned' = TRUE
    /\ Sweep(onScreen)
    /\ UNCHANGED <<second, restartsOfAll, published, ofMosaics, onScreen, mosaicRing, started,
                   served>>

Cleanup ==
    /\ ~cleaned /\ cleaned' = TRUE
    /\ Sweep(Named)
    /\ UNCHANGED <<second, restartsOfAll, published, ofMosaics, onScreen, mosaicRing, started,
                   served>>

\* The interval is due each second; cleanup runs before the next is.
Second ==
    /\ cleaned /\ second < MaxSeconds
    /\ second' = second + 1 /\ cleaned' = FALSE
    /\ served' = [f \in Textures |-> IF f \in Named THEN second + 1 ELSE served[f]]
    /\ UNCHANGED <<restartsOfAll, published, present, ofMosaics, onScreen, mosaicRing,
                   unreferenced, started>>

\* The daemon dies and another starts: the files stay, what is known of them
\* does not.
RestartAll ==
    /\ restartsOfAll < MaxRestartsOfAll /\ restartsOfAll' = restartsOfAll + 1
    /\ onScreen' = {} /\ mosaicRing' = <<>> /\ unreferenced' = [f \in Textures |-> Unseen]
    /\ started' = second /\ cleaned' = FALSE
    /\ UNCHANGED <<second, published, present, ofMosaics, served>>

RetireInit ==
    /\ second = 0 /\ cleaned = FALSE /\ restartsOfAll = 0 /\ published = 0 /\ present = {}
    /\ ofMosaics = {}
    /\ onScreen = {} /\ mosaicRing = <<>> /\ started = 0
    /\ unreferenced = [f \in Textures |-> Unseen] /\ served = [f \in Textures |-> Unseen]

RetireNext == ShowPolar \/ StoreMosaic \/ StepToMosaic \/ Cleanup \/ Second \/ RestartAll

RetireSpec == RetireInit /\ [][RetireNext]_retireVars

-----------------------------------------------------------------------------
(* Properties *)

\* A file stays for RETIRE_AFTER after the last state that named it, so that
\* a window that is late to open it finds it, and so does one that heard of
\* it from a daemon that has died since.
GraceKept ==
    \A f \in Textures :
        served[f] # Unseen /\ second - served[f] < RetireAfter => f \in present

\* And no longer: a file nobody names is gone once RETIRE_AFTER has passed
\* since a cleanup of this daemon could first see it so.
NoneLeaks ==
    \A f \in present \ Named :
        cleaned => second - (IF served[f] > started THEN served[f] ELSE started) <= RetireAfter

FilesServeTheirTime == GraceKept /\ NoneLeaks
=============================================================================

------------------------------- MODULE Catalog -------------------------------
(***************************************************************************)
(* The frame catalog (catalog.rs), for one station: a row for each frame   *)
(* in SQLite and two files beside it.  `store` runs on the blocking pool,  *)
(* `evict_before` and `load` on the daemon's thread; the connection's lock *)
(* covers the rows and the removals, not the files written and read.       *)
(* A frame is its start time.                                              *)
(***************************************************************************)
EXTENDS Integers, FiniteSets, FiniteSetsExt

CONSTANTS
    RingSize,     \* RING
    Lifetime,     \* TTL_MS, in clock units
    MaxClock,     \* bound: the clock
    MaxStores,    \* bound: frames stored
    MaxMishaps    \* bound: file errors and crashes

ASSUME CatalogConstants ==
    /\ RingSize \in Nat \ {0} /\ Lifetime \in Nat
    /\ MaxClock \in Nat /\ MaxStores \in Nat /\ MaxMishaps \in Nat

Starts == 1..MaxClock
FileKinds == {"sweep", "azlut"}
AtRest == [phase |-> "idle"]

VARIABLES
    clock, stores, mishaps,
    rows,      \* the frames in the table
    disk,      \* the files, as pairs of a frame and a kind
    storing,   \* where `store` is, and its frame
    removal,   \* what holds the lock to remove: whose it is, the frames left,
               \* the files left of the last one
    loading,   \* where `load` is, and its frame
    cutoff     \* history: the latest an eviction has used

catalogVars == <<clock, stores, mishaps, rows, disk, storing, removal, loading, cutoff>>

Unlocked == removal.phase = "idle"
FilesOf(t) == {t} \X FileKinds

-----------------------------------------------------------------------------
(* store *)

Store(t) ==
    /\ storing = AtRest /\ stores < MaxStores /\ t <= clock
    /\ stores' = stores + 1
    /\ storing' = [phase |-> "files", frame |-> t, left |-> FileKinds]
    /\ UNCHANGED <<clock, mishaps, rows, disk, removal, loading, cutoff>>

\* By temp-and-rename: a file is there whole or not at all.
WriteFile ==
    /\ storing.phase = "files"
    /\ \E kind \in storing.left :
        /\ disk' = disk \cup {<<storing.frame, kind>>}
        /\ storing' = [storing EXCEPT !.left = @ \ {kind}]
    /\ UNCHANGED <<clock, stores, mishaps, rows, removal, loading, cutoff>>

\* Past the newest RING.
Outside(frames) == {t \in frames : Cardinality({u \in frames : u > t}) >= RingSize}

\* Mutant: the row is inserted while the files are being written.
InsertRowEarly ==
    /\ storing.phase = "files" /\ Unlocked
    /\ rows' = rows \cup {storing.frame}
    /\ removal' = [phase |-> "rows", frames |-> Outside(rows'), files |-> {}]
    /\ storing' = [storing EXCEPT !.phase = "trim"]
    /\ UNCHANGED <<clock, stores, mishaps, disk, loading, cutoff>>

\* The row replaces one of the same frame, and the ring is trimmed under the
\* same lock.
InsertRow ==
    /\ storing.phase = "files" /\ storing.left = {} /\ Unlocked
    /\ rows' = rows \cup {storing.frame}
    /\ removal' = [phase |-> "rows", frames |-> Outside(rows'), files |-> {}]
    /\ storing' = [storing EXCEPT !.phase = "trim"]
    /\ UNCHANGED <<clock, stores, mishaps, disk, loading, cutoff>>

-----------------------------------------------------------------------------
(* evict_before and remove *)

EvictBefore ==
    /\ Unlocked
    /\ cutoff' = Max({cutoff, clock - Lifetime})
    /\ removal' = [phase |-> "rows", frames |-> {t \in rows : t < clock - Lifetime},
                   files |-> {}]
    /\ UNCHANGED <<clock, stores, mishaps, rows, disk, storing, loading>>

\* The lock is released; a store that trimmed the ring is done.
RemovalEnds ==
    /\ removal' = AtRest
    /\ storing' = IF storing.phase = "trim" THEN AtRest ELSE storing

\* Mutant: the files go first, the row after them.
RemoveRowLast ==
    /\ removal.phase = "rows" /\ removal.files = {}
    /\ \/ removal.frames = {} /\ RemovalEnds /\ UNCHANGED rows
       \/ \E t \in removal.frames :
            /\ UNCHANGED storing
            /\ IF disk \cap FilesOf(t) # {}
               THEN removal' = [removal EXCEPT !.files = FilesOf(t)] /\ UNCHANGED rows
               ELSE removal' = [removal EXCEPT !.frames = @ \ {t}] /\ rows' = rows \ {t}
    /\ UNCHANGED <<clock, stores, mishaps, disk, loading, cutoff>>

\* The next row goes, then its files; when none is left the lock is released.
RemoveRow ==
    /\ removal.phase = "rows" /\ removal.files = {}
    /\ \/ removal.frames = {} /\ RemovalEnds /\ UNCHANGED rows
       \/ \E t \in removal.frames :
            /\ UNCHANGED storing
            /\ rows' = rows \ {t}
            /\ removal' = [removal EXCEPT !.frames = @ \ {t}, !.files = FilesOf(t)]
    /\ UNCHANGED <<clock, stores, mishaps, disk, loading, cutoff>>

RemoveFile ==
    /\ removal.phase = "rows"
    /\ \E file \in removal.files :
        /\ disk' = disk \ {file}
        /\ removal' = [removal EXCEPT !.files = @ \ {file}]
    /\ UNCHANGED <<clock, stores, mishaps, rows, storing, loading, cutoff>>

-----------------------------------------------------------------------------
(* load *)

\* The row is read under the lock, the files after it.
LoadRow(t) ==
    /\ loading = AtRest /\ Unlocked
    /\ t \in rows /\ loading' = [phase |-> "files", frame |-> t]
    /\ UNCHANGED <<clock, stores, mishaps, rows, disk, storing, removal, cutoff>>

LoadFiles ==
    /\ loading.phase = "files"
    /\ loading' = IF FilesOf(loading.frame) \subseteq disk THEN AtRest
                  ELSE [loading EXCEPT !.phase = "error"]
    /\ UNCHANGED <<clock, stores, mishaps, rows, disk, storing, removal, cutoff>>

LoadEnds ==
    /\ loading.phase = "error" /\ loading' = AtRest
    /\ UNCHANGED <<clock, stores, mishaps, rows, disk, storing, removal, cutoff>>

-----------------------------------------------------------------------------
Mishap == mishaps < MaxMishaps /\ mishaps' = mishaps + 1

\* A write or a removal fails: the operation ends where it is.
FileError ==
    /\ Mishap
    /\ \/ storing.phase = "files" /\ storing' = AtRest /\ UNCHANGED removal
       \/ removal.phase = "rows" /\ RemovalEnds
    /\ UNCHANGED <<clock, stores, rows, disk, loading, cutoff>>

\* The daemon dies: what is on disk stays.
CrashCatalog ==
    /\ Mishap
    /\ storing' = AtRest /\ removal' = AtRest /\ loading' = AtRest
    /\ UNCHANGED <<clock, stores, rows, disk, cutoff>>

ClockMoves ==
    /\ clock < MaxClock /\ clock' = clock + 1
    /\ UNCHANGED <<stores, mishaps, rows, disk, storing, removal, loading, cutoff>>

CatalogInit ==
    /\ clock = 1 /\ stores = 0 /\ mishaps = 0 /\ rows = {} /\ disk = {} /\ cutoff = 0
    /\ storing = AtRest /\ removal = AtRest /\ loading = AtRest

CatalogNext ==
    \/ (\E t \in Starts : Store(t) \/ LoadRow(t))
    \/ WriteFile \/ InsertRow \/ EvictBefore \/ RemoveRow \/ RemoveFile
    \/ LoadFiles \/ LoadEnds \/ FileError \/ CrashCatalog \/ ClockMoves

CatalogSpec == CatalogInit /\ [][CatalogNext]_catalogVars

-----------------------------------------------------------------------------
(* Properties *)

\* What the timeline lists can be shown: a frame in the table has its files,
\* through errors and crashes at any step, unless it is past its lifetime.
\* (A frame stored again while its old row is evicted keeps a row without
\* files until the next eviction.)
RowsHaveFiles == \A t \in rows : t >= cutoff => FilesOf(t) \subseteq disk

\* A load that fails lost its frame to the ring or to age after it had read
\* the row: a frame that is still there is never reported unreadable.
UnreadableIsGone ==
    [][loading'.phase = "error" /\ loading.phase = "files" =>
        loading.frame \notin rows \/ loading.frame < cutoff]_catalogVars
=============================================================================

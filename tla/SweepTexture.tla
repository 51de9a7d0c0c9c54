---------------------------- MODULE SweepTexture ----------------------------
(***************************************************************************)
(* From the radials of a cut to what is drawn (sweep.rs): sorted rays, a   *)
(* texture of palette classes with a blank row when something was not      *)
(* scanned, and the lookup that names a row for each slice of the circle.  *)
(* Angles are in half slices, so that the middle of slice i is 2 i + 1;    *)
(* one gate stands for all.                                                *)
(***************************************************************************)
EXTENDS Integers, Sequences, FiniteSets, SequencesExt, Ordering

CONSTANTS
    Slices,      \* entries of the lookup (3600)
    Gap,         \* GAP_DEG
    Advances,    \* how far the dish may turn from one radial to the next
    Codes,       \* raw codes: 0 below threshold, 1 folded, else measured
    Bounds,      \* the palette's bounds, as codes, in ascending order
    Classes,     \* its classes
    MaxRadials   \* bound: radials of a cut

Circle == 2 * Slices

ASSUME SweepConstants ==
    /\ Slices \in Nat \ {0} /\ Gap \in Nat /\ Advances \subseteq Nat /\ Codes \subseteq Nat
    /\ Classes \in Nat \ {0} /\ MaxRadials \in Nat
    /\ Bounds \in [1..(Classes + 1) -> Nat]
    /\ \A b, c \in 1..(Classes + 1) : b < c => Bounds[b] <= Bounds[c]

VARIABLES
    radials,   \* the cut so far: [azimuth, code, fits], in decoded order
    rays       \* the last sweep made of it, rays in ascending order

sweepVars == <<radials, rays>>

\* from_radials: no sweep unless every radial has the geometry of the first.
FromRadials(cut) ==
    IF \E i \in DOMAIN cut : ~cut[i].fits THEN rays
    ELSE LET earlier(i, j) == \/ cut[i].azimuth < cut[j].azimuth
                              \/ cut[i].azimuth = cut[j].azimuth /\ i < j
             places == DOMAIN cut
             order == SortBy(places, {p \in places \X places : earlier(p[1], p[2])})
         IN  [n \in places |-> [azimuth |-> cut[order[n]].azimuth, code |-> cut[order[n]].code]]

-----------------------------------------------------------------------------
(* The lookup and the texture; rows count from 0, as they do in the texture *)

Distance(row, x) ==
    LET az == rays[row + 1].azimuth
        d == IF az > x THEN az - x ELSE x - az
    IN  IF d < Circle - d THEN d ELSE Circle - d

\* Mutant: before the first ray comes the first ray.
LutRowUnwrapped(slice) ==
    LET n == Len(rays)
        x == 2 * slice + 1
        after == Cardinality({i \in DOMAIN rays : rays[i].azimuth <= x}) % n
        before == IF after = 0 THEN 0 ELSE after - 1
        row == IF Distance(before, x) <= Distance(after, x) THEN before ELSE after
    IN  IF Distance(row, x) > Gap THEN n ELSE row

\* lut_rows: the nearer of the neighbours, round the circle, or the blank row.
LutRow(slice) ==
    LET n == Len(rays)
        x == 2 * slice + 1
        after == Cardinality({i \in DOMAIN rays : rays[i].azimuth <= x}) % n
        before == (after + n - 1) % n
        row == IF Distance(before, x) <= Distance(after, x) THEN before ELSE after
    IN  IF Distance(row, x) > Gap THEN n ELSE row

NeedsBlank == \E slice \in 0..(Slices - 1) : LutRow(slice) = Len(rays)

\* class: the band a measured code falls in, clamped to the palette.
Class(code) ==
    LET above == Cardinality({b \in DOMAIN Bounds : Bounds[b] <= code})
        band == IF above = 0 THEN 0 ELSE above - 1
    IN  IF band < Classes THEN band ELSE Classes - 1

\* texture: 0 draws nothing; the blank row is there when the lookup needs it.
Texture ==
    [n \in DOMAIN rays |-> IF rays[n].code \in {0, 1} THEN 0 ELSE Class(rays[n].code) + 1]
        \o (IF NeedsBlank THEN <<0>> ELSE <<>>)

-----------------------------------------------------------------------------
\* The dish turns on, and the cut is made a sweep of again.
Scan ==
    /\ Len(radials) < MaxRadials
    /\ \E code \in Codes, fits \in BOOLEAN :
        \E azimuth \in IF radials = <<>> THEN 0..(Circle - 1)
                       ELSE {(Last(radials).azimuth + a) % Circle : a \in Advances} :
            radials' = Append(radials, [azimuth |-> azimuth, code |-> code,
                                        fits |-> fits \/ radials = <<>>])
    /\ rays' = FromRadials(radials')

SweepInit == radials = <<>> /\ rays = <<>>
SweepNext == Scan

SweepSpec == SweepInit /\ [][SweepNext]_sweepVars

-----------------------------------------------------------------------------
(* Properties *)

\* The least angle by which to turn a ray either way to get to an angle.
Around(row, x) ==
    CHOOSE d \in 0..Circle :
        /\ (rays[row].azimuth + d - x) % Circle = 0 \/ (rays[row].azimuth - d - x) % Circle = 0
        /\ \A e \in 0..(d - 1) : /\ (rays[row].azimuth + e - x) % Circle # 0
                                 /\ (rays[row].azimuth - e - x) % Circle # 0

\* The rays nearest to an angle, if they are within the gap.
NearestRays(x) ==
    {r \in DOMAIN rays : Around(r, x) <= Gap /\ \A s \in DOMAIN rays : Around(r, x) <= Around(s, x)}

\* The palette's class for a code, from 1, the first and the last open-ended.
Band(code) ==
    CHOOSE c \in 1..Classes :
        /\ c = 1 \/ Bounds[c] <= code
        /\ c = Classes \/ code < Bounds[c + 1]

\* However much of the circle has been scanned, and wherever the cut began,
\* each slice draws a ray that is nearest to it round the circle (nothing if
\* nothing was measured there), or nothing if no ray is within the gap; and
\* the row the lookup names exists.
DrawsNearest ==
    rays # <<>> => \A slice \in 0..(Slices - 1) :
        LET nearest == NearestRays(2 * slice + 1)
            drawn == Texture[LutRow(slice) + 1]
        IN  /\ LutRow(slice) + 1 \in DOMAIN Texture
            /\ IF nearest = {} THEN drawn = 0
               ELSE \E r \in nearest : drawn = IF rays[r].code < 2 THEN 0 ELSE Band(rays[r].code)
=============================================================================

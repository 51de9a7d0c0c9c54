------------------------------ MODULE Covering ------------------------------
(***************************************************************************)
(* Which source follows the view (source.rs covering_selection), as the    *)
(* centre moves along a line: the nearest radar, held against another that *)
(* is not clearly nearer; where no radar covers, the best of the mosaics.  *)
(* Lengths are in quarters of a kilometre.                                 *)
(***************************************************************************)
EXTENDS Integers, FiniteSets

CONSTANTS
    Dishes,      \* radars, as places on the line
    Radius,      \* how far a radar sees
    Mosaics,     \* mosaics: [west, east, product, priority, id]
    Line,        \* where the centre may be
    NoDish       \* no radar is selected

Margin == 4      \* HANDOFF_MARGIN_KM

Away(dish, x) == IF dish > x THEN dish - x ELSE x - dish
Sees(dish, x) == Away(dish, x) <= Radius

\* A box whose west lies east of its east wraps round the date line.
InBox(m, x) ==
    IF m.west <= m.east THEN x \in m.west..m.east ELSE x >= m.west \/ x <= m.east

ASSUME CoveringConstants ==
    /\ Dishes \subseteq Int /\ NoDish \notin Dishes /\ Line \subseteq Int /\ Radius \in Nat
    /\ IsFiniteSet(Mosaics)
    /\ \A m \in Mosaics : m.product \in Int /\ m.priority \in Int /\ m.id \in Nat
    /\ \A m, n \in Mosaics : m.id = n.id => m = n

VARIABLES
    centre,   \* the last view_center
    heldDish, heldMosaic,   \* the selection: a radar, or a mosaic, or neither
    byHand,   \* history: the selection was made by hand
    handoff   \* history: where the last hand-off between two radars in sight was, and of which

coveringVars == <<centre, heldDish, heldMosaic, byHand, handoff>>

NoMosaic == [id |-> 0]
NoHandoff == [at |-> 0, from |-> NoDish, to |-> NoDish]

-----------------------------------------------------------------------------
(* covering_selection *)

InSight(x) == {d \in Dishes : Sees(d, x)}
Nearest(x) ==
    CHOOSE d \in InSight(x) :
        \A e \in InSight(x) : Away(d, x) < Away(e, x) \/ (Away(d, x) = Away(e, x) /\ d <= e)

\* Mutant: the held radar is given up to one that is nearer by the ratio.
StaysByRatio(d, x) == 10 * Away(Nearest(x), x) >= 8 * Away(d, x)

\* Hysteresis: HANDOFF_RATIO and HANDOFF_MARGIN_KM must both be beaten.
Stays(d, x) ==
    \/ 10 * Away(Nearest(x), x) >= 8 * Away(d, x)
    \/ Away(d, x) - Away(Nearest(x), x) < Margin

Dish(x) ==
    IF heldDish \in InSight(x) /\ Stays(heldDish, x) THEN heldDish ELSE Nearest(x)

OnTop(x) == {m \in Mosaics : InBox(m, x)}
Outranks(m, n) == m.product > n.product \/ (m.product = n.product /\ m.priority > n.priority)
BestMosaics(x) == {m \in OnTop(x) : \A n \in OnTop(x) : ~Outranks(n, m)}

\* Mutant: among the best the held one counts for nothing.
MosaicUnheld(x) == CHOOSE m \in BestMosaics(x) : \A n \in BestMosaics(x) : m.id <= n.id

\* The held mosaic stays against its equals only.
Mosaic(x) ==
    IF heldMosaic \in BestMosaics(x) THEN heldMosaic
    ELSE CHOOSE m \in BestMosaics(x) : \A n \in BestMosaics(x) : m.id <= n.id

-----------------------------------------------------------------------------
\* A settled view_center while following and not locked.
Settle(x) ==
    /\ centre' = x /\ byHand' = FALSE
    /\ heldDish' = IF InSight(x) # {} THEN Dish(x) ELSE NoDish
    /\ heldMosaic' = IF InSight(x) = {} /\ OnTop(x) # {} THEN Mosaic(x) ELSE NoMosaic
    /\ handoff' = IF heldDish \in InSight(x) /\ heldDish' # heldDish
                  THEN [at |-> x, from |-> heldDish, to |-> heldDish']
                  ELSE IF heldDish' = heldDish THEN handoff ELSE NoHandoff

\* select_site and select_source choose by hand; following goes on from there.
Choose ==
    /\ \/ heldDish' \in Dishes /\ heldMosaic' = NoMosaic
       \/ heldDish' = NoDish /\ heldMosaic' \in Mosaics
    /\ byHand' = TRUE /\ handoff' = NoHandoff /\ UNCHANGED centre

CoveringInit ==
    /\ centre \in Line /\ heldDish = NoDish /\ heldMosaic = NoMosaic
    /\ byHand = FALSE /\ handoff = NoHandoff

CoveringNext == (\E x \in Line : Settle(x)) \/ Choose

CoveringSpec == CoveringInit /\ [][CoveringNext]_coveringVars

-----------------------------------------------------------------------------
(* Properties *)

\* No flapping: a radar that was handed off comes back, without having been
\* chosen by hand, only when the view has settled the margin away from where
\* that happened.
NoHandBack ==
    [][NoHandoff \notin {handoff, handoff'} /\ handoff'.from = handoff.to /\ handoff'.to = handoff.from
        => Away(handoff.at, handoff'.at) >= Margin]_coveringVars

\* A mosaic that still covers gives way only to one that outranks it, so that
\* a boundary between equals does not flap either.
EqualsStay ==
    [][~byHand' /\ heldMosaic' \notin {heldMosaic, NoMosaic} /\ heldMosaic \in OnTop(centre')
        => Outranks(heldMosaic', heldMosaic)]_coveringVars
=============================================================================

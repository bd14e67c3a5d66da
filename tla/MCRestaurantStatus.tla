------------------------- MODULE MCRestaurantStatus -------------------------
\* One restaurant and two administrators, who suspend, activate and set back to
\* verification, and an app that writes a status of its own.
EXTENDS RestaurantStatus, TLC

CONSTANTS a1, a2

Symmetry == Permutations(Deciders)
=============================================================================

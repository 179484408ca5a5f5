--------------------------- MODULE MCFoodMenuAdmin ---------------------------
(***************************************************************************)
(* A small menu for FoodMenuAdmin.                                         *)
(***************************************************************************)
EXTENDS FoodMenuAdmin

CONSTANTS soup, chili, burger, cake

\* Three items, two of one section; another can be added to that section,
\* before both of its rows.
FourItems == <<cake, soup, burger, chili>>
TwoSections == {0, 1}
TwoCategories == (soup :> 0) @@ (chili :> 0) @@ (cake :> 0) @@ (burger :> 1)
AllButCake == {soup, chili, burger}

=============================================================================

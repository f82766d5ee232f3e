--------------------------- MODULE MCFulfillment ---------------------------
(***************************************************************************)
(* A small instance of Fulfillment: two locations, two lines at the first, *)
(* one at the second and one that may be served from both.                 *)
(***************************************************************************)
EXTENDS Fulfillment, TLC

CONSTANTS north, south, atNorth, alsoNorth, atSouth, anywhere

MCPlace == (atNorth :> north) @@ (alsoNorth :> north) @@ (atSouth :> south)
            @@ (anywhere :> NoLocation)
MCOrdered == (atNorth :> 2) @@ (alsoNorth :> 2) @@ (atSouth :> 2) @@ (anywhere :> 3)
=============================================================================

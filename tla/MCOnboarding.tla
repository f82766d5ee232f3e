---------------------------- MODULE MCOnboarding ----------------------------
(***************************************************************************)
(* A small instance of Onboarding for TLC.  The files share the ids a and  *)
(* b in opposite orders, one has a row the database refuses in the middle, *)
(* one a rejected and an incomplete row, one is a purchase order, and one  *)
(* has no table of its own.                                                *)
(***************************************************************************)
EXTENDS Onboarding, TLC

CONSTANTS a, b, x, po

File(entity, mapping, rs) == [entity |-> entity, mapping |-> mapping, rows |-> rs]
Good(k) == [key |-> k, fate |-> "accepted"]
Bad(k) == [key |-> k, fate |-> "rejected"]
Partial(k) == [key |-> k, fate |-> "incomplete"]

MCFiles ==
    {File("operational", "clear", <<Good(a), Good(b)>>),
     File("operational", "clear", <<Good(b), Good(a), Good(b)>>),
     File("operational", "clear", <<Good(a), Good(x), Good(b), Bad(a)>>),
     File("operational", "ambiguous", <<Good(a), Partial(b), Bad(x)>>),
     File("operational", "clear", <<Good(po)>>),
     File("analytical", "clear", <<Good(a), Bad(b)>>),
     File("analytical", "unknown", <<Good(a)>>)}

MCSymmetry == Permutations(Runs)
=============================================================================

------------------------------ MODULE MCCredits -------------------------------
(***************************************************************************)
(* Instance of Credits for TLC: one tenant that pays, cancels, and is      *)
(* helped by an admin.                                                     *)
(***************************************************************************)
EXTENDS Credits, TLC

CONSTANTS t1, checkout, topUp, cancel, adjustment

MCKind == (checkout :> "checkout") @@ (topUp :> "payment") @@ (cancel :> "deleted")
MCOwner == (checkout :> t1) @@ (topUp :> t1) @@ (cancel :> t1) @@ (adjustment :> t1)
MCAmount == (checkout :> 2) @@ (topUp :> 1) @@ (cancel :> 0) @@ (adjustment :> 1)

MCSymmetry == Permutations(Turns) \cup Permutations(Deliveries)
===============================================================================

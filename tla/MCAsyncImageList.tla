-------------------------- MODULE MCAsyncImageList --------------------------
(* Instances of AsyncImageList for TLC. *)
EXTENDS AsyncImageList, TLC

Symmetry == Permutations(Nodes) \cup Permutations(Writers)

CONSTANTS i1, i2, i3, h1, h2

\* The third image is loaded at the address of the first.
MCHeaderOf == i1 :> h1 @@ i2 :> h2 @@ i3 :> h1
=============================================================================

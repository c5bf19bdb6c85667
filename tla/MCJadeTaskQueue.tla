--------------------------- MODULE MCJadeTaskQueue ---------------------------
(* Model-checking instance of JadeTaskQueue: packages are interchangeable.  *)
EXTENDS JadeTaskQueue, TLC

PkgSymmetry == Permutations(Pkg)
=============================================================================

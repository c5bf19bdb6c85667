------------------------------ MODULE MCDownload ------------------------------
(* The downloader for TLC: the threads are interchangeable. *)
EXTENDS Download, TLC

Symmetry == Permutations(Thread)
=============================================================================

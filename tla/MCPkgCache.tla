------------------------------ MODULE MCPkgCache ------------------------------
(* PkgCache for TLC: one source, whose list does not have every package.      *)
EXTENDS PkgCache

CONSTANTS a, b, c

OneList == <<{a, b}>>
=============================================================================

---------------------------- MODULE MCPackageEngine ----------------------------
(* PackageEngine for TLC.  app requires lib, and lib the capability y, which  *)
(* both provide, a circle.  alt also provides the name of lib, and has a      *)
(* later row; app requires its own name, and so does alt, later again.  local *)
(* comes from no repository and requires x, which lib provides.               *)
EXTENDS PackageEngine

CONSTANTS app, lib, alt, local, x, y

Names == {app, lib, alt, local}

AllCaps == Names \cup {x, y}

RequiresDef ==
  [p \in Names |-> CASE p = app   -> {lib, app}
                     [] p = lib   -> {y}
                     [] p = alt   -> {app}
                     [] p = local -> {x}]

ProvidesDef ==
  [p \in Names |-> CASE p = app   -> {app, y}
                     [] p = lib   -> {lib, x, y}
                     [] p = alt   -> {alt, lib}
                     [] p = local -> {local}]

InRepository == Names \ {local}

PlaceDef ==
  [p \in InRepository |-> CASE p = app -> 1 [] p = lib -> 2 [] p = alt -> 3]
=============================================================================

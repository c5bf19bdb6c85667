----------------------------- MODULE UpgradeCheck -----------------------------
(***************************************************************************)
(* Which packages are upgraded (realUpgrade() and compareVersion() in      *)
(* src/isoftapp.cpp).  Upgrade and ListUpdate compare the text             *)
(* name-version-release of the installed package with that of the table's  *)
(* row, character by character; the reference is rpm's order, number by    *)
(* number.                                                                 *)
(*                                                                         *)
(* One package is modelled: its version is a sequence of numbers, its      *)
(* release a number.  The name is the same in both texts and left out, as  *)
(* are letters.  atoi() is exact below 2^31; no number here comes near.    *)
(***************************************************************************)
EXTENDS Integers, Sequences, FiniteSetsExt, SequencesExt

CONSTANTS
  Number,     \* the numbers that occur in versions
  Release,
  MaxParts,   \* a bound on the numbers of a version
  None        \* no such package

ConstantsOK ==
  /\ Number \subseteq Nat /\ Release \subseteq Nat
  /\ MaxParts \in Nat \ {0}

VARIABLES
  inst,   \* the installed version
  repo    \* the table's version

vars == <<inst, repo>>

Version == [parts : UNION {[1 .. n -> Number] : n \in 1 .. MaxParts}, release : Release]

\* Character codes: '-' < '.' < the digits.
Dash == 45
Dot == 46
IsDigit(c) == c \in 48 .. 57

Numeral[n \in Nat] ==
  IF n < 10 THEN <<48 + n>> ELSE Append(Numeral[n \div 10], 48 + (n % 10))

\* version-release, as getInstalledPkgVer() and getNewerPkgVer() print it.
Text(v) ==
  FoldLeft(LAMBDA s, n : s \o <<Dot>> \o Numeral[n],
           Numeral[Head(v.parts)], Tail(v.parts))
  \o <<Dash>> \o Numeral[v.release]

\* The C library's atoi().
Leading(s) ==
  SubSeq(s, 1, Max({n \in 0 .. Len(s) : \A i \in 1 .. n : IsDigit(s[i])}))
ValueOf(digits) == FoldLeft(LAMBDA n, c : 10 * n + c - 48, 0, digits)
atoi(s) ==
  IF s # <<>> /\ Head(s) = Dash THEN -ValueOf(Leading(Tail(s))) ELSE ValueOf(Leading(s))

From(s, i) == SubSeq(s, i, Len(s))

Differing(new, old) ==
  {i \in 1 .. Min({Len(new), Len(old)}) : new[i] # old[i]}

\* Mutant: the numbers that begin at the first difference are swapped.
compareVersion_Swapped(new, old) ==
  LET i == Min(Differing(new, old))
  IN IF Differing(new, old) # {}
       THEN IF new[i] > old[i] \/ atoi(From(old, i)) > atoi(From(new, i)) THEN 1 ELSE -1
       ELSE CASE Len(new) > Len(old) -> 1
              [] Len(new) < Len(old) -> -1
              [] OTHER -> 0

\* 1, 0 or -1.  At the first difference the greater character makes the newer
\* version; if it is the old one's, the numbers that begin there decide.
compareVersion(new, old) ==
  LET i == Min(Differing(new, old))
  IN IF Differing(new, old) # {}
       THEN IF new[i] > old[i] \/ atoi(From(new, i)) > atoi(From(old, i)) THEN 1 ELSE -1
       ELSE CASE Len(new) > Len(old) -> 1
              [] Len(new) < Len(old) -> -1
              [] OTHER -> 0

\* rpm's order.
Newer(v, w) ==
  LET a == v.parts \o <<-1, v.release>>
      b == w.parts \o <<-1, w.release>>
      D == Differing(a, b)
  IN D # {} /\ a[Min(D)] > b[Min(D)]

-----------------------------------------------------------------------------

Init == inst = None /\ repo = None

\* update(): the row is that of the repository read last, newer or not.
Publish(v) == repo' = v /\ UNCHANGED inst

Upgradable == {inst, repo} \subseteq Version /\ compareVersion(Text(repo), Text(inst)) > 0

\* The package is given to rpm, which refuses to replace it by an older one.
RealUpgrade ==
  /\ Upgradable
  /\ inst' = IF Newer(repo, inst) THEN repo ELSE inst
  /\ UNCHANGED repo

Install == inst = None /\ repo # None /\ inst' = repo /\ UNCHANGED repo

Erase == inst # None /\ inst' = None /\ UNCHANGED repo

Next == RealUpgrade \/ Install \/ Erase \/ \E v \in Version : Publish(v)

Spec == Init /\ [][Next]_vars

-----------------------------------------------------------------------------

\* While every number of a version has one digit, the comparison of texts
\* upgrades exactly the packages of which the table has a newer version.
AgreesWithRpm ==
  {inst, repo} \subseteq Version => (Upgradable <=> Newer(repo, inst))

\* "to find newer version": a newer version in the table is offered.
FindsNewer ==
  {inst, repo} \subseteq Version /\ Newer(repo, inst) => Upgradable
=============================================================================

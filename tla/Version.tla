------------------------------ MODULE Version -------------------------------
(***************************************************************************)
(* pkg/version/version.go: Get, and the splitVersion it takes the major    *)
(* and the minor version from.  A version is the output of git describe,   *)
(* or whatever the linker was given: a sequence of characters, where "7"   *)
(* stands for a digit and "v" for a letter.  What else Get reports of the  *)
(* build is passed on as it is.                                            *)
(***************************************************************************)
EXTENDS Naturals, Sequences, FiniteSetsExt

Digits(s) == s # <<>> /\ \A i \in DOMAIN s : s[i] = "7"        \* \d+
Word(s)   == s # <<>> /\ \A i \in DOMAIN s : s[i] \in {"7", "v"}    \* \w+

\* ^v\d+\.\d+\.\d+$
IsTag(s) ==
  \E a, b \in DOMAIN s :
    /\ 1 < a /\ a < b /\ s[1] = "v" /\ s[a] = "." /\ s[b] = "."
    /\ Digits(SubSeq(s, 2, a - 1)) /\ Digits(SubSeq(s, a + 1, b - 1))
    /\ Digits(SubSeq(s, b + 1, Len(s)))

IsBuildUnanchored(s) == \E c \in 2..Len(s) : s[c] = "-" /\ IsTag(SubSeq(s, 1, c - 1))
                                                   \* Mutant: no (-\w+-\w+)$.

\* ^v\d+\.\d+\.\d+-\w+-\w+$
IsBuild(s) ==
  \E c, d \in DOMAIN s :
    /\ 1 < c /\ c < d /\ s[c] = "-" /\ s[d] = "-" /\ IsTag(SubSeq(s, 1, c - 1))
    /\ Word(SubSeq(s, c + 1, d - 1)) /\ Word(SubSeq(s, d + 1, Len(s)))

\* strings.Split looks for the next separator behind the last one.
PartEnd(s, begin) ==
  LET dots == {i \in begin..Len(s) : s[i] = "."}
  IN  IF dots = {} THEN Len(s) + 1 ELSE Min(dots)

\* strings.Split(s, ".")[n - 1]
Part(s, n) ==
  LET end[k \in 0..n] == IF k = 0 THEN 0 ELSE PartEnd(s, end[k - 1] + 1)
  IN  SubSeq(s, end[n - 1] + 1, end[n] - 1)

\* strings.Trim(s, "v")
Trim(s) ==
  LET others == {i \in DOMAIN s : s[i] # "v"}
  IN  IF others = {} THEN <<>> ELSE SubSeq(s, Min(others), Max(others))

splitVersion(s) ==
  IF s # <<>> /\ (IsTag(s) \/ IsBuild(s))
  THEN [Major |-> Trim(Part(s, 1)), Minor |-> Part(s, 2) \o <<".">> \o Part(s, 3)]
  ELSE [Major |-> <<>>, Minor |-> <<>>]

Get(version) ==
  [Major |-> splitVersion(version).Major, Minor |-> splitVersion(version).Minor,
   GitVersion |-> version]
=============================================================================

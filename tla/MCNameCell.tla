----------------------------- MODULE MCNameCell -----------------------------
(***************************************************************************)
(* Values of the constants of NameCell for TLC.                            *)
(***************************************************************************)
EXTENDS NameCell

\* A letter, and the bytes around the change of sign.
MCNames == UNION {[1..n -> {97, 127, 128, 255}] : n \in 0..(Size + 1)}
=============================================================================

----------------------------- MODULE MCReadingCosts -----------------------------
(* Instances of ReadingCosts for TLC. *)
EXTENDS ReadingCosts

CONSTANT s1

OneSlot == {s1}
================================================================================

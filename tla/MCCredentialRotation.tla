-------------------------- MODULE MCCredentialRotation --------------------------
(* Instances of CredentialRotation for TLC. *)
EXTENDS CredentialRotation, TLC

CONSTANTS s1, s2

OneSlot  == {s1}
TwoSlots == {s1, s2}

SlotSymmetry == Permutations(Slots)
================================================================================

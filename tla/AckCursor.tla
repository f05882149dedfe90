------------------------------- MODULE AckCursor -------------------------------
(***************************************************************************)
(* What the server promises a sensor about its acknowledgement: the cursor *)
(* stands at the end of an unbroken run of sequences for which the server  *)
(* holds evidence (a stored reading or a recorded loss), as far as that    *)
(* run goes, and never moves back.  A sensor may free what it covers.      *)
(***************************************************************************)
EXTENDS Integers, FiniteSetsExt

CONSTANT Horizon  \* bound: the highest sequence

VARIABLES covered,  \* sequences with evidence
          ack       \* highest_contiguous_sequence

Init == covered = {} /\ ack = 0

RunEnd(S, from) == Max({m \in from .. Horizon : \A n \in from + 1 .. m : n \in S})

\* Evidence for the sequences of S becomes durable.
Cover(S) ==
    /\ covered' = covered \cup S
    /\ ack' = RunEnd(covered', ack)

\* A data reset: everything up to the floor, which nothing exceeds, is given up.
Reset(floor) ==
    /\ \A n \in covered \cup {ack} : n <= floor
    /\ ack' = floor
    /\ UNCHANGED covered

Next ==
    \/ \E S \in SUBSET (1 .. Horizon) : Cover(S)
    \/ \E floor \in 0 .. Horizon : Reset(floor)

Spec == Init /\ [][Next]_<<covered, ack>>
================================================================================

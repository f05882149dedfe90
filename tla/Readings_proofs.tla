---------------------------- MODULE Readings_proofs ----------------------------
(***************************************************************************)
(* Proofs about readings and their prices.  Durable readings:              *)
(* EvidenceSound and CursorSpec of module ReadingIngestion and             *)
(* PricesStaleOnlyByRace of module ReadingCosts, for any number of         *)
(* sequences, requests in flight, data resets and contents, and any limit  *)
(* of find_gaps.  Stateless samples: LiveStateNeverRegresses and           *)
(* PriceStaleOnlyWhenOvertaken of module StatelessTelemetry, for any       *)
(* sensors, bucket length, skew, delay and retention.                      *)
(*                                                                         *)
(* The two loops, advance_contiguous_cursor and find_gaps, are recursive   *)
(* functions.  That they are defined, and what they compute, is shown by   *)
(* the least round at which it would fail (LoopHasRun, LoopInduction): the *)
(* cursor stops at the end of the run (CursorIsRunEnd), the gaps listed    *)
(* are the maximal runs without evidence below `expected' (GapRound).      *)
(*                                                                         *)
(* EvidenceSound is not inductive.  A request works on the row it read, so *)
(* the maximum covers the evidence because every row in flight does        *)
(* (MaxInv); generations are apart because the sensor is at most one reset *)
(* ahead, its floors ascend, and whatever is stored or on its way was used *)
(* in the generation it names (SensorInv).  Prices need in addition that a *)
(* step only adds readings of the generation the device is in              *)
(* (ReadingsOnlyAdded).                                                    *)
(*                                                                         *)
(* A selected price of a History bucket follows its energy because it is   *)
(* of a final bucket, because the prices of the worker's open transaction  *)
(* are of buckets that are final when it commits and that it does not      *)
(* delete, and because what it deletes has no price (PriceInv).            *)
(***************************************************************************)
EXTENDS ReadingCosts, StatelessTelemetry, WellFoundedInduction, TLAPS

--------------------------------------------------------------------------------
(* Induction along a loop *)

\* The least of a set of natural numbers.
LEMMA LeastNatural ==
    ASSUME NEW T, T \subseteq Nat, T # {}
    PROVE  \E x \in T : \A y \in T : x <= y
<1>1. PICK x \in T : \A y \in T : ~ (<<y, x>> \in OpToRel(<, Nat))
  BY NatLessThanWellFounded, WFMin, Zenon
<1>2. \A y \in T : ~ (<<y, x>> \in {ss \in Nat \X Nat : ss[1] < ss[2]})
  BY <1>1, Zenon DEF OpToRel
<1>3. ASSUME NEW y \in T PROVE x <= y
  <2>1. x \in Nat /\ y \in Nat
    OBVIOUS
  <2>2. <<y, x>> \in Nat \X Nat /\ <<y, x>>[1] = y /\ <<y, x>>[2] = x
    BY <2>1
  <2>3. ~ (y < x)
    BY <1>2, <2>2
  <2>4. QED
    BY <2>1, <2>3
<1>4. QED
  BY <1>3

\* What holds before a loop and is kept by each of its rounds holds after every
\* round: S is the set of rounds after which it does.
LEMMA LoopInduction ==
    ASSUME NEW N \in Nat, NEW S,
           0 \in S,
           \A n \in 1 .. N : n - 1 \in S => n \in S
    PROVE  \A n \in 0 .. N : n \in S
<1>1. SUFFICES ASSUME {n \in 0 .. N : n \notin S} # {} PROVE FALSE
  OBVIOUS
<1> DEFINE T == {n \in 0 .. N : n \notin S}
<1>2. PICK x \in T : \A y \in T : x <= y
  <2>1. T \subseteq Nat /\ T # {}
    BY <1>1
  <2>2. QED
    BY <2>1, LeastNatural
<1>3. x \in 1 .. N /\ x - 1 \in 0 .. N
  BY <1>2
<1>4. x - 1 \in S
  BY <1>2, <1>3
<1>5. QED
  BY <1>2, <1>3, <1>4

\* The runs of a loop of N rounds from b: round n applies T[n] to what round
\* n - 1 left.
LoopRuns(N, V, b, T) ==
    {f \in [0 .. N -> V] : f[0] = b /\ \A n \in 1 .. N : f[n] = T[n][f[n - 1]]}

\* There is one.
LEMMA LoopHasRun ==
    ASSUME NEW N \in Nat, NEW V, NEW b \in V, NEW T \in [1 .. N -> [V -> V]]
    PROVE  LoopRuns(N, V, b, T) # {}
<1> DEFINE Run(k, f) == /\ f[0] = b
                        /\ \A n \in 1 .. k : f[n] = T[n][f[n - 1]]
           Has(k) == \E f \in [0 .. k -> V] : Run(k, f)
           S == {k \in 0 .. N : Has(k)}
<1>1. Has(0)
  <2>1. [n \in 0 .. 0 |-> b] \in [0 .. 0 -> V] /\ Run(0, [n \in 0 .. 0 |-> b])
    OBVIOUS
  <2> WITNESS [n \in 0 .. 0 |-> b] \in [0 .. 0 -> V]
  <2>2. QED
    BY <2>1
<1>2. ASSUME NEW k \in 1 .. N, Has(k - 1) PROVE Has(k)
  <2>1. PICK f \in [0 .. k - 1 -> V] : Run(k - 1, f)
    BY <1>2
  <2> DEFINE g == [n \in 0 .. k |-> IF n = k THEN T[k][f[k - 1]] ELSE f[n]]
  <2>2. T[k] \in [V -> V] /\ f[k - 1] \in V
    BY <1>2
  <2>3. g \in [0 .. k -> V]
    BY <1>2, <2>2
  <2>4. g[0] = b
    BY <1>2, <2>1
  <2>5. ASSUME NEW n \in 1 .. k PROVE g[n] = T[n][g[n - 1]]
    <3>1. n - 1 \in 0 .. k - 1 /\ g[n - 1] = f[n - 1]
      BY <1>2
    <3>2. CASE n = k
      BY <3>1, <3>2
    <3>3. CASE n # k
      <4>1. n \in 1 .. k - 1 /\ g[n] = f[n]
        BY <1>2, <3>3
      <4>2. QED
        BY <2>1, <3>1, <4>1
    <3>4. QED
      BY <3>2, <3>3
  <2> HIDE DEF g
  <2> WITNESS g \in [0 .. k -> V]
  <2>6. QED
    BY <2>4, <2>5
<1>3. Has(N)
  <2> HIDE DEF Has
  <2>1. 0 \in S /\ \A n \in 1 .. N : n - 1 \in S => n \in S
    BY <1>1, <1>2
  <2> HIDE DEF S
  <2>2. \A n \in 0 .. N : n \in S
    BY <2>1, LoopInduction
  <2>3. QED
    BY <2>2 DEF S
<1>4. QED
  BY <1>3 DEF LoopRuns

--------------------------------------------------------------------------------
(* The cursor *)

\* The largest of a set of sequences.
LEMMA LargestIn ==
    ASSUME NEW k \in Nat, NEW S, S \subseteq 0 .. k, S # {}
    PROVE  Max(S) \in S /\ \A y \in S : y <= Max(S)
<1> DEFINE T == {k - x : x \in S}
<1>1. T \subseteq Nat /\ T # {}
  <2>1. \A x \in S : k - x \in Nat
    OBVIOUS
  <2>2. QED
    BY <2>1
<1>2. PICK t \in T : \A y \in T : t <= y
  BY <1>1, LeastNatural
<1>3. PICK x \in S : t = k - x
  BY <1>2
<1>4. \A y \in S : x >= y
  <2>1. ASSUME NEW y \in S PROVE x >= y
    <3>1. k - y \in T
      OBVIOUS
    <3>2. k - x <= k - y
      BY <1>2, <1>3, <3>1
    <3>3. x \in Int /\ y \in Int
      OBVIOUS
    <3>4. QED
      BY <3>2, <3>3
  <2>2. QED
    BY <2>1
<1>5. \E z \in S : \A y \in S : z >= y
  BY <1>4
<1>6. Max(S) \in S /\ \A y \in S : Max(S) >= y
  BY <1>5, Zenon DEF Max
<1>7. QED
  BY <1>6

\* A round of advance_contiguous_cursor: the cursor after sequence n.
CursorRound(st, ls, ack, n, c) ==
    IF n > c + 1 THEN c ELSE Max({c} \cup Ends(st, ls, ack, n))

\* The loop of advance_contiguous_cursor is defined: it has a run.
LEMMA CursorLoop ==
    ASSUME NEW st, NEW ls, NEW ack \in 0 .. MaxSeq
    PROVE  \E f \in [0 .. MaxSeq -> 0 .. MaxSeq] :
               /\ f[0] = ack
               /\ \A n \in 1 .. MaxSeq : f[n] = CursorRound(st, ls, ack, n, f[n - 1])
               /\ AdvanceContiguousCursor(st, ls, ack) = f[MaxSeq]
<1> DEFINE V == 0 .. MaxSeq
           T == [n \in 1 .. MaxSeq |-> [c \in V |-> CursorRound(st, ls, ack, n, c)]]
           Body(f) == [n \in 0 .. MaxSeq |->
                          IF n = 0 THEN ack
                          ELSE IF n > f[n - 1] + 1 THEN f[n - 1]
                          ELSE Max({f[n - 1]} \cup Ends(st, ls, ack, n))]
<1>1. MaxSeq \in Nat
  BY ConstantsAssumption
<1>2. ASSUME NEW n \in 1 .. MaxSeq, NEW c \in V
      PROVE  CursorRound(st, ls, ack, n, c) \in V
  <2> DEFINE S == {c} \cup Ends(st, ls, ack, n)
  <2>1. S \subseteq V /\ S # {}
    BY <1>1, <1>2 DEF Ends, Seqs
  <2>2. Max(S) \in S
    BY <1>1, <2>1, LargestIn
  <2>3. QED
    BY <1>2, <2>1, <2>2 DEF CursorRound
<1>3. T \in [1 .. MaxSeq -> [V -> V]]
  <2> HIDE DEF V
  <2>1. QED
    BY <1>2
<1>4. LoopRuns(MaxSeq, V, ack, T) # {}
  <2>1. ack \in V
    OBVIOUS
  <2> HIDE DEF T, V
  <2>2. QED
    BY <1>1, <1>3, <2>1, LoopHasRun
<1>5. PICK f \in [0 .. MaxSeq -> V] : f[0] = ack /\ \A n \in 1 .. MaxSeq : f[n] = T[n][f[n - 1]]
  <2> HIDE DEF T, V
  <2>1. QED
    BY <1>4 DEF LoopRuns
<1>6. f = Body(f)
  <2>1. ASSUME NEW n \in 1 .. MaxSeq PROVE f[n] = CursorRound(st, ls, ack, n, f[n - 1])
    <3>1. n - 1 \in 0 .. MaxSeq /\ f[n - 1] \in V
      BY <1>1
    <3> HIDE DEF V
    <3>2. QED
      BY <1>5, <3>1
  <2>2. ASSUME NEW n \in 0 .. MaxSeq PROVE f[n] = Body(f)[n]
    <3>1. CASE n = 0
      BY <1>5, <3>1
    <3>2. CASE n # 0
      <4>1. n \in 1 .. MaxSeq
        BY <3>2
      <4>2. QED
        BY <2>1, <3>2, <4>1 DEF CursorRound
    <3>3. QED
      BY <3>1, <3>2
  <2>3. QED
    BY <2>2
<1> DEFINE g == CHOOSE h : h = Body(h)
<1>7. g = Body(g)
  <2> HIDE DEF Body
  <2>1. QED
    BY <1>6
<1> HIDE DEF g
<1>8. /\ g[0] = ack
      /\ \A n \in 1 .. MaxSeq : g[n] = CursorRound(st, ls, ack, n, g[n - 1])
  <2> DEFINE G == Body(g)
  <2>1. G[0] = ack /\ \A n \in 1 .. MaxSeq : G[n] = CursorRound(st, ls, ack, n, g[n - 1])
    BY <1>1 DEF CursorRound
  <2>2. G = g
    BY <1>7
  <2> HIDE DEF G
  <2>3. QED
    BY <2>1, <2>2
<1> DEFINE S == {n \in 0 .. MaxSeq : g[n] \in V}
<1>9. 0 \in S /\ \A n \in 1 .. MaxSeq : n - 1 \in S => n \in S
  <2>1. g[0] \in V
    BY <1>8
  <2>2. ASSUME NEW n \in 1 .. MaxSeq, g[n - 1] \in V PROVE g[n] \in V
    <3> HIDE DEF V
    <3>1. QED
      BY <1>2, <1>8, <2>2
  <2> HIDE DEF V
  <2>3. QED
    BY <1>1, <2>1, <2>2
<1>10. \A n \in 0 .. MaxSeq : n \in S
  <2> HIDE DEF S
  <2>1. QED
    BY <1>1, <1>9, LoopInduction
<1>11. g \in [0 .. MaxSeq -> V]
  BY <1>7, <1>10
<1>12. AdvanceContiguousCursor(st, ls, ack) = g[MaxSeq]
  BY DEF AdvanceContiguousCursor, g
<1>13. QED
  BY <1>8, <1>11, <1>12

\* What begins at n and ends at e is recorded from n to e.
LEMMA EndsAreRecorded ==
    ASSUME NEW st, NEW ls, ls \subseteq Ranges, NEW after \in 0 .. MaxSeq,
           NEW n \in Seqs, NEW e \in Ends(st, ls, after, n)
    PROVE  /\ e \in Seqs /\ n <= e /\ after < e
           /\ \A m \in n .. e : m \in Covered(st, ls)
<1>1. e \in Seqs /\ after < e
  BY DEF Ends, Seqs
<1>2. CASE e = n /\ st[n] # Missing
  BY <1>1, <1>2, ConstantsAssumption DEF Covered, Seqs
<1>3. CASE <<n, e>> \in ls
  <2>1. n <= e
    BY <1>3 DEF Ranges
  <2>2. ASSUME NEW m \in n .. e PROVE m \in Covered(st, ls)
    <3>1. m \in Seqs
      BY <1>1, ConstantsAssumption DEF Seqs
    <3>2. <<n, e>>[1] <= m /\ m <= <<n, e>>[2]
      OBVIOUS
    <3>3. QED
      BY <1>3, <3>1, <3>2 DEF Covered
  <2>3. QED
    BY <1>1, <2>1, <2>2
<1>4. QED
  BY <1>2, <1>3 DEF Ends

\* A recorded sequence above `after' lies between a beginning and its end.
LEMMA RecordedHasEnd ==
    ASSUME NEW st, NEW ls, ls \subseteq Ranges, NEW after \in 0 .. MaxSeq,
           NEW m \in Covered(st, ls), after < m
    PROVE  \E n \in Seqs : \E e \in Ends(st, ls, after, n) : n <= m /\ m <= e
<1>1. m \in Seqs
  BY DEF Covered
<1>2. CASE st[m] # Missing
  <2>1. m \in Ends(st, ls, after, m) /\ m <= m
    BY <1>1, <1>2 DEF Ends, Seqs
  <2>2. QED
    BY <1>1, <2>1
<1>3. ASSUME NEW x \in ls, x[1] <= m /\ m <= x[2]
      PROVE  \E n \in Seqs : \E e \in Ends(st, ls, after, n) : n <= m /\ m <= e
  <2>1. x[1] \in Seqs /\ x[2] \in Seqs /\ x = <<x[1], x[2]>>
    BY DEF Ranges
  <2>2. x[2] > after
    BY <1>1, <1>3, <2>1, ConstantsAssumption DEF Seqs
  <2>3. x[2] \in Ends(st, ls, after, x[1])
    BY <2>1, <2>2 DEF Ends
  <2>4. QED
    BY <1>3, <2>1, <2>3
<1>4. QED
  BY <1>2, <1>3 DEF Covered

\* advance_contiguous_cursor stops where the unbroken run of evidence ends.
LEMMA CursorIsRunEnd ==
    ASSUME NEW st, NEW ls, ls \subseteq Ranges, NEW ack \in 0 .. MaxSeq,
           NEW c, c = AdvanceContiguousCursor(st, ls, ack)
    PROVE  /\ c \in ack .. MaxSeq
           /\ \A m \in ack + 1 .. c : m \in Covered(st, ls)
           /\ c + 1 \notin Covered(st, ls)
<1>0. MaxSeq \in Nat /\ Seqs = 1 .. MaxSeq
  BY ConstantsAssumption DEF Seqs
<1> DEFINE C == Covered(st, ls)
           E(n) == Ends(st, ls, ack, n)
<1>1. PICK f \in [0 .. MaxSeq -> 0 .. MaxSeq] :
          /\ f[0] = ack
          /\ \A n \in 1 .. MaxSeq : f[n] = CursorRound(st, ls, ack, n, f[n - 1])
          /\ c = f[MaxSeq]
  BY CursorLoop
<1> DEFINE J(n) == /\ f[n] >= ack
                   /\ \A m \in ack + 1 .. f[n] : m \in C
                   /\ \A k \in 1 .. n : \A e \in E(k) : e <= f[n] \/ k > f[n] + 1
           S == {n \in 0 .. MaxSeq : J(n)}
<1>2. J(0)
  BY <1>0, <1>1
<1>3. ASSUME NEW n \in 1 .. MaxSeq, J(n - 1) PROVE J(n)
  <2>0. n - 1 \in 0 .. MaxSeq /\ f[n - 1] \in 0 .. MaxSeq /\ f[n] \in 0 .. MaxSeq
    BY <1>0, <1>1
  <2> DEFINE b == f[n - 1]
             d == f[n]
             M == {b} \cup E(n)
  <2>1. d = CursorRound(st, ls, ack, n, b)
    BY <1>1
  <2>2. b >= ack /\ (\A m \in ack + 1 .. b : m \in C)
        /\ (\A k \in 1 .. n - 1 : \A e \in E(k) : e <= b \/ k > b + 1)
    BY <1>3
  <2>3. b \in 0 .. MaxSeq /\ d \in 0 .. MaxSeq
    BY <2>0
  <2>4. \A e \in E(n) : e \in Seqs /\ n <= e /\ ack < e /\ \A m \in n .. e : m \in C
    BY <1>0, EndsAreRecorded
  <2> HIDE DEF b, d, E, C
  <2>5. CASE n > b + 1
    <3>1. d = b
      BY <2>1, <2>5 DEF CursorRound
    <3>2. ASSUME NEW k \in 1 .. n, NEW e \in E(k) PROVE e <= d \/ k > d + 1
      <4>1. CASE k = n
        BY <2>5, <3>1, <4>1
      <4>2. CASE k # n
        <5>1. k \in 1 .. n - 1
          BY <4>2
        <5>2. QED
          BY <2>2, <3>1, <5>1
      <4>3. QED
        BY <4>1, <4>2
    <3>3. QED
      BY <2>2, <3>1, <3>2 DEF d
  <2>6. CASE ~ (n > b + 1)
    <3>1. d = Max(M)
      BY <2>1, <2>6 DEF CursorRound, E
    <3>2. M \subseteq 0 .. MaxSeq /\ M # {}
      <4>1. \A e \in E(n) : e \in 0 .. MaxSeq
        BY <1>0, <2>4
      <4>2. QED
        BY <2>3, <4>1
    <3>3. d \in M /\ \A y \in M : y <= d
      <4> HIDE DEF M
      <4>1. QED
        BY <1>0, <3>1, <3>2, LargestIn
    <3>4. d >= b /\ d >= ack
      <4>1. b <= d
        BY <3>3
      <4>2. QED
        BY <2>2, <2>3, <4>1
    <3>5. ASSUME NEW m \in ack + 1 .. d PROVE m \in C
      <4>1. CASE m <= b
        BY <2>2, <2>3, <3>5, <4>1
      <4>2. CASE m > b
        <5>1. d \in E(n)
          BY <2>3, <3>3, <4>2
        <5>2. m \in n .. d
          BY <1>0, <2>3, <2>6, <4>2
        <5>3. QED
          BY <2>4, <5>1, <5>2
      <4>3. QED
        BY <2>3, <4>1, <4>2
    <3>6. ASSUME NEW k \in 1 .. n, NEW e \in E(k) PROVE e <= d \/ k > d + 1
      <4>1. CASE k = n
        BY <3>3, <4>1
      <4>2. CASE k # n
        <5>1. k \in 1 .. n - 1 /\ k < b + 1
          BY <1>0, <2>3, <2>6, <4>2
        <5>2. e <= b
          BY <2>2, <2>3, <5>1
        <5>3. e \in Int
          BY DEF E, Ends, Seqs
        <5>4. QED
          BY <2>3, <3>4, <5>2, <5>3
      <4>3. QED
        BY <4>1, <4>2
    <3>7. QED
      BY <3>4, <3>5, <3>6 DEF d
  <2>7. QED
    BY <2>5, <2>6
<1>4. J(MaxSeq)
  <2> HIDE DEF J
  <2>1. 0 \in S /\ \A n \in 1 .. MaxSeq : n - 1 \in S => n \in S
    BY <1>0, <1>2, <1>3
  <2> HIDE DEF S
  <2>2. \A n \in 0 .. MaxSeq : n \in S
    BY <1>0, <2>1, LoopInduction
  <2>3. QED
    BY <1>0, <2>2 DEF S
<1>5. c \in 0 .. MaxSeq /\ c >= ack
  BY <1>0, <1>1, <1>4
<1>6. ASSUME c + 1 \in C PROVE FALSE
  <2>1. PICK n \in Seqs : \E e \in E(n) : n <= c + 1 /\ c + 1 <= e
    <3>1. c + 1 \in Covered(st, ls) /\ ack < c + 1
      BY <1>0, <1>5, <1>6
    <3>2. QED
      BY <3>1, RecordedHasEnd
  <2>2. PICK e \in E(n) : n <= c + 1 /\ c + 1 <= e
    BY <2>1
  <2>3. e \in Int
    BY DEF Ends, Seqs
  <2>4. e <= c \/ n > c + 1
    <3>1. \A k \in 1 .. MaxSeq : \A d \in E(k) : d <= c \/ k > c + 1
      BY <1>1, <1>4
    <3> HIDE DEF E
    <3>2. QED
      BY <1>0, <3>1
  <2> HIDE DEF E
  <2>5. c \in Int /\ n \in Int
    BY <1>0, <1>5
  <2>6. n <= c + 1 /\ c + 1 <= e
    BY <2>2
  <2>7. QED
    BY <2>3, <2>4, <2>5, <2>6
<1>7. QED
  BY <1>0, <1>1, <1>4, <1>5, <1>6

--------------------------------------------------------------------------------
(* Gaps *)

\* `gaps' lists, in ascending order, the runs of `open' that begin below e.
Listed(gaps, e, open) ==
    /\ gaps \in Seq(Ranges)
    /\ Len(gaps) <= MaxGaps
    /\ \A i \in 1 .. Len(gaps) : gaps[i] \in Runs(open) /\ gaps[i][2] < e
    /\ \A i, j \in 1 .. Len(gaps) : i < j => gaps[i][2] < gaps[j][1]
    /\ \A x \in Runs(open) : x[1] < e => \E i \in 1 .. Len(gaps) : gaps[i] = x

\* Two runs that meet are the same.
LEMMA RunsMeet ==
    ASSUME NEW open, NEW x \in Runs(open), NEW y \in Runs(open), x[1] \in y[1] .. y[2]
    PROVE  x = y
<1>1. /\ x = <<x[1], x[2]>> /\ x[1] \in Int /\ x[2] \in Int /\ x[1] <= x[2]
      /\ y = <<y[1], y[2]>> /\ y[1] \in Int /\ y[2] \in Int /\ y[1] <= y[2]
  BY DEF Runs, Ranges, Seqs
<1>2. /\ \A n \in x[1] .. x[2] : n \in open
      /\ \A n \in y[1] .. y[2] : n \in open
      /\ x[1] - 1 \notin open /\ x[2] + 1 \notin open
      /\ y[1] - 1 \notin open /\ y[2] + 1 \notin open
  BY DEF Runs
<1>3. x[1] = y[1]
  <2>1. ~ (x[1] - 1 \in y[1] .. y[2])
    BY <1>2
  <2>2. QED
    BY <1>1, <2>1
<1>4. x[2] = y[2]
  <2>1. ~ (x[2] + 1 \in y[1] .. y[2]) /\ ~ (y[2] + 1 \in x[1] .. x[2])
    BY <1>2
  <2>2. QED
    BY <1>1, <1>3, <2>1
<1>5. QED
  BY <1>1, <1>3, <1>4

\* The next run is appended.
LEMMA ListedAppend ==
    ASSUME NEW open, NEW gaps, NEW e \in Int, NEW h \in Int, NEW x \in Runs(open),
           Listed(gaps, e, open), Len(gaps) < MaxGaps,
           x[1] = e, x[2] < h, e <= h,
           \A y \in Runs(open) : e <= y[1] /\ y[1] < h => y = x
    PROVE  Listed(Append(gaps, x), h, open)
<1> DEFINE more == Append(gaps, x)
           L == Len(gaps)
<1>1. gaps \in Seq(Ranges) /\ x \in Ranges /\ L \in Nat
  BY DEF Listed, Runs
<1>2. /\ more \in Seq(Ranges) /\ Len(more) = L + 1 /\ more[L + 1] = x
      /\ \A i \in 1 .. L : more[i] = gaps[i]
  BY <1>1
<1>3. /\ \A y \in Runs(open) : y[1] \in Int /\ y[2] \in Int
      /\ \A y \in Ranges : y[1] \in Int /\ y[2] \in Int
  BY DEF Runs, Ranges, Seqs
<1>4. MaxGaps \in Nat
  BY ConstantsAssumption
<1> HIDE DEF more, L
<1>5. /\ \A i \in 1 .. L : gaps[i] \in Runs(open) /\ gaps[i][2] < e
      /\ \A i, j \in 1 .. L : i < j => gaps[i][2] < gaps[j][1]
      /\ \A y \in Runs(open) : y[1] < e => \E i \in 1 .. L : gaps[i] = y
  BY DEF Listed, L
<1>6. L + 1 <= MaxGaps
  BY <1>1, <1>4 DEF L
<1>7. ASSUME NEW i \in 1 .. L + 1 PROVE more[i] \in Runs(open) /\ more[i][2] < h
  <2>1. CASE i = L + 1
    BY <1>2, <2>1
  <2>2. CASE i \in 1 .. L
    <3>1. more[i] = gaps[i] /\ gaps[i] \in Runs(open) /\ gaps[i][2] < e /\ gaps[i][2] \in Int
      BY <1>2, <1>3, <1>5, <2>2
    <3>2. QED
      BY <3>1
  <2>3. QED
    BY <1>1, <2>1, <2>2
<1>8. ASSUME NEW i \in 1 .. L + 1, NEW j \in 1 .. L + 1, i < j
      PROVE  more[i][2] < more[j][1]
  <2>1. i \in 1 .. L /\ more[i] = gaps[i] /\ gaps[i][2] < e
    BY <1>1, <1>2, <1>5, <1>8
  <2>2. CASE j = L + 1
    BY <1>2, <2>1, <2>2
  <2>3. CASE j \in 1 .. L
    BY <1>2, <1>5, <1>8, <2>1, <2>3
  <2>4. QED
    BY <1>1, <2>2, <2>3
<1>9. ASSUME NEW y \in Runs(open), y[1] < h PROVE \E i \in 1 .. L + 1 : more[i] = y
  <2>1. CASE y[1] < e
    <3>1. PICK i \in 1 .. L : gaps[i] = y
      BY <1>5, <2>1
    <3>2. i \in 1 .. L + 1 /\ more[i] = y
      BY <1>1, <1>2, <3>1
    <3>3. QED
      BY <3>2
  <2>2. CASE e <= y[1]
    <3>1. y = x
      BY <1>9, <2>2
    <3>2. L + 1 \in 1 .. L + 1
      BY <1>1
    <3>3. QED
      BY <1>2, <3>1, <3>2
  <2>3. QED
    BY <1>3, <2>1, <2>2
<1>10. QED
  BY <1>2, <1>6, <1>7, <1>8, <1>9 DEF Listed, more

\* Nothing begins between e and h: what is listed below e is listed below h.
LEMMA ListedOn ==
    ASSUME NEW open, NEW gaps, NEW e \in Int, NEW h \in Int, e <= h,
           Listed(gaps, e, open),
           \A y \in Runs(open) : ~ (e <= y[1] /\ y[1] < h)
    PROVE  Listed(gaps, h, open)
<1>1. /\ \A y \in Runs(open) : y[1] \in Int /\ y[2] \in Int
  BY DEF Runs, Ranges, Seqs
<1>2. \A i \in 1 .. Len(gaps) : gaps[i] \in Runs(open) /\ gaps[i][2] < h
  BY <1>1 DEF Listed
<1>3. \A y \in Runs(open) : y[1] < h => y[1] < e
  BY <1>1
<1>4. QED
  BY <1>2, <1>3 DEF Listed

\* The loop of find_gaps after the ranges that begin at n or before: expected
\* follows evidence, unless the limit is reached nothing recorded so far ends at
\* or above it, and the gaps found are those below it.
GapInv(st, ls, ack, open, n, g) ==
    /\ g = [expected |-> g.expected, gaps |-> g.gaps]
    /\ g.expected \in ack + 1 .. MaxSeq + 1
    /\ g.expected = ack + 1 \/ g.expected - 1 \in Covered(st, ls)
    /\ Len(g.gaps) < MaxGaps =>
           \A k \in 1 .. n : \A m \in Ends(st, ls, ack, k) : m < g.expected
    /\ Listed(g.gaps, g.expected, open)

\* What is open: the sequences without evidence above the acknowledgement, up to
\* the highest known.
OpenTo(st, ls, ack, top) == (ack + 1 .. top) \ Covered(st, ls)

\* Before the limit, evidence above the acknowledgement lies below `expected' or
\* begins in a later round.
LEMMA NoEvidenceAhead ==
    ASSUME NEW st, NEW ls, ls \subseteq Ranges, NEW ack \in 0 .. MaxSeq,
           NEW n \in 0 .. MaxSeq, NEW e \in Int,
           \A k \in 1 .. n : \A m \in Ends(st, ls, ack, k) : m < e,
           NEW c \in Covered(st, ls), ack < c, c <= n
    PROVE  c < e
<1>1. PICK k \in Seqs : \E m \in Ends(st, ls, ack, k) : k <= c /\ c <= m
  BY RecordedHasEnd
<1>2. PICK m \in Ends(st, ls, ack, k) : k <= c /\ c <= m
  BY <1>1
<1>3. c \in Int /\ k \in Int /\ m \in Int /\ k >= 1 /\ n \in Int
  BY ConstantsAssumption DEF Covered, Ends, Seqs
<1>4. k \in 1 .. n
  BY <1>2, <1>3
<1>5. m < e
  BY <1>2, <1>4
<1>6. QED
  BY <1>2, <1>3, <1>5

\* A round of the loop.
LEMMA GapRound ==
    ASSUME NEW st, NEW ls, ls \subseteq Ranges, NEW ack \in 0 .. MaxSeq,
           NEW top \in 0 .. MaxSeq, \A c \in Covered(st, ls) : c <= top,
           NEW n \in 1 .. MaxSeq, NEW g,
           GapInv(st, ls, ack, OpenTo(st, ls, ack, top), n - 1, g)
    PROVE  GapInv(st, ls, ack, OpenTo(st, ls, ack, top), n,
                  GapScan(g, n, Ends(st, ls, ack, n)))
<1> DEFINE C == Covered(st, ls)
           E(k) == Ends(st, ls, ack, k)
           open == OpenTo(st, ls, ack, top)
           e == g.expected
           h == GapScan(g, n, E(n))
           M == {e} \cup {m + 1 : m \in E(n)}
           x == <<e, n - 1>>
<1>0. /\ MaxSeq \in Nat /\ Seqs = 1 .. MaxSeq /\ MaxGaps \in Nat
      /\ C \subseteq Seqs
  BY ConstantsAssumption DEF Seqs, Covered
<1>1. /\ g = [expected |-> e, gaps |-> g.gaps]
      /\ e \in ack + 1 .. MaxSeq + 1 /\ e \in 0 .. MaxSeq + 1 /\ e \in Int
      /\ e = ack + 1 \/ e - 1 \in C
      /\ Listed(g.gaps, e, open)
      /\ Len(g.gaps) < MaxGaps => \A k \in 1 .. n - 1 : \A m \in E(k) : m < e
  BY <1>0 DEF GapInv
<1>2. Len(g.gaps) \in Nat
  BY <1>1 DEF Listed
<1>3. CASE Len(g.gaps) >= MaxGaps
  <2>1. h = g
    BY <1>3 DEF GapScan
  <2>2. QED
    BY <1>0, <1>1, <1>2, <1>3, <2>1 DEF GapInv
<1>4. CASE ~ (Len(g.gaps) >= MaxGaps) /\ E(n) = {}
  <2>1. h = g
    BY <1>4 DEF GapScan
  <2>2. ASSUME NEW k \in 1 .. n, NEW m \in E(k) PROVE m < e
    <3>1. k \in 1 .. n - 1
      BY <1>4
    <3> HIDE DEF E
    <3>2. QED
      BY <1>0, <1>1, <1>2, <1>4, <3>1
  <2>3. QED
    BY <1>1, <2>1, <2>2 DEF GapInv
<1>5. CASE ~ (Len(g.gaps) >= MaxGaps) /\ E(n) # {}
  <2>1. \A k \in 1 .. n - 1 : \A m \in E(k) : m < e
    BY <1>0, <1>1, <1>2, <1>5
  <2>2. Len(g.gaps) < MaxGaps
    BY <1>0, <1>2, <1>5
  <2>3. \A m \in E(n) : m \in Seqs /\ m \in Int /\ n <= m /\ ack < m /\ \A k \in n .. m : k \in C
    BY <1>0, EndsAreRecorded
  <2>4. /\ h.expected = Max(M)
        /\ h = [expected |-> h.expected, gaps |-> h.gaps]
        /\ h.gaps = IF n > e THEN Append(g.gaps, x) ELSE g.gaps
    BY <1>5 DEF GapScan
  <2>5. M \subseteq 0 .. MaxSeq + 1 /\ M # {}
    <3>1. \A m \in E(n) : m + 1 \in 0 .. MaxSeq + 1
      BY <1>0, <2>3
    <3> HIDE DEF E
    <3>2. QED
      BY <1>0, <1>1, <3>1
  <2>6. h.expected \in M /\ \A y \in M : y <= h.expected
    <3> HIDE DEF M
    <3>1. MaxSeq + 1 \in Nat
      BY <1>0
    <3>2. QED
      BY <2>4, <2>5, <3>1, LargestIn
  <2> DEFINE f == h.expected
  <2> HIDE DEF C, E, h, open, e, f
  <2>7. f \in Int /\ e <= f /\ f <= MaxSeq + 1 /\ \A m \in E(n) : m < f
    <3>1. f \in 0 .. MaxSeq + 1
      BY <2>5, <2>6 DEF f
    <3>2. e <= f
      BY <2>6 DEF f
    <3>3. ASSUME NEW m \in E(n) PROVE m < f
      <4>1. m + 1 <= f
        BY <2>6 DEF f
      <4>2. m \in Int
        BY <2>3
      <4>3. QED
        BY <3>1, <4>1, <4>2
    <3>4. QED
      BY <1>0, <3>1, <3>2, <3>3
  <2>8. f = e \/ (f - 1 \in C /\ \A k \in n .. f - 1 : k \in C)
    <3>1. CASE f = e
      BY <3>1
    <3>2. CASE f # e
      <4>1. PICK m \in E(n) : f = m + 1
        BY <2>6, <3>2 DEF f
      <4>2. f - 1 = m /\ f - 1 \in n .. f - 1
        BY <2>3, <4>1
      <4>3. QED
        BY <2>3, <4>1, <4>2
    <3>3. QED
      BY <3>1, <3>2
  <2>9. f \in ack + 1 .. MaxSeq + 1 /\ (f = ack + 1 \/ f - 1 \in C)
    BY <1>0, <1>1, <2>7, <2>8
  <2>10. ASSUME NEW k \in 1 .. n, NEW m \in E(k) PROVE m < f
    <3>1. CASE k = n
      BY <2>7, <3>1
    <3>2. CASE k # n
      <4>1. k \in 1 .. n - 1
        BY <3>2
      <4>2. m < e /\ m \in Int
        BY <2>1, <4>1 DEF E, Ends, Seqs
      <4>3. QED
        BY <1>1, <2>7, <4>2
    <3>3. QED
      BY <3>1, <3>2
  <2>11. /\ \A k \in open : k \in Int /\ ack < k /\ k <= top /\ k \notin C
         /\ \A k \in Int : ack < k /\ k <= top /\ k \notin C => k \in open
    BY <1>0 DEF open, OpenTo, C
  <2>12. \A y \in Runs(open) : y[1] \in Int /\ y[1] \in open
    <3>1. ASSUME NEW y \in Runs(open) PROVE y[1] \in Int /\ y[1] \in open
      <4>1. y[1] \in Int /\ y[2] \in Int /\ y[1] <= y[2]
        BY DEF Runs, Ranges, Seqs
      <4>2. y[1] \in y[1] .. y[2]
        BY <4>1
      <4>3. QED
        BY <4>1, <4>2 DEF Runs
    <3>2. QED
      BY <3>1
  <2>13. n \in C /\ n <= top
    <3>1. PICK m \in E(n) : TRUE
      BY <1>5
    <3>2. n \in n .. m
      BY <2>3
    <3>3. n \in C
      BY <2>3, <3>2
    <3>4. QED
      BY <3>3 DEF C
  <2>14. Listed(h.gaps, f, open)
    <3>1. CASE n > e
      <4>1. h.gaps = Append(g.gaps, x)
        BY <2>4, <3>1
      <4>2. ASSUME NEW k \in e .. n - 1 PROVE k \in open
        <5>1. ack < k /\ k <= top /\ k <= n - 1 /\ e <= k /\ n - 1 \in 0 .. MaxSeq
          BY <1>0, <1>1, <2>13
        <5>2. ASSUME k \in C PROVE FALSE
          <6>1. k < e
            BY <1>1, <2>1, <5>1, <5>2, NoEvidenceAhead DEF C, E
          <6>2. QED
            BY <1>1, <5>1, <6>1
        <5>3. QED
          BY <1>1, <2>11, <5>1, <5>2
      <4>3. x \in Runs(open)
        <5>1. x \in Ranges /\ x[1] = e /\ x[2] = n - 1
          BY <1>0, <1>1, <3>1 DEF Ranges
        <5>2. e - 1 \notin open
          BY <1>1, <2>11
        <5>3. n - 1 + 1 \notin open
          BY <2>11, <2>13
        <5>4. QED
          BY <4>2, <5>1, <5>2, <5>3 DEF Runs
      <4>4. ASSUME NEW y \in Runs(open), e <= y[1], y[1] < f PROVE y = x
        <5>1. CASE y[1] <= n - 1
          <6>1. y[1] \in x[1] .. x[2]
            BY <1>1, <2>12, <4>4, <5>1
          <6>2. QED
            BY <4>3, <6>1, RunsMeet
        <5>2. CASE y[1] >= n
          <6>1. f # e
            BY <1>1, <2>7, <2>12, <3>1, <4>4, <5>2
          <6>2. y[1] \in n .. f - 1
            BY <2>7, <2>12, <4>4, <5>2
          <6>3. QED
            BY <2>8, <2>11, <2>12, <6>1, <6>2
        <5>3. QED
          BY <2>12, <5>1, <5>2
      <4>5. x[1] = e /\ x[2] < f
        <5>1. PICK m \in E(n) : TRUE
          BY <1>5
        <5>2. n <= m /\ m < f /\ m \in Int
          BY <2>3, <2>7
        <5>3. QED
          BY <2>7, <5>2
      <4> HIDE DEF x
      <4>6. QED
        BY <1>1, <2>2, <2>7, <4>1, <4>3, <4>4, <4>5, ListedAppend
    <3>2. CASE ~ (n > e)
      <4>1. h.gaps = g.gaps
        BY <2>4, <3>2
      <4>2. ASSUME NEW y \in Runs(open), e <= y[1], y[1] < f PROVE FALSE
        <5>1. f # e /\ y[1] \in n .. f - 1
          BY <1>1, <2>7, <2>12, <3>2, <4>2
        <5>2. QED
          BY <2>8, <2>11, <2>12, <5>1
      <4>3. QED
        BY <1>1, <2>7, <4>1, <4>2, ListedOn
    <3>3. QED
      BY <3>1, <3>2
  <2>15. GapInv(st, ls, ack, open, n, h)
    BY <2>4, <2>9, <2>10, <2>14 DEF GapInv, f, C, E
  <2>16. QED
    BY <2>15 DEF open, h, E
<1>6. QED
  BY <1>3, <1>4, <1>5

\* find_gaps after its loop.
GapsAfter(d, last) ==
    IF d.ack >= d.max THEN <<>>
    ELSE IF last.expected <= d.max /\ Len(last.gaps) < MaxGaps
         THEN Append(last.gaps, <<last.expected, d.max>>)
         ELSE last.gaps

\* The loop of find_gaps is defined.
LEMMA GapLoop ==
    ASSUME NEW st, NEW ls, NEW d \in DeviceRows
    PROVE  \E f :
               /\ f[0] = [expected |-> d.ack + 1, gaps |-> <<>>]
               /\ \A n \in 1 .. MaxSeq : f[n] = GapScan(f[n - 1], n, Ends(st, ls, d.ack, n))
               /\ FindGaps(d, st, ls) = GapsAfter(d, f[MaxSeq])
<1> DEFINE V == [expected : 0 .. MaxSeq + 1, gaps : Seq(Int \X Int)]
           E(n) == Ends(st, ls, d.ack, n)
           b == [expected |-> d.ack + 1, gaps |-> <<>>]
           T == [n \in 1 .. MaxSeq |-> [g \in V |-> GapScan(g, n, E(n))]]
           Body(f) == [n \in 0 .. MaxSeq |->
                          IF n = 0 THEN [expected |-> d.ack + 1, gaps |-> <<>>]
                          ELSE GapScan(f[n - 1], n, Ends(st, ls, d.ack, n))]
<1>1. MaxSeq \in Nat /\ d.ack \in 0 .. MaxSeq
  BY ConstantsAssumption DEF DeviceRows
<1>2. ASSUME NEW n \in 1 .. MaxSeq, NEW g \in V
      PROVE  GapScan(g, n, E(n)) \in V
  <2> DEFINE S == {g.expected} \cup {m + 1 : m \in E(n)}
  <2>1. S \subseteq 0 .. MaxSeq + 1 /\ S # {}
    <3>1. g.expected \in 0 .. MaxSeq + 1 /\ \A m \in E(n) : m + 1 \in 0 .. MaxSeq + 1
      BY <1>1, <1>2 DEF Ends, Seqs
    <3> HIDE DEF E
    <3>2. QED
      BY <3>1
  <2>2. Max(S) \in 0 .. MaxSeq + 1
    <3>1. MaxSeq + 1 \in Nat
      BY <1>1
    <3> HIDE DEF S
    <3>2. QED
      BY <2>1, <3>1, LargestIn
  <2>3. <<g.expected, n - 1>> \in Int \X Int
    BY <1>1, <1>2
  <2>4. Append(g.gaps, <<g.expected, n - 1>>) \in Seq(Int \X Int)
    BY <1>2, <2>3
  <2> HIDE DEF E
  <2>5. QED
    BY <1>2, <2>2, <2>4 DEF GapScan
<1>3. T \in [1 .. MaxSeq -> [V -> V]]
  <2> HIDE DEF V, E
  <2>1. QED
    BY <1>2
<1>4. b \in V
  BY <1>1
<1>5. PICK f \in [0 .. MaxSeq -> V] : f[0] = b /\ \A n \in 1 .. MaxSeq : f[n] = T[n][f[n - 1]]
  <2> HIDE DEF T, V, b
  <2>1. LoopRuns(MaxSeq, V, b, T) # {}
    BY <1>1, <1>3, <1>4, LoopHasRun
  <2>2. QED
    BY <2>1 DEF LoopRuns
<1>6. f = Body(f)
  <2>1. ASSUME NEW n \in 1 .. MaxSeq PROVE f[n] = GapScan(f[n - 1], n, Ends(st, ls, d.ack, n))
    <3>1. n - 1 \in 0 .. MaxSeq /\ f[n - 1] \in V
      <4> HIDE DEF V
      <4>1. QED
        BY <1>1
    <3> HIDE DEF V
    <3>2. QED
      BY <1>5, <3>1
  <2>2. ASSUME NEW n \in 0 .. MaxSeq PROVE f[n] = Body(f)[n]
    <3>1. CASE n = 0
      BY <1>5, <3>1
    <3>2. CASE n # 0
      <4>1. n \in 1 .. MaxSeq
        BY <3>2
      <4>2. QED
        BY <2>1, <3>2, <4>1
    <3>3. QED
      BY <3>1, <3>2
  <2> HIDE DEF V
  <2>3. QED
    BY <2>2
<1> DEFINE g == CHOOSE h : h = Body(h)
<1>7. g = Body(g)
  <2> HIDE DEF Body
  <2>1. QED
    BY <1>6
<1> HIDE DEF g
<1>8. /\ g[0] = [expected |-> d.ack + 1, gaps |-> <<>>]
      /\ \A n \in 1 .. MaxSeq : g[n] = GapScan(g[n - 1], n, Ends(st, ls, d.ack, n))
  <2> DEFINE G == Body(g)
  <2>1. /\ G[0] = [expected |-> d.ack + 1, gaps |-> <<>>]
        /\ \A n \in 1 .. MaxSeq : G[n] = GapScan(g[n - 1], n, Ends(st, ls, d.ack, n))
    BY <1>1
  <2>2. G = g
    BY <1>7
  <2> HIDE DEF G
  <2>3. QED
    BY <2>1, <2>2
<1>9. FindGaps(d, st, ls) = GapsAfter(d, g[MaxSeq])
  BY DEF FindGaps, GapsAfter, g
<1>10. QED
  BY <1>8, <1>9

\* find_gaps lists the first MaxGaps maximal runs without evidence between the
\* acknowledgement and the highest sequence known.
LEMMA FindGapsExact ==
    ASSUME NEW st, NEW ls, ls \subseteq Ranges, NEW d \in DeviceRows,
           d.ack < d.max \/ \A c \in Covered(st, ls) \cup {d.ack} : c <= d.max
    PROVE  GapList(FindGaps(d, st, ls),
                   Runs((d.ack + 1 .. Max(Covered(st, ls) \cup {d.max})) \ Covered(st, ls)))
<1> DEFINE C == Covered(st, ls)
           ack == d.ack
           K == C \cup {d.max}
           top == Max(K)
           open == OpenTo(st, ls, ack, top)
           E(n) == Ends(st, ls, ack, n)
<1>0. /\ MaxSeq \in Nat /\ Seqs = 1 .. MaxSeq /\ MaxGaps \in Nat \ {0}
      /\ C \subseteq Seqs /\ ack \in 0 .. MaxSeq /\ d.max \in 0 .. MaxSeq
  BY ConstantsAssumption DEF Seqs, Covered, DeviceRows
<1>1. top \in K /\ (\A c \in K : c <= top) /\ top \in 0 .. MaxSeq
  <2>1. K \subseteq 0 .. MaxSeq /\ K # {}
    BY <1>0
  <2> HIDE DEF K
  <2>2. QED
    BY <1>0, <2>1, LargestIn
<1>2. d.max <= top /\ (\A c \in C : c <= top) /\ (top \in C \/ top = d.max)
  <2> HIDE DEF top
  <2>1. QED
    BY <1>1
<1> HIDE DEF C, K, top, ack
<1>3. SUFFICES GapList(FindGaps(d, st, ls), Runs(open))
  BY DEF OpenTo, C, K, top, ack
<1>4. PICK f :
          /\ f[0] = [expected |-> d.ack + 1, gaps |-> <<>>]
          /\ \A n \in 1 .. MaxSeq : f[n] = GapScan(f[n - 1], n, Ends(st, ls, d.ack, n))
          /\ FindGaps(d, st, ls) = GapsAfter(d, f[MaxSeq])
  BY GapLoop
<1>5. /\ \A k \in open : k \in Int /\ ack < k /\ k <= top /\ k \notin C
      /\ \A k \in Int : ack < k /\ k <= top /\ k \notin C => k \in open
  BY <1>0, <1>1 DEF OpenTo, C
<1>6. \A y \in Runs(open) : /\ y[1] \in Int /\ y[2] \in Int /\ y = <<y[1], y[2]>>
                            /\ y[1] \in open /\ y[2] \in open
  <2>1. ASSUME NEW y \in Runs(open)
        PROVE  /\ y[1] \in Int /\ y[2] \in Int /\ y = <<y[1], y[2]>>
               /\ y[1] \in open /\ y[2] \in open
    <3>1. y[1] \in Int /\ y[2] \in Int /\ y[1] <= y[2] /\ y = <<y[1], y[2]>>
      BY DEF Runs, Ranges, Seqs
    <3>2. y[1] \in y[1] .. y[2] /\ y[2] \in y[1] .. y[2]
      BY <3>1
    <3>3. QED
      BY <3>1, <3>2 DEF Runs
  <2>2. QED
    BY <2>1
<1> HIDE DEF open
<1> DEFINE J(n) == GapInv(st, ls, ack, open, n, f[n])
           S == {n \in 0 .. MaxSeq : J(n)}
<1>7. J(0)
  <2>1. Listed(<<>>, ack + 1, open)
    <3>1. /\ <<>> \in Seq(Ranges) /\ Len(<<>>) = 0 /\ Len(<<>>) <= MaxGaps
      BY <1>0
    <3>2. \A y \in Runs(open) : ~ (y[1] < ack + 1)
      BY <1>0, <1>5, <1>6
    <3>3. QED
      BY <3>1, <3>2 DEF Listed
  <2>2. f[0] = [expected |-> ack + 1, gaps |-> <<>>]
    BY <1>4 DEF ack
  <2>3. QED
    BY <1>0, <2>1, <2>2 DEF GapInv
<1>8. ASSUME NEW n \in 1 .. MaxSeq, J(n - 1) PROVE J(n)
  <2>1. f[n] = GapScan(f[n - 1], n, Ends(st, ls, ack, n))
    BY <1>4 DEF ack
  <2>2. \A c \in Covered(st, ls) : c <= top
    BY <1>2 DEF C
  <2>3. GapInv(st, ls, ack, OpenTo(st, ls, ack, top), n - 1, f[n - 1])
    BY <1>8 DEF open
  <2>4. GapInv(st, ls, ack, OpenTo(st, ls, ack, top), n,
               GapScan(f[n - 1], n, Ends(st, ls, ack, n)))
    BY <1>0, <1>1, <2>2, <2>3, GapRound
  <2>5. QED
    BY <2>1, <2>4 DEF open
<1>9. J(MaxSeq)
  <2> HIDE DEF J
  <2>1. 0 \in S /\ \A n \in 1 .. MaxSeq : n - 1 \in S => n \in S
    BY <1>0, <1>7, <1>8
  <2> HIDE DEF S
  <2>2. \A n \in 0 .. MaxSeq : n \in S
    BY <1>0, <2>1, LoopInduction
  <2>3. QED
    BY <1>0, <2>2 DEF S
<1> DEFINE last == f[MaxSeq]
           e == last.expected
           gaps == last.gaps
<1>10. /\ e \in ack + 1 .. MaxSeq + 1 /\ e \in Int
       /\ e = ack + 1 \/ e - 1 \in C
       /\ Listed(gaps, e, open)
       /\ Len(gaps) < MaxGaps => \A k \in 1 .. MaxSeq : \A m \in E(k) : m < e
  BY <1>0, <1>9 DEF GapInv, C
<1>11. FindGaps(d, st, ls) = IF ack >= d.max THEN <<>>
                             ELSE IF e <= d.max /\ Len(gaps) < MaxGaps
                                  THEN Append(gaps, <<e, d.max>>) ELSE gaps
  BY <1>4 DEF GapsAfter, ack
<1> HIDE DEF e, gaps, last
<1>12. Len(gaps) \in Nat /\ Len(gaps) <= MaxGaps /\ gaps \in Seq(Ranges)
  BY <1>10 DEF Listed
\* A list of all runs, or of the first MaxGaps, is what GapList asks for.
<1>13. ASSUME NEW more, NEW h \in Int, Listed(more, h, open),
              Len(more) = MaxGaps \/ \A y \in Runs(open) : y[1] < h
       PROVE  GapList(more, Runs(open))
  <2>1. more \in Seq(Ranges) /\ DOMAIN more = 1 .. Len(more) /\ Len(more) \in Nat
    BY <1>13 DEF Listed
  <2>2. ASSUME NEW y \in Runs(open), ~ \E i \in 1 .. Len(more) : more[i] = y
        PROVE  Len(more) = MaxGaps /\ more[MaxGaps][2] < y[1]
    <3>1. ~ (y[1] < h)
      BY <1>13, <2>2 DEF Listed
    <3>2. Len(more) = MaxGaps
      BY <1>13, <3>1
    <3>3. more[MaxGaps] \in Runs(open) /\ more[MaxGaps][2] < h
      BY <1>0, <1>13, <3>2 DEF Listed
    <3>4. QED
      BY <1>6, <3>1, <3>2, <3>3
  <2>3. QED
    BY <1>13, <2>1, <2>2 DEF GapList, Listed
<1>14. CASE ack >= d.max
  <2>1. \A c \in C \cup {ack} : c <= d.max
    BY <1>0, <1>14 DEF C, ack
  <2>2. top <= ack
    BY <1>0, <1>1, <1>2, <1>14, <2>1
  <2>3. Runs(open) = {}
    BY <1>0, <1>1, <1>5, <1>6, <2>2
  <2>4. FindGaps(d, st, ls) = <<>>
    BY <1>11, <1>14
  <2>5. GapList(<<>>, {})
    BY <1>0 DEF GapList
  <2>6. QED
    BY <2>3, <2>4, <2>5
<1>15. CASE ~ (ack >= d.max) /\ Len(gaps) < MaxGaps
  <2>1. \A k \in 1 .. MaxSeq : \A m \in E(k) : m < e
    BY <1>10, <1>15
  <2>2. \A c \in C : c < e
    <3>1. ASSUME NEW c \in C, ack < c PROVE c < e
      <4>1. c <= MaxSeq /\ MaxSeq \in 0 .. MaxSeq
        BY <1>0
      <4>2. QED
        BY <1>0, <1>10, <2>1, <3>1, <4>1, NoEvidenceAhead DEF C
    <3>2. ASSUME NEW c \in C, c <= ack PROVE c < e
      BY <1>0, <1>10, <3>2
    <3>3. QED
      BY <1>0, <3>1, <3>2
  <2>3. CASE e <= d.max
    <3> DEFINE x == <<e, d.max>>
    <3>1. FindGaps(d, st, ls) = Append(gaps, x)
      BY <1>11, <1>15, <2>3
    <3>2. top = d.max
      BY <1>0, <1>1, <1>2, <1>10, <2>2, <2>3
    <3>3. ASSUME NEW k \in e .. d.max PROVE k \in open
      BY <1>0, <1>1, <1>5, <1>10, <2>2, <3>2
    <3>4. x \in Runs(open)
      <4>1. x \in Ranges /\ x[1] = e /\ x[2] = d.max
        BY <1>0, <1>10, <2>3 DEF Ranges
      <4>2. e - 1 \notin open
        BY <1>0, <1>5, <1>10
      <4>3. d.max + 1 \notin open
        BY <1>0, <1>5, <3>2
      <4>4. QED
        BY <3>3, <4>1, <4>2, <4>3 DEF Runs
    <3>5. ASSUME NEW y \in Runs(open), e <= y[1] PROVE y = x
      <4>1. y[1] \in x[1] .. x[2]
        BY <1>0, <1>5, <1>6, <1>10, <3>2, <3>5
      <4>2. QED
        BY <3>4, <4>1, RunsMeet
    <3>6. x[1] = e /\ x[2] < d.max + 1 /\ e <= d.max + 1 /\ d.max + 1 \in Int
      BY <1>0, <1>10, <2>3
    <3> HIDE DEF x
    <3>7. Listed(Append(gaps, x), d.max + 1, open)
      BY <1>10, <1>15, <3>4, <3>5, <3>6, ListedAppend
    <3>8. \A y \in Runs(open) : y[1] < d.max + 1
      BY <1>0, <1>5, <1>6, <3>2
    <3>9. QED
      BY <1>13, <3>1, <3>6, <3>7, <3>8
  <2>4. CASE ~ (e <= d.max)
    <3>1. FindGaps(d, st, ls) = gaps
      BY <1>11, <1>15, <2>4
    <3>2. top < e
      BY <1>0, <1>1, <1>2, <1>10, <2>2, <2>4
    <3>3. \A y \in Runs(open) : y[1] < e
      BY <1>0, <1>1, <1>5, <1>6, <1>10, <3>2
    <3>4. QED
      BY <1>10, <1>13, <3>1, <3>3
  <2>5. QED
    BY <2>3, <2>4
<1>16. CASE ~ (ack >= d.max) /\ ~ (Len(gaps) < MaxGaps)
  <2>1. FindGaps(d, st, ls) = gaps /\ Len(gaps) = MaxGaps
    BY <1>0, <1>11, <1>12, <1>16
  <2>2. QED
    BY <1>10, <1>13, <2>1
<1>17. QED
  BY <1>14, <1>15, <1>16

--------------------------------------------------------------------------------
(* The inductive invariant *)

\* A request in flight is of the kind of its payload.
KindsAgree ==
    \A s \in Slots : req[s] # Idle => req[s].kind = req[s].payload.kind

\* MaximumCoversEvidence, also of the rows that requests in flight read.
MaxInv ==
    lost \/ /\ \A n \in Covered(stored, losses) \cup {device.ack} : n <= device.max
            /\ \A s \in Slots : req[s] # Idle =>
                   /\ req[s].row.max <= device.max
                   /\ \A n \in Covered(stored, losses) \cup {device.ack} : n <= req[s].row.max

\* Sequence n was used in generation g.
Used(g, n) ==
    /\ UsedIn(g, n)
    /\ g = sensor.gen => n <= sensor.newest

\* The sensor is at most one reset ahead of the server, its floors ascend, and
\* what is stored or on its way was used in the generation it names.
SensorInv ==
    /\ device.gen <= sensor.gen /\ sensor.gen <= device.gen + 1
    /\ \A g \in 0 .. sensor.gen : 0 <= sensor.floor[g]
    /\ \A g, h \in 0 .. sensor.gen : g <= h => sensor.floor[g] <= sensor.floor[h]
    /\ sensor.floor[sensor.gen] <= sensor.newest
    /\ \A n \in Seqs : stored[n] # Missing => Used(stored[n].gen, n) /\ stored[n].gen <= device.gen
    /\ \A s \in Slots : req[s].kind = "readings" =>
           \A n \in req[s].payload.batch : Used(req[s].payload.gen, n)
    /\ \A s \in Slots : req[s].kind = "heartbeat" => req[s].payload.reset <= sensor.gen

\* The inductive invariant.
EvidenceInv ==
    /\ TypeOK
    /\ KindsAgree
    /\ AckInFlightIsFresh
    /\ MaxInv
    /\ EvidenceDisjoint
    /\ SensorInv

\* The fields of a request in flight.
LEMMA RequestShape ==
    ASSUME TypeOK, KindsAgree, NEW s \in Slots
    PROVE  /\ req[s] # Idle => req[s].row \in DeviceRows
           /\ req[s].kind \in {"readings", "loss", "heartbeat"} => req[s] # Idle
           /\ req[s].kind = "readings" =>
                  /\ req[s].payload.batch \in SUBSET Seqs /\ req[s].payload.batch # {}
                  /\ req[s].payload.gen \in Generations
                  /\ req[s].payload.content \in Contents
           /\ req[s].kind = "loss" => req[s].payload.range \in Ranges
           /\ req[s].kind = "heartbeat" =>
                  req[s].payload.newest \in 0 .. MaxSeq /\ req[s].payload.reset \in Generations
<1>1. req[s] = Idle \/ req[s] \in [kind : {"readings", "loss", "heartbeat"},
                                   payload : Payloads, row : DeviceRows]
  BY DEF TypeOK
<1>2. CASE req[s] = Idle
  BY <1>2 DEF Idle
<1>3. CASE req[s] # Idle
  <2>1. /\ req[s].row \in DeviceRows /\ req[s].payload \in Payloads
        /\ req[s].kind = req[s].payload.kind
    BY <1>1, <1>3 DEF KindsAgree
  <2> DEFINE p == req[s].payload
  <2>2. \/ p \in [kind : {"readings"}, batch : (SUBSET Seqs) \ {{}}, gen : Generations,
                  content : Contents]
        \/ p \in [kind : {"loss"}, range : Ranges]
        \/ p \in [kind : {"heartbeat"}, newest : 0 .. MaxSeq, reset : Generations]
    BY <2>1 DEF Payloads
  <2> HIDE DEF p
  <2>3. /\ p.kind = "readings" => /\ p.batch \in SUBSET Seqs /\ p.batch # {}
                                  /\ p.gen \in Generations /\ p.content \in Contents
        /\ p.kind = "loss" => p.range \in Ranges
        /\ p.kind = "heartbeat" => p.newest \in 0 .. MaxSeq /\ p.reset \in Generations
    <3>1. CASE p \in [kind : {"readings"}, batch : (SUBSET Seqs) \ {{}}, gen : Generations,
                       content : Contents]
      <4>1. p.batch \in (SUBSET Seqs) \ {{}} /\ p.gen \in Generations /\ p.content \in Contents
            /\ p.kind = "readings"
        BY <3>1
      <4>2. p.batch \in SUBSET Seqs /\ p.batch # {}
        BY <4>1
      <4>3. p.kind # "loss" /\ p.kind # "heartbeat"
        BY <4>1
      <4>4. QED
        BY <4>1, <4>2, <4>3
    <3>2. CASE p \in [kind : {"loss"}, range : Ranges]
      BY <3>2
    <3>3. CASE p \in [kind : {"heartbeat"}, newest : 0 .. MaxSeq, reset : Generations]
      BY <3>3
    <3>4. QED
      BY <2>2, <3>1, <3>2, <3>3
  <2>4. QED
    BY <1>3, <2>1, <2>3 DEF p
<1>4. QED
  BY <1>2, <1>3

\* Integers.
LEMMA ConstantTypes ==
    /\ MaxSeq \in Nat /\ MaxGen \in Nat
    /\ Seqs = 1 .. MaxSeq /\ Generations = 0 .. MaxGen
BY ConstantsAssumption DEF Seqs, Generations

\* The rows and the sensor, typed.
LEMMA RowTypes ==
    ASSUME TypeOK
    PROVE  /\ device = [ack |-> device.ack, max |-> device.max, gen |-> device.gen]
           /\ device.ack \in 0 .. MaxSeq /\ device.max \in 0 .. MaxSeq /\ device.gen \in 0 .. MaxGen
           /\ sensor.gen \in 0 .. MaxGen /\ sensor.newest \in 0 .. MaxSeq
           /\ sensor.floor \in [0 .. MaxGen -> -1 .. MaxSeq]
           /\ sensor = [gen |-> sensor.gen, floor |-> sensor.floor, newest |-> sensor.newest]
           /\ \A n \in Seqs : stored[n] # Missing => stored[n].gen \in 0 .. MaxGen
           /\ Covered(stored, losses) \subseteq 1 .. MaxSeq
BY DEF TypeOK, DeviceRows, Generations, NoFloor, Readings, Covered, Seqs

\* The invariant holds of the empty database.
LEMMA InitHolds == Init => EvidenceInv
<1> SUFFICES ASSUME Init PROVE EvidenceInv
  OBVIOUS
<1> USE ConstantTypes
<1>1. /\ device = [ack |-> 0, max |-> 0, gen |-> 0]
      /\ stored = [n \in Seqs |-> Missing]
      /\ losses = {}
      /\ sensor = [gen |-> 0, floor |-> [g \in Generations |-> IF g = 0 THEN 0 ELSE NoFloor],
                   newest |-> 0]
      /\ \A s \in Slots : req[s] = Idle /\ req[s].kind = "idle"
      /\ lost = FALSE
  BY DEF Init, Idle
<1>2. TypeOK
  <2>1. sensor.floor \in [Generations -> NoFloor .. MaxSeq]
    BY <1>1 DEF NoFloor
  <2>2. QED
    <3>1. device \in DeviceRows
      BY <1>1 DEF DeviceRows
    <3>0. losses \subseteq Ranges /\ lost \in BOOLEAN
      BY <1>1
    <3>2. stored \in [Seqs -> Readings \cup {Missing}]
      BY <1>1
    <3>3. sensor \in [gen : Generations, floor : [Generations -> NoFloor .. MaxSeq],
                     newest : 0 .. MaxSeq]
      <4>1. sensor.gen \in Generations /\ sensor.newest \in 0 .. MaxSeq
        BY <1>1
      <4>2. sensor = [gen |-> sensor.gen, floor |-> sensor.floor, newest |-> sensor.newest]
        BY <1>1
      <4>3. QED
        BY <2>1, <4>1, <4>2
    <3>4. req \in [Slots -> {Idle} \cup [kind : {"readings", "loss", "heartbeat"},
                                       payload : Payloads, row : DeviceRows]]
      BY DEF Init
    <3>5. QED
      BY <3>0, <3>1, <3>2, <3>3, <3>4 DEF TypeOK
<1>3. KindsAgree /\ AckInFlightIsFresh
  BY <1>1 DEF KindsAgree, AckInFlightIsFresh
<1>4. MaxInv
  <2>1. Covered(stored, losses) = {}
    BY <1>1 DEF Covered
  <2>2. QED
    BY <1>1, <2>1 DEF MaxInv
<1>5. EvidenceDisjoint
  BY <1>1 DEF EvidenceDisjoint
<1>6. SensorInv
  BY <1>1 DEF SensorInv
<1>7. QED
  BY <1>2, <1>3, <1>4, <1>5, <1>6 DEF EvidenceInv

\* A request ends: the others are as they were.
LEMMA RequestEnds ==
    ASSUME TypeOK, KindsAgree, NEW s \in Slots, req' = [req EXCEPT ![s] = Idle]
    PROVE  /\ req' \in [Slots -> {Idle} \cup [kind : {"readings", "loss", "heartbeat"},
                                              payload : Payloads, row : DeviceRows]]
           /\ KindsAgree'
           /\ \A t \in Slots : req'[t] = Idle \/ req'[t] = req[t]
           /\ \A t \in Slots : req'[t] # Idle => req[t] # Idle /\ req'[t] = req[t]
           /\ \A t \in Slots : req'[t].kind # "idle" => req'[t] = req[t]
           /\ ForUpdate(s) => \A t \in Slots : req'[t] = Idle /\ req'[t].kind = "idle"
<1>1. req \in [Slots -> {Idle} \cup [kind : {"readings", "loss", "heartbeat"},
                                     payload : Payloads, row : DeviceRows]]
  BY DEF TypeOK
<1>2. \A t \in Slots : req'[t] = IF t = s THEN Idle ELSE req[t]
  BY <1>1
<1>3. Idle.kind = "idle"
  BY DEF Idle
<1>4. KindsAgree'
  BY <1>2 DEF KindsAgree
<1>5. ForUpdate(s) => \A t \in Slots : req'[t] = Idle
  BY <1>2 DEF ForUpdate
<1>6. QED
  BY <1>1, <1>2, <1>3, <1>4, <1>5

\* A request that is given up.
LEMMA AbandonKeeps ==
    ASSUME EvidenceInv, NEW s \in Slots, AbandonRequest(s)
    PROVE  EvidenceInv'
<1>1. /\ TypeOK /\ KindsAgree /\ AckInFlightIsFresh /\ MaxInv /\ EvidenceDisjoint /\ SensorInv
      /\ req' = [req EXCEPT ![s] = Idle]
      /\ UNCHANGED <<device, stored, losses, sensor, lost>>
  BY DEF EvidenceInv, AbandonRequest
<1>2. /\ req' \in [Slots -> {Idle} \cup [kind : {"readings", "loss", "heartbeat"},
                                         payload : Payloads, row : DeviceRows]]
      /\ KindsAgree'
      /\ \A t \in Slots : req'[t] # Idle => req[t] # Idle /\ req'[t] = req[t]
      /\ \A t \in Slots : req'[t].kind # "idle" => req'[t] = req[t]
  BY <1>1, RequestEnds
<1>3. TypeOK'
  BY <1>1, <1>2 DEF TypeOK
<1>4. AckInFlightIsFresh'
  BY <1>1, <1>2 DEF AckInFlightIsFresh
<1>5. MaxInv'
  BY <1>1, <1>2 DEF MaxInv
<1>6. EvidenceDisjoint'
  BY <1>1 DEF EvidenceDisjoint
<1>7. SensorInv'
  BY <1>1, <1>2 DEF SensorInv, Used, UsedIn
<1>8. QED
  BY <1>2, <1>3, <1>4, <1>5, <1>6, <1>7 DEF EvidenceInv

\* The floor of the next generation is written.
LEMMA FloorWritten ==
    ASSUME NEW f \in [0 .. MaxGen -> -1 .. MaxSeq], NEW k \in 0 .. MaxGen, k < MaxGen,
           NEW v \in 0 .. MaxSeq
    PROVE  /\ k + 1 \in 0 .. MaxGen
           /\ [f EXCEPT ![k + 1] = v][k + 1] = v
           /\ \A h \in 0 .. k : [f EXCEPT ![k + 1] = v][h] = f[h]
           /\ [f EXCEPT ![k + 1] = v] \in [0 .. MaxGen -> -1 .. MaxSeq]
BY ConstantTypes

\* The floors of the first generations, up to k, are in order.
Rising(f, k) ==
    /\ \A g \in 0 .. k : 0 <= f[g]
    /\ \A g, h \in 0 .. k : g <= h => f[g] <= f[h]

\* A floor written above the last one keeps the floors in order.
LEMMA FloorsRise ==
    ASSUME NEW f \in [0 .. MaxGen -> -1 .. MaxSeq], NEW k \in 0 .. MaxGen, k < MaxGen,
           NEW v \in 0 .. MaxSeq, NEW w \in 0 .. MaxSeq, f[k] <= w, w <= v, Rising(f, k)
    PROVE  Rising([f EXCEPT ![k + 1] = v], k + 1) /\ [f EXCEPT ![k + 1] = v][k + 1] = v
<1> DEFINE F == [f EXCEPT ![k + 1] = v]
<1>1. F[k + 1] = v /\ \A h \in 0 .. k : F[h] = f[h]
  BY FloorWritten
<1>2. k \in Nat /\ v \in Nat /\ \A h \in 0 .. k : f[h] \in Int
  BY ConstantTypes
<1> HIDE DEF F
<1>3. \A h \in 0 .. k : f[h] <= v
  <2>1. k \in 0 .. k /\ w \in Int
    BY <1>2
  <2>2. \A h \in 0 .. k : h <= k
    BY <1>2
  <2>3. QED
    BY <1>2, <2>1, <2>2 DEF Rising
<1>4. \A g \in 0 .. k + 1 : g = k + 1 \/ g \in 0 .. k
  BY <1>2
<1>5. \A g \in 0 .. k + 1 : 0 <= F[g]
  BY <1>1, <1>2, <1>4 DEF Rising
<1>6. ASSUME NEW g \in 0 .. k + 1, NEW h \in 0 .. k + 1, g <= h PROVE F[g] <= F[h]
  <2>1. CASE h = k + 1
    BY <1>1, <1>2, <1>3, <1>4, <2>1
  <2>2. CASE h # k + 1
    <3>1. g \in 0 .. k /\ h \in 0 .. k
      BY <1>2, <1>6, <2>2
    <3>2. QED
      BY <1>1, <1>6, <3>1 DEF Rising
  <2>3. QED
    BY <2>1, <2>2
<1>7. QED
  BY <1>1, <1>5, <1>6 DEF F, Rising

\* What was used stays used when the sensor resets or its newest sequence grows.
LEMMA UsedStays ==
    ASSUME TypeOK, SensorInv, NEW g \in 0 .. MaxGen, NEW n \in 1 .. MaxSeq, Used(g, n),
           sensor'.newest \in 0 .. MaxSeq, sensor'.newest >= sensor.newest,
           \/ sensor'.gen = sensor.gen /\ sensor'.floor = sensor.floor
           \/ \E floor \in 0 .. MaxSeq :
                  /\ sensor.gen < MaxGen /\ floor >= sensor.newest
                  /\ sensor'.gen = sensor.gen + 1
                  /\ sensor'.floor = [sensor.floor EXCEPT ![sensor.gen + 1] = floor]
    PROVE  Used(g, n)'
<1> USE ConstantTypes
<1>1. /\ sensor.gen \in 0 .. MaxGen /\ sensor.newest \in 0 .. MaxSeq
      /\ sensor.floor \in [0 .. MaxGen -> -1 .. MaxSeq]
  BY RowTypes
<1>2. /\ g <= sensor.gen /\ n > sensor.floor[g]
      /\ g < sensor.gen => n <= sensor.floor[g + 1]
      /\ g = sensor.gen => n <= sensor.newest
  BY DEF Used, UsedIn
<1>3. CASE sensor'.gen = sensor.gen /\ sensor'.floor = sensor.floor
  BY <1>1, <1>2, <1>3 DEF Used, UsedIn
<1>4. ASSUME NEW floor \in 0 .. MaxSeq,
             sensor.gen < MaxGen, floor >= sensor.newest,
             sensor'.gen = sensor.gen + 1,
             sensor'.floor = [sensor.floor EXCEPT ![sensor.gen + 1] = floor]
      PROVE  Used(g, n)'
  <2>1. /\ sensor.gen + 1 \in 0 .. MaxGen
        /\ sensor'.floor[sensor.gen + 1] = floor
        /\ \A h \in 0 .. sensor.gen : sensor'.floor[h] = sensor.floor[h]
    <3> DEFINE k == sensor.gen
               f == sensor.floor
    <3>1. k \in 0 .. MaxGen /\ k < MaxGen /\ f \in [0 .. MaxGen -> -1 .. MaxSeq]
      BY <1>1, <1>4
    <3>2. sensor'.floor = [f EXCEPT ![k + 1] = floor]
      BY <1>4
    <3> HIDE DEF k, f
    <3>3. /\ k + 1 \in 0 .. MaxGen /\ sensor'.floor[k + 1] = floor
          /\ \A h \in 0 .. k : sensor'.floor[h] = f[h]
      BY <3>1, <3>2, FloorWritten
    <3>4. QED
      BY <3>3 DEF k, f
  <2>2. g \in 0 .. sensor.gen /\ sensor'.floor[g] = sensor.floor[g]
    BY <1>1, <1>2, <2>1
  <2>3. n <= sensor'.floor[g + 1]
    <3>1. CASE g = sensor.gen
      BY <1>1, <1>2, <1>4, <2>1, <3>1
    <3>2. CASE g < sensor.gen
      <4>1. g + 1 \in 0 .. sensor.gen
        BY <1>1, <3>2
      <4>2. QED
        BY <1>2, <2>1, <3>2, <4>1
    <3>3. QED
      BY <1>1, <2>2, <3>1, <3>2
  <2>4. g <= sensor'.gen /\ g # sensor'.gen
    BY <1>1, <1>4, <2>2
  <2>5. QED
    BY <1>2, <2>2, <2>3, <2>4 DEF Used, UsedIn
<1>5. QED
  BY <1>3, <1>4

\* The sensor resets its data.
LEMMA SensorResetsKeeps ==
    ASSUME EvidenceInv, NEW floor \in 0 .. MaxSeq, SensorResets(floor)
    PROVE  EvidenceInv'
<1> USE ConstantTypes
<1>1. /\ TypeOK /\ KindsAgree /\ AckInFlightIsFresh /\ MaxInv /\ EvidenceDisjoint /\ SensorInv
      /\ UNCHANGED <<device, stored, losses, req, lost>>
      /\ sensor.gen = device.gen /\ sensor.gen < MaxGen /\ floor >= sensor.newest
      /\ sensor' = [gen |-> sensor.gen + 1,
                    floor |-> [sensor.floor EXCEPT ![sensor.gen + 1] = floor],
                    newest |-> floor]
  BY DEF EvidenceInv, SensorResets
<1>2. /\ sensor.gen \in 0 .. MaxGen /\ sensor.newest \in 0 .. MaxSeq /\ device.gen \in 0 .. MaxGen
      /\ sensor.floor \in [0 .. MaxGen -> -1 .. MaxSeq]
      /\ \A n \in Seqs : stored[n] # Missing => stored[n].gen \in 0 .. MaxGen
  BY <1>1, RowTypes
<1>3. /\ sensor'.gen = sensor.gen + 1 /\ sensor'.newest = floor
      /\ sensor'.floor = [sensor.floor EXCEPT ![sensor.gen + 1] = floor]
  BY <1>1
<1>4. TypeOK'
  BY <1>1, <1>2 DEF TypeOK, NoFloor
<1>5. KindsAgree' /\ AckInFlightIsFresh' /\ MaxInv' /\ EvidenceDisjoint'
  BY <1>1 DEF KindsAgree, AckInFlightIsFresh, MaxInv, EvidenceDisjoint
<1>6. \A g \in 0 .. MaxGen, n \in 1 .. MaxSeq : Used(g, n) => Used(g, n)'
  <2>1. sensor'.newest \in 0 .. MaxSeq /\ sensor'.newest >= sensor.newest
    BY <1>1, <1>3
  <2>2. QED
    BY <1>1, <1>3, <2>1, UsedStays
<1>7. SensorInv'
  <2>1. Rising(sensor.floor, sensor.gen) /\ sensor.floor[sensor.gen] <= sensor.newest
    BY <1>1, Zenon DEF SensorInv, Rising
  <2>2. Rising(sensor'.floor, sensor'.gen) /\ sensor'.floor[sensor.gen + 1] = floor
    <3>1. sensor.newest <= floor
      BY <1>1, <1>2
    <3>2. QED
      <4> DEFINE f == sensor.floor
                 k == sensor.gen
                 w == sensor.newest
                 written == [f EXCEPT ![k + 1] = floor]
      <4>1. /\ f \in [0 .. MaxGen -> -1 .. MaxSeq] /\ k \in 0 .. MaxGen /\ k < MaxGen
            /\ floor \in 0 .. MaxSeq /\ w \in 0 .. MaxSeq
        BY <1>1, <1>2
      <4>2. Rising(f, k) /\ f[k] <= w /\ w <= floor
        BY <2>1, <3>1
      <4>3. written = sensor'.floor /\ sensor'.gen = k + 1
        BY <1>3
      <4> HIDE DEF f, k, w
      <4>4. Rising(written, k + 1) /\ written[k + 1] = floor
        BY <4>1, <4>2, FloorsRise
      <4> HIDE DEF written
      <4>5. QED
        BY <4>3, <4>4, Zenon DEF k
  <2>3. /\ \A g \in 0 .. sensor'.gen : 0 <= sensor'.floor[g]
        /\ \A g, h \in 0 .. sensor'.gen : g <= h => sensor'.floor[g] <= sensor'.floor[h]
    BY <2>2, Zenon DEF Rising
  <2>5. device'.gen <= sensor'.gen /\ sensor'.gen <= device'.gen + 1
    <3>1. device'.gen = device.gen /\ sensor.gen = device.gen
      BY <1>1
    <3>2. QED
      BY <1>2, <1>3, <3>1
  <2>6. sensor'.floor[sensor'.gen] <= sensor'.newest
    BY <1>2, <1>3, <2>2
  <2>7. ASSUME NEW n \in Seqs, stored'[n] # Missing
        PROVE  Used(stored[n].gen, n)' /\ stored'[n].gen <= device'.gen
    BY <1>1, <1>2, <1>6, <2>7 DEF SensorInv
  <2>8. ASSUME NEW s \in Slots, req'[s].kind = "readings", NEW n \in req'[s].payload.batch
        PROVE  Used(req[s].payload.gen, n)'
    <3>1. Used(req[s].payload.gen, n)
      BY <1>1, <2>8 DEF SensorInv
    <3>2. req[s].payload.gen \in 0 .. MaxGen /\ n \in 1 .. MaxSeq
      BY <1>1, <2>8, RequestShape
    <3>3. QED
      BY <1>1, <1>6, <3>1, <3>2
  <2>9. ASSUME NEW s \in Slots, req'[s].kind = "heartbeat"
        PROVE  req'[s].payload.reset <= sensor'.gen
    <3>1. req'[s].payload.reset <= sensor.gen /\ req'[s].payload.reset \in Int
      BY <1>1, <2>9, RequestShape DEF SensorInv
    <3>2. QED
      BY <1>2, <1>3, <3>1
  <2>10. QED
    BY <2>3, <2>5, <2>6, <2>7, <2>8, <2>9 DEF SensorInv
<1>8. QED
  BY <1>4, <1>5, <1>7 DEF EvidenceInv

\* A request is authenticated.
LEMMA BeginKeeps ==
    ASSUME EvidenceInv, NEW s \in Slots, NEW p \in Payloads, BeginRequest(s, p)
    PROVE  EvidenceInv'
<1> USE ConstantTypes
<1> DEFINE R == [kind |-> p.kind, payload |-> p, row |-> device]
<1>1. /\ TypeOK /\ KindsAgree /\ AckInFlightIsFresh /\ MaxInv /\ EvidenceDisjoint /\ SensorInv
      /\ Sendable(p)
      /\ req' = [req EXCEPT ![s] = R]
      /\ sensor' = [sensor EXCEPT !.newest = Max({@, Highest(p)})]
      /\ UNCHANGED <<device, stored, losses, lost>>
  BY DEF EvidenceInv, BeginRequest
<1>2. /\ sensor.gen \in 0 .. MaxGen /\ sensor.newest \in 0 .. MaxSeq /\ device.gen \in 0 .. MaxGen
      /\ sensor.floor \in [0 .. MaxGen -> -1 .. MaxSeq]
      /\ sensor = [gen |-> sensor.gen, floor |-> sensor.floor, newest |-> sensor.newest]
      /\ \A n \in Seqs : stored[n] # Missing => stored[n].gen \in 0 .. MaxGen
  BY <1>1, RowTypes
<1>3. \/ /\ p.kind = "readings" /\ p.batch \in (SUBSET Seqs) \ {{}}
         /\ p.gen \in Generations /\ p.content \in Contents
      \/ p.kind = "loss" /\ p.range \in Ranges
      \/ p.kind = "heartbeat" /\ p.newest \in 0 .. MaxSeq /\ p.reset \in Generations
  <2>1. CASE p \in [kind : {"readings"}, batch : (SUBSET Seqs) \ {{}}, gen : Generations,
                    content : Contents]
    BY <2>1
  <2>2. CASE p \in [kind : {"loss"}, range : Ranges]
    BY <2>2
  <2>3. CASE p \in [kind : {"heartbeat"}, newest : 0 .. MaxSeq, reset : Generations]
    BY <2>3
  <2>4. QED
    BY <2>1, <2>2, <2>3 DEF Payloads
<1>4. /\ Highest(p) \in 0 .. MaxSeq
      /\ p.kind = "readings" => \A n \in p.batch : n <= Highest(p)
  <2>1. CASE p.kind = "readings"
    <3> DEFINE B == p.batch
    <3>1. B \subseteq 0 .. MaxSeq /\ B # {}
      BY <1>3, <2>1
    <3>2. Highest(p) = Max(B)
      BY <2>1 DEF Highest
    <3> HIDE DEF B
    <3>3. Max(B) \in B /\ \A n \in B : n <= Max(B)
      BY <3>1, LargestIn
    <3>4. QED
      BY <3>1, <3>2, <3>3 DEF B
  <2>2. CASE p.kind = "loss"
    <3>1. p.range \in Ranges
      BY <1>3, <2>2
    <3>2. QED
      BY <2>2, <3>1 DEF Highest, Ranges
  <2>3. CASE p.kind = "heartbeat"
    <3>1. p.newest \in 0 .. MaxSeq
      BY <1>3, <2>3
    <3>2. QED
      BY <2>3, <3>1 DEF Highest
  <2>4. QED
    BY <1>3, <2>1, <2>2, <2>3
<1> DEFINE top == Max({sensor.newest, Highest(p)})
<1>5. top \in 0 .. MaxSeq /\ sensor.newest <= top /\ Highest(p) <= top
  <2> DEFINE T == {sensor.newest, Highest(p)}
  <2>1. T \subseteq 0 .. MaxSeq /\ T # {}
    BY <1>2, <1>4
  <2>2. Max(T) \in T /\ \A n \in T : n <= Max(T)
    BY <2>1, LargestIn
  <2>3. QED
    BY <2>1, <2>2
<1>6. /\ sensor'.gen = sensor.gen /\ sensor'.floor = sensor.floor /\ sensor'.newest = top
      /\ sensor' = [gen |-> sensor.gen, floor |-> sensor.floor, newest |-> top]
  BY <1>1, <1>2
<1> HIDE DEF top
<1>7. req \in [Slots -> {Idle} \cup [kind : {"readings", "loss", "heartbeat"},
                                     payload : Payloads, row : DeviceRows]]
      /\ device \in DeviceRows
  BY <1>1 DEF TypeOK
<1>8. /\ R \in [kind : {"readings", "loss", "heartbeat"}, payload : Payloads, row : DeviceRows]
      /\ R.kind = p.kind /\ R.payload = p /\ R.row = device
  BY <1>3, <1>7
<1> HIDE DEF R
<1>9. /\ \A t \in Slots : req'[t] = IF t = s THEN R ELSE req[t]
      /\ req' \in [Slots -> {Idle} \cup [kind : {"readings", "loss", "heartbeat"},
                                         payload : Payloads, row : DeviceRows]]
  BY <1>1, <1>7, <1>8
<1>10. TypeOK'
  <2>1. sensor' \in [gen : Generations, floor : [Generations -> NoFloor .. MaxSeq],
                     newest : 0 .. MaxSeq]
    BY <1>2, <1>5, <1>6 DEF NoFloor
  <2>2. QED
    BY <1>1, <1>9, <2>1 DEF TypeOK
<1>11. KindsAgree'
  BY <1>1, <1>8, <1>9 DEF KindsAgree
<1>12. AckInFlightIsFresh'
  BY <1>1, <1>8, <1>9 DEF AckInFlightIsFresh
<1>13. MaxInv'
  <2>1. CASE lost
    BY <1>1, <2>1 DEF MaxInv
  <2>2. CASE ~ lost
    <3> DEFINE D == Covered(stored, losses) \cup {device.ack}
    <3>1. D' = D /\ device.max <= device.max
      BY <1>1, RowTypes
    <3>2. /\ \A n \in D : n <= device.max
          /\ \A t \in Slots : req[t] # Idle =>
                 req[t].row.max <= device.max /\ \A n \in D : n <= req[t].row.max
      BY <1>1, <2>2 DEF MaxInv
    <3>3. \A t \in Slots : req'[t] # Idle =>
                 req'[t].row.max <= device.max /\ \A n \in D : n <= req'[t].row.max
      <4> HIDE DEF D
      <4>1. QED
        BY <1>8, <1>9, <3>1, <3>2
    <3>4. QED
      BY <1>1, <3>1, <3>2, <3>3 DEF MaxInv
  <2>3. QED
    BY <2>1, <2>2
<1>14. EvidenceDisjoint'
  BY <1>1 DEF EvidenceDisjoint
<1>15. \A g \in 0 .. MaxGen, n \in 1 .. MaxSeq : Used(g, n) => Used(g, n)'
  <2>1. sensor'.newest \in 0 .. MaxSeq /\ sensor'.newest >= sensor.newest
    BY <1>2, <1>5, <1>6
  <2>2. QED
    BY <1>1, <1>6, <2>1, UsedStays
<1>16. SensorInv'
  <2>1. /\ device'.gen <= sensor'.gen /\ sensor'.gen <= device'.gen + 1
        /\ \A g \in 0 .. sensor'.gen : 0 <= sensor'.floor[g]
        /\ \A g, h \in 0 .. sensor'.gen : g <= h => sensor'.floor[g] <= sensor'.floor[h]
    BY <1>1, <1>6 DEF SensorInv
  <2>2. sensor'.floor[sensor'.gen] <= sensor'.newest
    <3>1. sensor.floor[sensor.gen] <= sensor.newest /\ sensor.floor[sensor.gen] \in Int
      BY <1>1, <1>2 DEF SensorInv
    <3>2. QED
      BY <1>2, <1>5, <1>6, <3>1
  <2>3. ASSUME NEW n \in Seqs, stored'[n] # Missing
        PROVE  Used(stored[n].gen, n)' /\ stored'[n].gen <= device'.gen
    BY <1>1, <1>2, <1>15, <2>3 DEF SensorInv
  <2>4. ASSUME NEW t \in Slots, req'[t].kind = "readings", NEW n \in req'[t].payload.batch
        PROVE  Used(req[t].payload.gen, n)'
    <3>1. CASE t = s
      <4>1. p.kind = "readings" /\ n \in p.batch /\ req'[t].payload.gen = p.gen
        BY <1>8, <1>9, <2>4, <3>1
      <4>2. p.gen \in 0 .. MaxGen /\ n \in 1 .. MaxSeq
        BY <1>3, <4>1
      <4>3. UsedIn(p.gen, n)
        BY <1>1, <4>1 DEF Sendable
      <4>4. n <= top
        BY <1>4, <1>5, <4>1, <4>2
      <4>5. Used(p.gen, n)'
        BY <1>6, <4>3, <4>4 DEF Used, UsedIn
      <4>6. QED
        BY <4>1, <4>5
    <3>2. CASE t # s
      <4>1. req'[t] = req[t]
        BY <1>9, <3>2
      <4>2. Used(req[t].payload.gen, n)
        BY <1>1, <2>4, <4>1 DEF SensorInv
      <4>3. req[t].payload.gen \in 0 .. MaxGen /\ n \in 1 .. MaxSeq
        BY <1>1, <2>4, <4>1, RequestShape
      <4>4. QED
        BY <1>15, <4>1, <4>2, <4>3
    <3>3. QED
      BY <3>1, <3>2
  <2>5. ASSUME NEW t \in Slots, req'[t].kind = "heartbeat"
        PROVE  req'[t].payload.reset <= sensor'.gen
    <3>1. CASE t = s
      <4>1. p.kind = "heartbeat" /\ req'[t].payload = p
        BY <1>8, <1>9, <2>5, <3>1
      <4>2. p.reset \in {0, sensor.gen}
        BY <1>1, <4>1 DEF Sendable
      <4>3. QED
        BY <1>2, <1>6, <4>1, <4>2
    <3>2. CASE t # s
      BY <1>1, <1>6, <1>9, <2>5, <3>2 DEF SensorInv
    <3>3. QED
      BY <3>1, <3>2
  <2>6. QED
    BY <2>1, <2>2, <2>3, <2>4, <2>5 DEF SensorInv
<1>17. QED
  BY <1>10, <1>11, <1>12, <1>13, <1>14, <1>16 DEF EvidenceInv

\* What a session that read the row as `row' writes, when acknowledgement and
\* generation are still as it read them.
LEMMA FlushWrites ==
    ASSUME NEW row, NEW new, row.ack = device.ack, row.gen = device.gen
    PROVE  Flush(row, new) = [ack |-> new.ack,
                              max |-> IF new.max # row.max THEN new.max ELSE device.max,
                              gen |-> new.gen]
BY DEF Flush

\* A step that leaves the sensor as it is, leaves no request in flight, and
\* writes readings or losses and the row together.
LEMMA WriteKeeps ==
    ASSUME EvidenceInv, NEW s \in Slots, ForUpdate(s),
           req' = [req EXCEPT ![s] = Idle], UNCHANGED sensor,
           device' \in DeviceRows,
           stored' \in [Seqs -> Readings \cup {Missing}], losses' \subseteq Ranges,
           lost' \in BOOLEAN,
           lost' \/ \A n \in Covered(stored', losses') \cup {device'.ack} : n <= device'.max,
           EvidenceDisjoint',
           device'.gen \in {device.gen, sensor.gen},
           \A n \in Seqs : stored'[n] # Missing =>
               \/ stored'[n] = stored[n]
               \/ stored'[n].gen = device.gen /\ Used(device.gen, n)
    PROVE  EvidenceInv'
<1> USE ConstantTypes
<1>1. TypeOK /\ KindsAgree /\ SensorInv /\ AckInFlightIsFresh
  BY DEF EvidenceInv
<1>2. /\ req' \in [Slots -> {Idle} \cup [kind : {"readings", "loss", "heartbeat"},
                                         payload : Payloads, row : DeviceRows]]
      /\ KindsAgree'
      /\ \A t \in Slots : req'[t] = Idle /\ req'[t].kind = "idle"
  BY <1>1, RequestEnds
<1>3. TypeOK'
  BY <1>1, <1>2 DEF TypeOK
<1>4. AckInFlightIsFresh' /\ MaxInv'
  BY <1>2 DEF AckInFlightIsFresh, MaxInv
<1>5. SensorInv'
  <2>1. /\ device.gen <= sensor.gen /\ sensor.gen <= device.gen + 1
        /\ device.gen \in 0 .. MaxGen /\ sensor.gen \in 0 .. MaxGen
    BY <1>1, RowTypes DEF SensorInv
  <2>2. /\ device'.gen <= sensor'.gen /\ sensor'.gen <= device'.gen + 1
        /\ device.gen <= device'.gen
    BY <2>1
  <2>3. /\ \A g \in 0 .. sensor'.gen : 0 <= sensor'.floor[g]
        /\ \A g, h \in 0 .. sensor'.gen : g <= h => sensor'.floor[g] <= sensor'.floor[h]
        /\ sensor'.floor[sensor'.gen] <= sensor'.newest
    BY <1>1 DEF SensorInv
  <2>4. \A g, n : Used(g, n) => Used(g, n)'
    BY DEF Used, UsedIn
  <2>5. ASSUME NEW n \in Seqs, stored'[n] # Missing
        PROVE  Used(stored[n].gen, n)' /\ stored'[n].gen <= device'.gen
    <3>1. CASE stored'[n] = stored[n]
      <4>1. Used(stored[n].gen, n) /\ stored[n].gen <= device.gen /\ stored[n].gen \in Int
        BY <1>1, <2>5, <3>1, RowTypes DEF SensorInv
      <4>2. stored'[n].gen <= device'.gen
        BY <2>1, <2>2, <3>1, <4>1
      <4>3. QED
        BY <2>4, <3>1, <4>1, <4>2
    <3>2. CASE stored'[n].gen = device.gen /\ Used(device.gen, n)
      BY <2>1, <2>2, <2>4, <3>2
    <3>3. QED
      BY <2>5, <3>1, <3>2
  <2>6. QED
    BY <1>2, <2>2, <2>3, <2>5 DEF SensorInv
<1>6. QED
  BY <1>2, <1>3, <1>4, <1>5 DEF EvidenceInv

\* The cursor after new evidence: typed, and at the row's acknowledgement or at
\* recorded evidence.
LEMMA CursorAdvances ==
    ASSUME NEW st, NEW ls, ls \subseteq Ranges, NEW ack \in 0 .. MaxSeq
    PROVE  /\ AdvanceContiguousCursor(st, ls, ack) \in 0 .. MaxSeq
           /\ \/ AdvanceContiguousCursor(st, ls, ack) = ack
              \/ AdvanceContiguousCursor(st, ls, ack) \in Covered(st, ls)
<1> DEFINE c == AdvanceContiguousCursor(st, ls, ack)
<1>1. c \in ack .. MaxSeq /\ \A m \in ack + 1 .. c : m \in Covered(st, ls)
  BY CursorIsRunEnd
<1> HIDE DEF c
<1>2. c = ack \/ c \in ack + 1 .. c
  BY <1>1, ConstantTypes
<1>3. c \in 0 .. MaxSeq
  BY <1>1, ConstantTypes
<1>4. QED
  BY <1>1, <1>2, <1>3 DEF c

\* A row with a new maximum and a new acknowledgement.
LEMMA RowExcept ==
    ASSUME NEW a, NEW m, NEW g, NEW b, NEW n, NEW row,
           row = [ack |-> a, max |-> m, gen |-> g]
    PROVE  /\ [row EXCEPT !.max = n, !.ack = b].ack = b
           /\ [row EXCEPT !.max = n, !.ack = b].max = n
           /\ [row EXCEPT !.max = n, !.ack = b].gen = g
           /\ [row EXCEPT !.max = n].ack = a
           /\ [row EXCEPT !.max = n].max = n
           /\ [row EXCEPT !.max = n].gen = g
OBVIOUS

\* A session that holds the row read it as it is, up to maximum_sequence, which
\* it may have read before another request raised it.
LEMMA RowAsRead ==
    ASSUME EvidenceInv, NEW s \in Slots, req[s] # Idle
    PROVE  /\ req[s].row \in DeviceRows
           /\ req[s].row = [ack |-> device.ack, max |-> req[s].row.max, gen |-> device.gen]
           /\ req[s].row.ack = device.ack /\ req[s].row.gen = device.gen
           /\ req[s].row.max \in 0 .. MaxSeq
           /\ lost \/ /\ req[s].row.max <= device.max
                      /\ \A n \in Covered(stored, losses) \cup {device.ack} : n <= req[s].row.max
<1>1. TypeOK /\ KindsAgree /\ AckInFlightIsFresh /\ MaxInv
  BY DEF EvidenceInv
<1>2. req[s].row \in DeviceRows
  BY <1>1, RequestShape
<1>3. req[s].row.ack = device.ack /\ req[s].row.gen = device.gen
  BY <1>1 DEF AckInFlightIsFresh
<1>4. QED
  BY <1>1, <1>2, <1>3 DEF DeviceRows, MaxInv

\* A batch is ingested.
LEMMA IngestKeeps ==
    ASSUME EvidenceInv, NEW s \in Slots, IngestBatch(s)
    PROVE  EvidenceInv'
<1> USE ConstantTypes
<1> DEFINE p == req[s].payload
           row == req[s].row
           B == p.batch
           reading == [gen |-> p.gen, content |-> p.content]
           c == AdvanceContiguousCursor(stored', losses, row.ack)
           M == Max({row.max} \cup B)
<1>1. /\ TypeOK /\ KindsAgree /\ EvidenceDisjoint /\ SensorInv /\ MaxInv
      /\ req[s].kind = "readings" /\ ForUpdate(s) /\ BatchAccepted(p, row)
      /\ stored' = [n \in Seqs |-> IF n \in B THEN reading ELSE stored[n]]
      /\ device' = Flush(row, [row EXCEPT !.max = M, !.ack = c])
      /\ req' = [req EXCEPT ![s] = Idle]
      /\ UNCHANGED <<losses, sensor, lost>>
  BY DEF EvidenceInv, IngestBatch
<1>2. /\ req[s] # Idle /\ B \subseteq Seqs /\ B # {}
      /\ p.gen \in Generations /\ p.content \in Contents
  BY <1>1, RequestShape
<1>3. /\ row \in DeviceRows
      /\ row = [ack |-> device.ack, max |-> row.max, gen |-> device.gen]
      /\ row.ack = device.ack /\ row.gen = device.gen
      /\ row.max \in 0 .. MaxSeq
      /\ lost \/ /\ row.max <= device.max
                 /\ \A n \in Covered(stored, losses) \cup {device.ack} : n <= row.max
  BY <1>2, RowAsRead
<1>4. /\ device.ack \in 0 .. MaxSeq /\ device.max \in 0 .. MaxSeq /\ device.gen \in 0 .. MaxGen
      /\ losses \subseteq Ranges /\ stored \in [Seqs -> Readings \cup {Missing}]
      /\ lost \in BOOLEAN
  BY <1>1, RowTypes DEF TypeOK
<1>5. M \in {row.max} \cup B /\ M \in 0 .. MaxSeq /\ \A n \in {row.max} \cup B : n <= M
  <2> DEFINE T == {row.max} \cup B
  <2>1. T \subseteq 0 .. MaxSeq /\ T # {}
    BY <1>2, <1>3
  <2>2. Max(T) \in T /\ \A n \in T : n <= Max(T)
    <3> HIDE DEF T
    <3>1. QED
      BY <2>1, LargestIn
  <2>3. QED
    BY <2>1, <2>2
<1>6. c \in 0 .. MaxSeq /\ (c = device.ack \/ c \in Covered(stored', losses))
  BY <1>3, <1>4, CursorAdvances
<1>7. /\ device' = [ack |-> c, max |-> IF M # row.max THEN M ELSE device.max, gen |-> device.gen]
  <2> DEFINE new == [row EXCEPT !.max = M, !.ack = c]
  <2> HIDE DEF M, c, row
  <2>1. new.ack = c /\ new.max = M /\ new.gen = device.gen
    BY <1>3, RowExcept
  <2>2. device' = Flush(row, new)
    BY <1>1
  <2> HIDE DEF new
  <2>3. QED
    BY <1>3, <2>1, <2>2, FlushWrites
<1>8. reading \in Readings /\ reading # Missing /\ reading.gen = p.gen
  BY <1>2 DEF Readings, Missing
<1> HIDE DEF c, M, B, reading, p, row
<1>9. /\ device'.ack = c /\ device'.gen = device.gen
      /\ device'.max = IF M # row.max THEN M ELSE device.max
      /\ device' \in DeviceRows
  BY <1>4, <1>5, <1>6, <1>7 DEF DeviceRows
<1>10. stored' \in [Seqs -> Readings \cup {Missing}]
       /\ \A n \in Seqs : stored'[n] = IF n \in B THEN reading ELSE stored[n]
  BY <1>1, <1>4, <1>8
<1>11. \A n \in Covered(stored', losses) : n \in Covered(stored, losses) \/ n \in B
  BY <1>10 DEF Covered
<1>12. ASSUME ~ lost'
       PROVE  \A n \in Covered(stored', losses') \cup {device'.ack} : n <= device'.max
  <2>1. /\ row.max <= device.max
        /\ \A n \in Covered(stored, losses) \cup {device.ack} : n <= row.max
    BY <1>1, <1>3, <1>12
  <2>2. row.max <= device'.max /\ device'.max \in Int
    BY <1>3, <1>4, <1>5, <1>9, <2>1
  <2>3. \A n \in B : n <= device'.max
    <3>1. CASE M # row.max
      BY <1>5, <1>9, <3>1
    <3>2. CASE M = row.max
      BY <1>2, <1>3, <1>4, <1>5, <1>9, <2>1, <3>2
    <3>3. QED
      BY <3>1, <3>2
  <2>4. \A n \in Covered(stored, losses) \cup {device.ack} : n \in Int
    BY <1>4 DEF Covered
  <2>5. \A n \in Covered(stored, losses) \cup {device.ack} : n <= device'.max
    BY <1>3, <2>1, <2>2, <2>4
  <2>6. QED
    BY <1>1, <1>6, <1>9, <1>11, <2>3, <2>5
<1>13. EvidenceDisjoint'
  <2>1. ASSUME NEW x \in losses, NEW n \in x[1] .. x[2] PROVE stored'[n] = Missing
    <3>1. n \in Seqs /\ x[1] <= n /\ n <= x[2]
      BY <1>4 DEF Ranges
    <3>2. stored[n] = Missing
      BY <1>1 DEF EvidenceDisjoint
    <3>3. n \notin B
      BY <1>1, <3>1, <3>2 DEF BatchAccepted, B
    <3>4. QED
      BY <1>10, <3>1, <3>2, <3>3
  <2>2. QED
    BY <1>1, <2>1 DEF EvidenceDisjoint
<1>14. ASSUME NEW n \in Seqs, stored'[n] # Missing
       PROVE  \/ stored'[n] = stored[n]
              \/ stored'[n].gen = device.gen /\ Used(device.gen, n)
  <2>1. CASE n \notin B
    BY <1>10, <2>1
  <2>2. CASE n \in B /\ stored[n] # Missing
    BY <1>1, <1>10, <2>2 DEF BatchAccepted, B, reading
  <2>3. CASE n \in B /\ stored[n] = Missing
    <3>1. p.gen = device.gen
      BY <1>1, <1>3, <2>3 DEF BatchAccepted, B
    <3>2. Used(p.gen, n)
      BY <1>1, <2>3 DEF SensorInv, B, p
    <3>3. QED
      BY <1>8, <1>10, <2>3, <3>1, <3>2
  <2>4. QED
    BY <2>1, <2>2, <2>3
<1>15. /\ losses' \subseteq Ranges /\ lost' \in BOOLEAN
       /\ lost' \/ \A n \in Covered(stored', losses') \cup {device'.ack} : n <= device'.max
       /\ device'.gen \in {device.gen, sensor.gen} /\ UNCHANGED sensor
  BY <1>1, <1>4, <1>9, <1>12
<1>16. QED
  BY <1>1, <1>9, <1>10, <1>13, <1>14, <1>15, WriteKeeps

\* A permanent loss is recorded.
LEMMA LossKeeps ==
    ASSUME EvidenceInv, NEW s \in Slots, RecordPermanentLoss(s)
    PROVE  EvidenceInv'
<1> USE ConstantTypes
<1> DEFINE x == req[s].payload.range
           row == req[s].row
           c == AdvanceContiguousCursor(stored, losses', row.ack)
           M == IF x \in losses THEN row.max ELSE Max({row.max, x[2]})
<1>1. /\ TypeOK /\ KindsAgree /\ EvidenceDisjoint /\ SensorInv /\ MaxInv
      /\ req[s].kind = "loss" /\ ForUpdate(s) /\ LossAccepted(x)
      /\ losses' = losses \cup {x}
      /\ device' = Flush(row, [row EXCEPT !.max = M, !.ack = c])
      /\ req' = [req EXCEPT ![s] = Idle]
      /\ UNCHANGED <<stored, sensor, lost>>
  BY DEF EvidenceInv, RecordPermanentLoss
<1>2. req[s] # Idle /\ x \in Ranges
  BY <1>1, RequestShape
<1>3. /\ row \in DeviceRows
      /\ row = [ack |-> device.ack, max |-> row.max, gen |-> device.gen]
      /\ row.ack = device.ack /\ row.gen = device.gen
      /\ row.max \in 0 .. MaxSeq
      /\ lost \/ /\ row.max <= device.max
                 /\ \A n \in Covered(stored, losses) \cup {device.ack} : n <= row.max
  BY <1>2, RowAsRead
<1>4. /\ device.ack \in 0 .. MaxSeq /\ device.max \in 0 .. MaxSeq /\ device.gen \in 0 .. MaxGen
      /\ losses \subseteq Ranges /\ stored \in [Seqs -> Readings \cup {Missing}]
      /\ lost \in BOOLEAN
  BY <1>1, RowTypes DEF TypeOK
<1>5. x[1] \in 1 .. MaxSeq /\ x[2] \in 1 .. MaxSeq /\ losses' \subseteq Ranges
  BY <1>1, <1>2, <1>4 DEF Ranges
<1>6. M \in 0 .. MaxSeq /\ row.max <= M /\ (x \in losses \/ x[2] <= M)
  <2> DEFINE T == {row.max, x[2]}
  <2>1. T \subseteq 0 .. MaxSeq /\ T # {}
    BY <1>3, <1>5
  <2>2. Max(T) \in T /\ \A n \in T : n <= Max(T)
    <3> HIDE DEF T
    <3>1. QED
      BY <2>1, LargestIn
  <2>3. QED
    BY <1>3, <2>1, <2>2
<1>7. c \in 0 .. MaxSeq /\ (c = device.ack \/ c \in Covered(stored, losses'))
  BY <1>3, <1>4, <1>5, CursorAdvances
<1>8. device' = [ack |-> c, max |-> IF M # row.max THEN M ELSE device.max, gen |-> device.gen]
  <2> DEFINE new == [row EXCEPT !.max = M, !.ack = c]
  <2> HIDE DEF M, c, row
  <2>1. new.ack = c /\ new.max = M /\ new.gen = device.gen
    BY <1>3, RowExcept
  <2>2. device' = Flush(row, new)
    BY <1>1
  <2> HIDE DEF new
  <2>3. QED
    BY <1>3, <2>1, <2>2, FlushWrites
<1> HIDE DEF c, M, row, x
<1>9. /\ device'.ack = c /\ device'.gen = device.gen
      /\ device'.max = IF M # row.max THEN M ELSE device.max
      /\ device' \in DeviceRows
  BY <1>4, <1>6, <1>7, <1>8 DEF DeviceRows
<1>10. ASSUME NEW n \in Covered(stored, losses')
       PROVE  n \in Covered(stored, losses) \/ (x \notin losses /\ n <= x[2])
  <2>1. n \in Seqs /\ (stored[n] # Missing \/ \E y \in losses \cup {x} : y[1] <= n /\ n <= y[2])
    BY <1>1 DEF Covered
  <2>2. QED
    BY <2>1 DEF Covered
<1>11. ASSUME ~ lost'
       PROVE  \A n \in Covered(stored', losses') \cup {device'.ack} : n <= device'.max
  <2>1. /\ row.max <= device.max
        /\ \A n \in Covered(stored, losses) \cup {device.ack} : n <= row.max
    BY <1>1, <1>3, <1>11
  <2>2. row.max <= device'.max /\ device'.max \in Int /\ M <= device'.max
    BY <1>3, <1>4, <1>6, <1>9, <2>1
  <2>3. \A n \in Covered(stored, losses) \cup {device.ack} : n \in Int
    BY <1>4 DEF Covered
  <2>4. \A n \in Covered(stored, losses) \cup {device.ack} : n <= device'.max
    BY <1>3, <2>1, <2>2, <2>3
  <2>5. \A n \in Covered(stored, losses') : n <= device'.max
    <3>1. ASSUME NEW n \in Covered(stored, losses') PROVE n <= device'.max
      <4>1. n \in Int
        BY DEF Covered
      <4>2. CASE n \in Covered(stored, losses)
        BY <2>4, <4>2
      <4>3. CASE x \notin losses /\ n <= x[2]
        BY <1>5, <1>6, <2>2, <4>1, <4>3
      <4>4. QED
        BY <1>10, <4>2, <4>3
    <3>2. QED
      BY <3>1
  <2>6. QED
    BY <1>1, <1>7, <1>9, <2>4, <2>5
<1>12. EvidenceDisjoint'
  BY <1>1 DEF EvidenceDisjoint, LossAccepted
<1>13. /\ losses' \subseteq Ranges /\ lost' \in BOOLEAN
       /\ lost' \/ \A n \in Covered(stored', losses') \cup {device'.ack} : n <= device'.max
       /\ device'.gen \in {device.gen, sensor.gen} /\ UNCHANGED sensor
       /\ stored' \in [Seqs -> Readings \cup {Missing}]
       /\ \A n \in Seqs : stored'[n] # Missing =>
               \/ stored'[n] = stored[n]
               \/ stored'[n].gen = device.gen /\ Used(device.gen, n)
  BY <1>1, <1>4, <1>5, <1>9, <1>11
<1>14. QED
  BY <1>1, <1>9, <1>12, <1>13, WriteKeeps

\* A heartbeat, with or without the completion of a data reset.
LEMMA HeartbeatKeeps ==
    ASSUME EvidenceInv, NEW s \in Slots, Heartbeat(s)
    PROVE  EvidenceInv'
<1> USE ConstantTypes
<1> DEFINE p == req[s].payload
           row == req[s].row
           floor == sensor.floor[p.reset]
           d == IF p.reset > device.gen THEN [ack |-> floor, max |-> floor, gen |-> p.reset]
                ELSE row
           M == Max({d.max, p.newest})
<1>1. /\ TypeOK /\ KindsAgree /\ AckInFlightIsFresh /\ EvidenceDisjoint /\ SensorInv /\ MaxInv
      /\ req[s].kind = "heartbeat"
      /\ p.reset > device.gen => ForUpdate(s) /\ p.reset = row.gen + 1 /\ floor >= row.max
      /\ device' = Flush(row, [d EXCEPT !.max = M])
      /\ req' = [req EXCEPT ![s] = Idle]
      /\ lost' = (lost \/ device'.max < device.max)
      /\ UNCHANGED <<stored, losses, sensor>>
  BY DEF EvidenceInv, Heartbeat
<1>2. /\ req[s] # Idle /\ p.newest \in 0 .. MaxSeq /\ p.reset \in 0 .. MaxGen
      /\ p.reset <= sensor.gen
  BY <1>1, RequestShape DEF SensorInv
<1>3. /\ row \in DeviceRows
      /\ row = [ack |-> device.ack, max |-> row.max, gen |-> device.gen]
      /\ row.ack = device.ack /\ row.gen = device.gen
      /\ row.max \in 0 .. MaxSeq
      /\ lost \/ /\ row.max <= device.max
                 /\ \A n \in Covered(stored, losses) \cup {device.ack} : n <= row.max
  BY <1>2, RowAsRead
<1>4. /\ device.ack \in 0 .. MaxSeq /\ device.max \in 0 .. MaxSeq /\ device.gen \in 0 .. MaxGen
      /\ sensor.gen \in 0 .. MaxGen /\ sensor.floor \in [0 .. MaxGen -> -1 .. MaxSeq]
      /\ losses \subseteq Ranges /\ stored \in [Seqs -> Readings \cup {Missing}]
      /\ lost \in BOOLEAN
      /\ Covered(stored, losses) \subseteq 1 .. MaxSeq
  BY <1>1, RowTypes DEF TypeOK
<1>5. \A n \in Covered(stored, losses) \cup {device.ack} : n \in Int
  BY <1>4
<1>6. floor \in 0 .. MaxSeq
  <2>1. p.reset \in 0 .. sensor.gen
    BY <1>2, <1>4
  <2>2. 0 <= floor
    BY <1>1, <2>1 DEF SensorInv
  <2>3. QED
    BY <1>2, <1>4, <2>2
<1> HIDE DEF floor, p, row
<1>7. /\ d.max \in 0 .. MaxSeq
      /\ d = [ack |-> d.ack, max |-> d.max, gen |-> d.gen]
  BY <1>3, <1>6
<1>8. M \in 0 .. MaxSeq /\ d.max <= M
  <2> DEFINE T == {d.max, p.newest}
  <2>1. T \subseteq 0 .. MaxSeq /\ T # {}
    BY <1>2, <1>7
  <2>2. Max(T) \in T /\ \A n \in T : n <= Max(T)
    <3> HIDE DEF T
    <3>1. QED
      BY <2>1, LargestIn
  <2>3. QED
    BY <2>1, <2>2
<1>9. /\ device' = [ack |-> d.ack, max |-> IF M # row.max THEN M ELSE device.max, gen |-> d.gen]
  <2> DEFINE new == [d EXCEPT !.max = M]
  <2> HIDE DEF M, d
  <2>1. new.ack = d.ack /\ new.max = M /\ new.gen = d.gen
    BY <1>7, RowExcept
  <2>2. device' = Flush(row, new)
    BY <1>1
  <2> HIDE DEF new
  <2>3. QED
    BY <1>3, <2>1, <2>2, FlushWrites
<1>10. EvidenceDisjoint'
  BY <1>1 DEF EvidenceDisjoint
<1> HIDE DEF M
<1>11. /\ device'.ack = d.ack /\ device'.gen = d.gen
       /\ device'.max = IF M # row.max THEN M ELSE device.max
       /\ device'.max \in 0 .. MaxSeq
  <2> HIDE DEF d
  <2>1. QED
    BY <1>4, <1>8, <1>9
<1>12. lost' \in BOOLEAN
  BY <1>1, <1>4
<1>13. CASE p.reset > device.gen
  <2>1. d.ack = floor /\ d.max = floor /\ d.gen = p.reset
    BY <1>13
  <2>2. ForUpdate(s) /\ p.reset = device.gen + 1 /\ floor >= row.max
    BY <1>1, <1>3, <1>13
  <2>3. p.reset = sensor.gen
    <3>1. sensor.gen <= device.gen + 1
      BY <1>1 DEF SensorInv
    <3>2. QED
      BY <1>2, <1>4, <2>2, <3>1
  <2>4. device' \in DeviceRows
    BY <1>2, <1>6, <1>9, <1>11, <2>1 DEF DeviceRows
  <2>5. ASSUME ~ lost'
        PROVE  \A n \in Covered(stored', losses') \cup {device'.ack} : n <= device'.max
    <3>1. /\ row.max <= device.max
          /\ \A n \in Covered(stored, losses) \cup {device.ack} : n <= row.max
      BY <1>1, <1>3, <2>5
    <3>2. floor <= device'.max
      BY <1>3, <1>4, <1>6, <1>8, <1>11, <2>1, <2>2, <3>1
    <3>3. \A n \in Covered(stored, losses) : n <= device'.max
      BY <1>3, <1>4, <1>5, <1>6, <1>11, <2>2, <3>1, <3>2
    <3>4. QED
      BY <1>1, <1>11, <2>1, <3>2, <3>3
  <2>6. /\ losses' \subseteq Ranges /\ lost' \in BOOLEAN
        /\ lost' \/ \A n \in Covered(stored', losses') \cup {device'.ack} : n <= device'.max
        /\ device'.gen \in {device.gen, sensor.gen} /\ UNCHANGED sensor
        /\ stored' \in [Seqs -> Readings \cup {Missing}]
        /\ \A n \in Seqs : stored'[n] # Missing =>
                \/ stored'[n] = stored[n]
                \/ stored'[n].gen = device.gen /\ Used(device.gen, n)
    BY <1>1, <1>4, <1>11, <1>12, <2>1, <2>3, <2>5
  <2>7. QED
    BY <1>1, <1>10, <2>2, <2>4, <2>6, WriteKeeps
<1>14. CASE ~ (p.reset > device.gen)
  <2>1. d.ack = device.ack /\ d.max = row.max /\ d.gen = device.gen
    BY <1>3, <1>14
  <2> HIDE DEF d
  <2>2. device' \in DeviceRows
    BY <1>4, <1>9, <1>11, <2>1 DEF DeviceRows
  <2>3. /\ req' \in [Slots -> {Idle} \cup [kind : {"readings", "loss", "heartbeat"},
                                           payload : Payloads, row : DeviceRows]]
        /\ KindsAgree'
        /\ \A t \in Slots : req'[t] # Idle => req[t] # Idle /\ req'[t] = req[t]
        /\ \A t \in Slots : req'[t].kind # "idle" => req'[t] = req[t]
    BY <1>1, RequestEnds
  <2>4. TypeOK'
    BY <1>1, <1>12, <2>2, <2>3 DEF TypeOK
  <2>5. AckInFlightIsFresh'
    BY <1>1, <1>11, <2>1, <2>3 DEF AckInFlightIsFresh
  <2>6. MaxInv'
    <3>1. CASE lost'
      BY <3>1 DEF MaxInv
    <3>2. CASE ~ lost'
      <4> DEFINE D == Covered(stored, losses) \cup {device.ack}
      <4>1. device.max <= device'.max /\ ~ lost
        <5>1. lost' = (lost \/ device'.max < device.max)
          BY <1>1
        <5>2. ~ (device'.max < device.max) /\ ~ lost
          BY <3>2, <5>1, Zenon
        <5>3. QED
          BY <1>4, <1>11, <5>2
      <4>2. D' = D
        BY <1>1, <1>11, <2>1
      <4>3. /\ \A n \in D : n <= device.max /\ n \in Int
            /\ \A t \in Slots : req[t] # Idle =>
                   req[t].row.max <= device.max /\ \A n \in D : n <= req[t].row.max
        BY <1>1, <1>5, <4>1 DEF MaxInv
      <4>4. \A t \in Slots : req[t] # Idle => req[t].row.max \in Int
        <5>1. \A t \in Slots : req[t] # Idle => req[t].row.max \in 0 .. MaxSeq
          BY RowAsRead
        <5>2. QED
          BY <5>1
      <4> HIDE DEF D
      <4>5. \A n \in D : n <= device'.max
        BY <1>4, <1>11, <4>1, <4>3
      <4>6. \A t \in Slots : req'[t] # Idle =>
                   req'[t].row.max <= device'.max /\ \A n \in D : n <= req'[t].row.max
        <5> TAKE t \in Slots
        <5> HAVE req'[t] # Idle
        <5>1. req[t] # Idle /\ req'[t] = req[t]
          BY <2>3
        <5>2. /\ req[t].row.max <= device.max /\ req[t].row.max \in Int
              /\ \A n \in D : n <= req[t].row.max
          BY <4>3, <4>4, <5>1
        <5>3. device.max \in Int /\ device'.max \in Int
          BY <1>4, <1>11
        <5>4. req[t].row.max <= device'.max
          BY <4>1, <5>2, <5>3
        <5>5. QED
          BY <5>1, <5>2, <5>4
      <4>7. QED
        BY <4>2, <4>5, <4>6 DEF MaxInv, D
    <3>3. QED
      BY <3>1, <3>2
  <2>7. SensorInv'
    BY <1>1, <1>11, <2>1, <2>3 DEF SensorInv, Used, UsedIn
  <2>8. QED
    BY <1>10, <2>3, <2>4, <2>5, <2>6, <2>7 DEF EvidenceInv
<1>15. QED
  BY <1>13, <1>14

\* EvidenceInv is inductive.
LEMMA EvidenceStep == EvidenceInv /\ [Next]_vars => EvidenceInv'
<1> SUFFICES ASSUME EvidenceInv, [Next]_vars PROVE EvidenceInv'
  OBVIOUS
<1>1. ASSUME NEW floor \in 0 .. MaxSeq, SensorResets(floor) PROVE EvidenceInv'
  BY <1>1, SensorResetsKeeps
<1>2. ASSUME NEW s \in Slots, NEW p \in Payloads, BeginRequest(s, p) PROVE EvidenceInv'
  BY <1>2, BeginKeeps
<1>3. ASSUME NEW s \in Slots, IngestBatch(s) PROVE EvidenceInv'
  BY <1>3, IngestKeeps
<1>4. ASSUME NEW s \in Slots, RecordPermanentLoss(s) PROVE EvidenceInv'
  BY <1>4, LossKeeps
<1>5. ASSUME NEW s \in Slots, Heartbeat(s) PROVE EvidenceInv'
  BY <1>5, HeartbeatKeeps
<1>6. ASSUME NEW s \in Slots, AbandonRequest(s) PROVE EvidenceInv'
  BY <1>6, AbandonKeeps
<1>7. CASE UNCHANGED vars
  BY <1>7 DEF vars, EvidenceInv, TypeOK, KindsAgree, AckInFlightIsFresh, MaxInv,
              EvidenceDisjoint, SensorInv, Used, UsedIn
<1>8. QED
  BY <1>1, <1>2, <1>3, <1>4, <1>5, <1>6, <1>7 DEF Next

\* The inductive invariant implies the evidence is sound.
LEMMA EvidenceInvImplies == EvidenceInv => EvidenceSound
<1> SUFFICES ASSUME EvidenceInv PROVE EvidenceSound
  OBVIOUS
<1> USE ConstantTypes
<1>1. TypeOK /\ AckInFlightIsFresh /\ MaxInv /\ EvidenceDisjoint /\ SensorInv
  BY DEF EvidenceInv
<1>2. MaximumCoversEvidence
  BY <1>1 DEF MaxInv, MaximumCoversEvidence
<1>3. GenerationsSeparated
  <2>1. ASSUME NEW n \in Seqs, stored[n] # Missing
        PROVE  stored[n].gen = device.gen <=> n > sensor.floor[device.gen]
    <3> DEFINE g == stored[n].gen
    <3>1. /\ g \in 0 .. MaxGen /\ device.gen \in 0 .. MaxGen /\ sensor.gen \in 0 .. MaxGen
          /\ sensor.floor \in [0 .. MaxGen -> -1 .. MaxSeq]
      BY <1>1, <2>1, RowTypes
    <3>2. /\ g <= device.gen /\ device.gen <= sensor.gen
          /\ n > sensor.floor[g]
          /\ g < sensor.gen => n <= sensor.floor[g + 1]
      BY <1>1, <2>1 DEF SensorInv, Used, UsedIn
    <3> HIDE DEF g
    <3>3. CASE g = device.gen
      BY <3>2, <3>3 DEF g
    <3>4. CASE g < device.gen
      <4> HIDE DEF g
      <4>1. /\ g + 1 \in 0 .. sensor.gen /\ device.gen \in 0 .. sensor.gen /\ g + 1 <= device.gen
            /\ g + 1 \in 0 .. MaxGen
        <5>1. g \in Int /\ device.gen \in Int /\ sensor.gen \in Int /\ 0 <= g /\ 0 <= device.gen
          BY <3>1
        <5>2. MaxGen \in Int /\ sensor.gen <= MaxGen
          BY <3>1, ConstantTypes
        <5>3. device.gen <= sensor.gen
          BY <3>2
        <5>4. QED
          BY <3>4, <5>1, <5>2, <5>3
      <4>2. sensor.floor[g + 1] <= sensor.floor[device.gen]
        BY <1>1, <4>1 DEF SensorInv
      <4>3. n <= sensor.floor[g + 1]
        <5>1. g < sensor.gen
          BY <3>1, <4>1
        <5>2. QED
          BY <3>2, <5>1
      <4>4. sensor.floor[g + 1] \in Int /\ sensor.floor[device.gen] \in Int /\ n \in Int
        <5>1. \A h \in 0 .. MaxGen : sensor.floor[h] \in Int
          BY <3>1
        <5>2. QED
          BY <3>1, <4>1, <5>1 DEF Seqs
      <4>5. ~ (n > sensor.floor[device.gen])
        BY <4>2, <4>3, <4>4
      <4>6. QED
        BY <3>1, <3>4, <4>5 DEF g
    <3>5. QED
      BY <3>1, <3>2, <3>3, <3>4
  <2>2. QED
    BY <2>1 DEF GenerationsSeparated
<1>4. GapsExact
  <2>1. losses \subseteq Ranges /\ device \in DeviceRows
    BY <1>1 DEF TypeOK
  <2>2. device.ack \in Int /\ device.max \in Int
    BY <1>1, RowTypes
  <2>3. CASE lost /\ device.ack >= device.max
    BY <2>3 DEF GapsExact
  <2>4. CASE ~ (lost /\ device.ack >= device.max)
    <3>1. \/ device.ack < device.max
          \/ \A c \in Covered(stored, losses) \cup {device.ack} : c <= device.max
      BY <1>2, <2>2, <2>4 DEF MaximumCoversEvidence
    <3>2. GapList(FindGaps(device, stored, losses),
                  Runs((device.ack + 1 .. Max(Covered(stored, losses) \cup {device.max}))
                           \ Covered(stored, losses)))
      BY <2>1, <3>1, FindGapsExact
    <3>3. QED
      BY <3>2 DEF GapsExact
  <2>5. QED
    BY <2>3, <2>4
<1>5. QED
  BY <1>1, <1>2, <1>3, <1>4 DEF EvidenceSound

\* The inductive invariant holds of every state the server and the sensor reach.
THEOREM EvidenceInvariant == Spec => []EvidenceInv
BY InitHolds, EvidenceStep, PTL DEF Spec

\* The evidence of a sensor is sound (EvidenceSound) for any number of requests
\* in flight, sequences, data resets and contents: maximum, generations,
\* readings and losses, gaps and the acknowledgement requests work on.
THEOREM EvidenceCorrect == Spec => []EvidenceSound
BY EvidenceInvariant, EvidenceInvImplies, PTL

--------------------------------------------------------------------------------
(* The acknowledgement implements the abstract cursor *)

\* The end of the run, as the abstract cursor defines it.
LEMMA RunEndIsCursor ==
    ASSUME NEW st, NEW ls, ls \subseteq Ranges, NEW ack \in 0 .. MaxSeq
    PROVE  Cursor!RunEnd(Covered(st, ls), ack) = AdvanceContiguousCursor(st, ls, ack)
<1> USE ConstantTypes
<1> DEFINE C == Covered(st, ls)
           c == AdvanceContiguousCursor(st, ls, ack)
           T == {m \in ack .. MaxSeq : \A n \in ack + 1 .. m : n \in C}
<1>1. c \in ack .. MaxSeq /\ (\A m \in ack + 1 .. c : m \in C) /\ c + 1 \notin C
  BY CursorIsRunEnd
<1> HIDE DEF c, C
<1>2. c \in T /\ \A m \in T : m <= c
  <2>1. c \in T
    BY <1>1
  <2>2. ASSUME NEW m \in T, ~ (m <= c) PROVE FALSE
    <3>1. c + 1 \in ack + 1 .. m
      BY <1>1, <2>2
    <3>2. QED
      BY <1>1, <2>2, <3>1
  <2>3. QED
    BY <2>1, <2>2
<1>3. T \subseteq 0 .. MaxSeq /\ T # {}
  <2>1. ack .. MaxSeq \subseteq 0 .. MaxSeq
    OBVIOUS
  <2>2. QED
    BY <1>2, <2>1
<1>4. Cursor!RunEnd(C, ack) = Max(T)
  BY DEF Cursor!RunEnd, Cursor!Max, Max
<1> HIDE DEF T
<1>5. Max(T) \in T /\ \A y \in T : y <= Max(T)
  BY <1>3, LargestIn
<1>6. Max(T) = c
  <2>1. Max(T) <= c /\ c <= Max(T) /\ Max(T) \in Int /\ c \in Int
    <3>1. Max(T) \in 0 .. MaxSeq /\ c \in 0 .. MaxSeq
      BY <1>2, <1>3, <1>5
    <3>2. QED
      BY <1>2, <1>5, <3>1
  <2>2. QED
    BY <2>1
<1>7. QED
  BY <1>4, <1>6 DEF c, C

\* Evidence arrives: the acknowledgement moves to the end of the run.
LEMMA EvidenceCovers ==
    ASSUME losses' \subseteq Ranges, device.ack \in 0 .. MaxSeq,
           \A n \in Covered(stored, losses) : n \in Covered(stored', losses'),
           device'.ack = AdvanceContiguousCursor(stored', losses', device.ack)
    PROVE  Cursor!Next
<1> DEFINE S == Covered(stored', losses')
<1>1. S \in SUBSET (1 .. MaxSeq)
  BY DEF Covered, Seqs
<1>2. Covered(stored, losses)' = Covered(stored, losses) \cup S
  OBVIOUS
<1>3. (device.ack)' = Cursor!RunEnd(S, device.ack)
  BY RunEndIsCursor
<1>4. Cursor!Cover(S)
  BY <1>2, <1>3 DEF Cursor!Cover
<1> HIDE DEF S
<1>5. QED
  BY <1>1, <1>4 DEF Cursor!Next

\* Every step of the server is a step of the cursor, or leaves it alone.
LEMMA CursorStep ==
    ASSUME EvidenceInv, [Next]_vars
    PROVE  [lost \/ Cursor!Next]_<<Covered(stored, losses), device.ack>>
<1> USE ConstantTypes
<1> DEFINE Goal == [lost \/ Cursor!Next]_<<Covered(stored, losses), device.ack>>
<1>1. TypeOK /\ KindsAgree /\ SensorInv
  BY DEF EvidenceInv
<1>2. /\ device.ack \in 0 .. MaxSeq /\ device.gen \in 0 .. MaxGen /\ losses \subseteq Ranges
      /\ sensor.gen \in 0 .. MaxGen /\ sensor.floor \in [0 .. MaxGen -> -1 .. MaxSeq]
      /\ Covered(stored, losses) \subseteq 1 .. MaxSeq
      /\ stored \in [Seqs -> Readings \cup {Missing}]
  BY <1>1, RowTypes DEF TypeOK
<1>3. ASSUME NEW s \in Slots, IngestBatch(s) PROVE Goal
  <2> DEFINE p == req[s].payload
             row == req[s].row
             reading == [gen |-> p.gen, content |-> p.content]
             c == AdvanceContiguousCursor(stored', losses, row.ack)
             new == [row EXCEPT !.max = Max({row.max} \cup p.batch), !.ack = c]
  <2>1. /\ req[s].kind = "readings" /\ BatchAccepted(p, row)
        /\ stored' = [n \in Seqs |-> IF n \in p.batch THEN reading ELSE stored[n]]
        /\ device' = Flush(row, new)
        /\ losses' = losses
    BY <1>3 DEF IngestBatch
  <2>2. /\ req[s] # Idle /\ p.gen \in Generations
    BY <1>1, <2>1, RequestShape
  <2>3. row = [ack |-> device.ack, max |-> row.max, gen |-> device.gen] /\ row.ack = device.ack
    BY <2>2, RowAsRead
  <2>4. reading # Missing
    BY <2>2 DEF Missing
  <2>5. new.ack = c
    <3> DEFINE M == Max({row.max} \cup p.batch)
    <3> HIDE DEF row, c, M
    <3>1. [row EXCEPT !.max = M, !.ack = c].ack = c
      BY <2>3, RowExcept
    <3>2. QED
      BY <3>1 DEF M
  <2> HIDE DEF new, reading, p, row, c
  <2>6. device'.ack = c
    BY <2>1, <2>3, <2>5 DEF Flush
  <2>7. device'.ack = AdvanceContiguousCursor(stored', losses', device.ack)
    BY <2>1, <2>3, <2>6 DEF c
  <2>8. ASSUME NEW n \in Covered(stored, losses) PROVE n \in Covered(stored', losses')
    <3>1. n \in Seqs /\ (stored[n] # Missing => stored'[n] # Missing)
      BY <2>1, <2>4 DEF Covered
    <3>2. QED
      BY <2>1, <3>1 DEF Covered
  <2>9. losses' \subseteq Ranges
    BY <1>2, <2>1
  <2>10. Cursor!Next
    BY <1>2, <2>7, <2>8, <2>9, EvidenceCovers
  <2>11. QED
    BY <2>10
<1>4. ASSUME NEW s \in Slots, RecordPermanentLoss(s) PROVE Goal
  <2> DEFINE x == req[s].payload.range
             row == req[s].row
             c == AdvanceContiguousCursor(stored, losses', row.ack)
             M == IF x \in losses THEN row.max ELSE Max({row.max, x[2]})
             new == [row EXCEPT !.max = M, !.ack = c]
  <2>1. /\ req[s].kind = "loss" /\ losses' = losses \cup {x}
        /\ device' = Flush(row, new)
        /\ stored' = stored
    BY <1>4 DEF RecordPermanentLoss
  <2>2. req[s] # Idle /\ x \in Ranges
    BY <1>1, <2>1, RequestShape
  <2>3. row = [ack |-> device.ack, max |-> row.max, gen |-> device.gen] /\ row.ack = device.ack
    BY <2>2, RowAsRead
  <2>4. new.ack = c
    <3> HIDE DEF row, c, M
    <3>1. QED
      BY <2>3, RowExcept
  <2> HIDE DEF new, row, c, x
  <2>5. device'.ack = c
    BY <2>1, <2>3, <2>4 DEF Flush
  <2>6. device'.ack = AdvanceContiguousCursor(stored', losses', device.ack)
    BY <2>1, <2>3, <2>5 DEF c
  <2>7. \A n \in Covered(stored, losses) : n \in Covered(stored', losses')
    BY <2>1 DEF Covered
  <2>8. losses' \subseteq Ranges
    BY <1>2, <2>1, <2>2
  <2>9. Cursor!Next
    BY <1>2, <2>6, <2>7, <2>8, EvidenceCovers
  <2>10. QED
    BY <2>9
<1>5. ASSUME NEW s \in Slots, Heartbeat(s), ~ lost PROVE Goal
  <2> DEFINE p == req[s].payload
             row == req[s].row
             floor == sensor.floor[p.reset]
             d == IF p.reset > device.gen THEN [ack |-> floor, max |-> floor, gen |-> p.reset]
                  ELSE row
             M == Max({d.max, p.newest})
             new == [d EXCEPT !.max = M]
  <2>1. /\ req[s].kind = "heartbeat"
        /\ p.reset > device.gen => floor >= row.max
        /\ device' = Flush(row, new)
        /\ stored' = stored /\ losses' = losses
    BY <1>5 DEF Heartbeat
  <2>2. /\ req[s] # Idle /\ p.reset \in 0 .. MaxGen /\ p.reset <= sensor.gen
    BY <1>1, <2>1, RequestShape DEF SensorInv
  <2>3. /\ row = [ack |-> device.ack, max |-> row.max, gen |-> device.gen]
        /\ row.ack = device.ack /\ row.max \in 0 .. MaxSeq
        /\ \A n \in Covered(stored, losses) \cup {device.ack} : n <= row.max
    BY <1>5, <2>2, RowAsRead
  <2>4. floor \in 0 .. MaxSeq
    <3>1. p.reset \in 0 .. sensor.gen
      BY <1>2, <2>2
    <3>2. 0 <= floor
      BY <1>1, <3>1 DEF SensorInv
    <3>3. QED
      BY <1>2, <2>2, <3>2
  <2> HIDE DEF row, p, floor
  <2>5. d = [ack |-> d.ack, max |-> d.max, gen |-> d.gen]
    BY <2>3
  <2>6. d.ack = IF p.reset > device.gen THEN floor ELSE device.ack
    BY <2>3
  <2>7. new.ack = d.ack
    <3> HIDE DEF d, M
    <3>1. QED
      BY <2>5, RowExcept
  <2> HIDE DEF new, d
  <2>8. device'.ack = d.ack
    BY <2>1, <2>3, <2>7 DEF Flush
  <2>9. Covered(stored, losses)' = Covered(stored, losses)
    BY <2>1
  <2>10. CASE p.reset > device.gen
    <3>1. \A n \in Covered(stored, losses) \cup {device.ack} : n <= floor
      <4>1. \A n \in Covered(stored, losses) \cup {device.ack} : n \in Int
        BY <1>2
      <4>2. floor >= row.max
        BY <2>1, <2>10
      <4>3. QED
        BY <2>3, <2>4, <4>1, <4>2
    <3>2. device'.ack = floor
      BY <2>6, <2>8, <2>10
    <3>3. Cursor!Reset(floor)
      BY <2>9, <3>1, <3>2 DEF Cursor!Reset
    <3>4. Cursor!Next
      BY <2>4, <3>3 DEF Cursor!Next
    <3>5. QED
      BY <3>4
  <2>11. CASE ~ (p.reset > device.gen)
    BY <2>6, <2>8, <2>9, <2>11
  <2>12. QED
    BY <2>10, <2>11
<1>6. ASSUME UNCHANGED <<device, stored, losses>> PROVE Goal
  BY <1>6
<1>7. CASE UNCHANGED vars
  BY <1>6, <1>7 DEF vars
<1>8. CASE Next
  <2>1. ASSUME NEW floor \in 0 .. MaxSeq, SensorResets(floor) PROVE Goal
    BY <1>6, <2>1 DEF SensorResets
  <2>2. ASSUME NEW s \in Slots, NEW p \in Payloads, BeginRequest(s, p) PROVE Goal
    BY <1>6, <2>2 DEF BeginRequest
  <2>3. ASSUME NEW s \in Slots, AbandonRequest(s) PROVE Goal
    BY <1>6, <2>3 DEF AbandonRequest
  <2>4. ASSUME lost PROVE Goal
    BY <2>4
  <2>5. QED
    BY <1>3, <1>4, <1>5, <1>8, <2>1, <2>2, <2>3, <2>4 DEF Next
<1>9. QED
  BY <1>7, <1>8

\* The acknowledgement of the server implements the abstract cursor (CursorSpec):
\* whatever requests overlap, it stands at the end of an unbroken run of evidence
\* and never moves back, until a heartbeat has lost another's maximum.
THEOREM AckImplementsCursor == Spec => CursorSpec
<1>1. Init => Cursor!Init
  BY DEF Init, Cursor!Init, Covered
<1>2. EvidenceInv /\ [Next]_vars => [lost \/ Cursor!Next]_<<Covered(stored, losses), device.ack>>
  BY CursorStep
<1>3. QED
  BY <1>1, <1>2, EvidenceInvariant, PTL DEF Spec, CursorSpec

--------------------------------------------------------------------------------
(* Prices *)

\* Prices that the worker committed or holds in its open transaction count
\* exactly the earlier energy, unless energy arrived during a cycle.
CostInv ==
    /\ cost \in [Seqs -> SUBSET (0 .. MaxSeq)]
    /\ cycle \in [open : BOOLEAN, todo : SUBSET Seqs, done : [Seqs -> SUBSET (0 .. MaxSeq)]]
    /\ ~ cycle.open => cycle.todo = {} /\ cycle.done = NoCosts
    /\ raced \/ \A n \in Energy(stored, device) :
                    /\ cost[n] # Unpriced => cost[n] = Prior(n)
                    /\ cycle.done[n] # Unpriced => cycle.done[n] = Prior(n)

\* Nothing is priced at first.
LEMMA CostInitHolds == CostInit => EvidenceInv /\ CostInv
<1> SUFFICES ASSUME CostInit PROVE EvidenceInv /\ CostInv
  OBVIOUS
<1>1. EvidenceInv
  BY InitHolds DEF CostInit
<1>2. NoCosts \in [Seqs -> SUBSET (0 .. MaxSeq)] /\ \A n \in Seqs : NoCosts[n] = Unpriced
  BY ConstantTypes DEF NoCosts, Unpriced
<1>3. cost = NoCosts /\ cycle = Closed
  BY DEF CostInit
<1> HIDE DEF NoCosts
<1>4. /\ cycle.done = NoCosts /\ cycle.todo = {}
      /\ cycle \in [open : BOOLEAN, todo : SUBSET Seqs, done : [Seqs -> SUBSET (0 .. MaxSeq)]]
  BY <1>2, <1>3 DEF Closed
<1>5. CostInv
  BY <1>2, <1>3, <1>4 DEF CostInv, Energy
<1>6. QED
  BY <1>1, <1>5

\* What a step of the server does to the rows: readings are only added, of the
\* generation the device is in, or a reset begins a generation without readings.
LEMMA ReadingsOnlyAdded ==
    ASSUME EvidenceInv, Next
    PROVE  \/ /\ device'.gen = device.gen
              /\ \A n \in Seqs : \/ stored'[n] = stored[n]
                                 \/ stored[n] = Missing /\ stored'[n] # Missing
           \/ Energy(stored', device') = {} /\ stored' = stored
<1> USE ConstantTypes
<1> DEFINE Goal == \/ /\ device'.gen = device.gen
                      /\ \A n \in Seqs : \/ stored'[n] = stored[n]
                                         \/ stored[n] = Missing /\ stored'[n] # Missing
                   \/ Energy(stored', device') = {} /\ stored' = stored
<1>1. TypeOK /\ KindsAgree /\ SensorInv
  BY DEF EvidenceInv
<1>2. /\ device.gen \in 0 .. MaxGen /\ sensor.gen \in 0 .. MaxGen
      /\ stored \in [Seqs -> Readings \cup {Missing}]
  BY <1>1, RowTypes DEF TypeOK
<1>3. ASSUME NEW s \in Slots, IngestBatch(s) PROVE Goal
  <2> DEFINE p == req[s].payload
             row == req[s].row
             reading == [gen |-> p.gen, content |-> p.content]
             c == AdvanceContiguousCursor(stored', losses, row.ack)
             M == Max({row.max} \cup p.batch)
             new == [row EXCEPT !.max = M, !.ack = c]
  <2>1. /\ req[s].kind = "readings" /\ BatchAccepted(p, row)
        /\ stored' = [n \in Seqs |-> IF n \in p.batch THEN reading ELSE stored[n]]
        /\ device' = Flush(row, new)
    BY <1>3 DEF IngestBatch
  <2>2. /\ req[s] # Idle /\ p.gen \in Generations
    BY <1>1, <2>1, RequestShape
  <2>3. /\ row = [ack |-> device.ack, max |-> row.max, gen |-> device.gen]
        /\ row.gen = device.gen
    BY <2>2, RowAsRead
  <2>4. reading # Missing
    BY <2>2 DEF Missing
  <2>5. new.gen = device.gen
    <3> HIDE DEF row, c, M
    <3>1. QED
      BY <2>3, RowExcept
  <2> HIDE DEF new
  <2>6. device'.gen = device.gen
    BY <2>1, <2>3, <2>5 DEF Flush
  <2>7. ASSUME NEW n \in Seqs
        PROVE  \/ stored'[n] = stored[n]
               \/ stored[n] = Missing /\ stored'[n] # Missing
    BY <2>1, <2>4 DEF BatchAccepted
  <2>8. QED
    BY <2>6, <2>7
<1>4. ASSUME NEW s \in Slots, RecordPermanentLoss(s) PROVE Goal
  <2> DEFINE x == req[s].payload.range
             row == req[s].row
             c == AdvanceContiguousCursor(stored, losses', row.ack)
             M == IF x \in losses THEN row.max ELSE Max({row.max, x[2]})
             new == [row EXCEPT !.max = M, !.ack = c]
  <2>1. req[s].kind = "loss" /\ device' = Flush(row, new) /\ stored' = stored
    BY <1>4 DEF RecordPermanentLoss
  <2>2. req[s] # Idle
    BY <1>1, <2>1, RequestShape
  <2>3. row = [ack |-> device.ack, max |-> row.max, gen |-> device.gen] /\ row.gen = device.gen
    BY <2>2, RowAsRead
  <2>4. new.gen = device.gen
    <3> HIDE DEF row, c, M
    <3>1. QED
      BY <2>3, RowExcept
  <2> HIDE DEF new
  <2>5. device'.gen = device.gen
    BY <2>1, <2>3, <2>4 DEF Flush
  <2>6. QED
    BY <2>1, <2>5
<1>5. ASSUME NEW s \in Slots, Heartbeat(s) PROVE Goal
  <2> DEFINE p == req[s].payload
             row == req[s].row
             floor == sensor.floor[p.reset]
             d == IF p.reset > device.gen THEN [ack |-> floor, max |-> floor, gen |-> p.reset]
                  ELSE row
             M == Max({d.max, p.newest})
             new == [d EXCEPT !.max = M]
  <2>1. req[s].kind = "heartbeat" /\ device' = Flush(row, new) /\ stored' = stored
    BY <1>5 DEF Heartbeat
  <2>2. req[s] # Idle /\ p.reset \in 0 .. MaxGen
    BY <1>1, <2>1, RequestShape
  <2>3. row = [ack |-> device.ack, max |-> row.max, gen |-> device.gen] /\ row.gen = device.gen
    BY <2>2, RowAsRead
  <2> HIDE DEF row, floor, p
  <2>4. d = [ack |-> d.ack, max |-> d.max, gen |-> d.gen]
    BY <2>3
  <2>5. d.gen = IF p.reset > device.gen THEN p.reset ELSE device.gen
    BY <2>3
  <2>6. new.gen = d.gen
    <3> HIDE DEF d, M
    <3>1. QED
      BY <2>4, RowExcept
  <2> HIDE DEF new, d
  <2>7. device'.gen = d.gen
    BY <2>1, <2>3, <2>6 DEF Flush
  <2>8. CASE p.reset > device.gen
    <3>1. device'.gen > device.gen /\ device'.gen \in Int
      BY <2>2, <2>5, <2>7, <2>8
    <3>2. ASSUME NEW n \in Energy(stored', device') PROVE FALSE
      <4>1. n \in Seqs /\ stored[n] = [gen |-> device'.gen, content |-> "energy"]
        BY <2>1 DEF Energy
      <4>2. stored[n].gen = device'.gen /\ stored[n].content = "energy"
        BY <4>1
      <4>3. stored[n] # Missing
        BY <1>2, <3>1, <4>2 DEF Missing
      <4>4. stored[n].gen <= device.gen
        BY <1>1, <4>1, <4>3 DEF SensorInv
      <4>5. QED
        BY <1>2, <3>1, <4>2, <4>4
    <3>3. QED
      BY <2>1, <3>2
  <2>9. CASE ~ (p.reset > device.gen)
    BY <2>1, <2>5, <2>7, <2>9
  <2>10. QED
    BY <2>8, <2>9
<1>6. ASSUME UNCHANGED <<device, stored>> PROVE Goal
  BY <1>6
<1>7. ASSUME NEW floor \in 0 .. MaxSeq, SensorResets(floor) PROVE Goal
  BY <1>6, <1>7 DEF SensorResets
<1>8. ASSUME NEW s \in Slots, NEW p \in Payloads, BeginRequest(s, p) PROVE Goal
  BY <1>6, <1>8 DEF BeginRequest
<1>9. ASSUME NEW s \in Slots, AbandonRequest(s) PROVE Goal
  BY <1>6, <1>9 DEF AbandonRequest
<1>10. QED
  BY <1>3, <1>4, <1>5, <1>7, <1>8, <1>9 DEF Next

\* A step of the server: late energy makes the prices at and after it unpriced.
LEMMA DeviceStepKeeps ==
    ASSUME EvidenceInv, CostInv, DeviceStep
    PROVE  CostInv'
<1> USE ConstantTypes
<1> DEFINE new == {n \in Seqs : stored[n] = Missing /\ stored'[n] # Missing
                                /\ stored'[n].content = "energy"}
<1>a. PICK kept \in SUBSET PricedMeanwhile(new) :
        /\ cost' = [n \in Seqs |-> IF n \in kept THEN Prior(n) ELSE AfterIngestion(new)[n]]
        /\ raced' = (raced \/ (cycle.open /\ new # {}) \/ kept # {})
  BY DEF DeviceStep
<1>1. /\ Next /\ cycle' = cycle
      /\ ~ raced' => ~ raced /\ ~ (cycle.open /\ new # {}) /\ kept = {}
  BY <1>a DEF DeviceStep
<1>2. /\ cost \in [Seqs -> SUBSET (0 .. MaxSeq)]
      /\ cycle \in [open : BOOLEAN, todo : SUBSET Seqs, done : [Seqs -> SUBSET (0 .. MaxSeq)]]
      /\ ~ cycle.open => cycle.todo = {} /\ cycle.done = NoCosts
  BY DEF CostInv
<1>3. new \subseteq Seqs
  OBVIOUS
<1>4. /\ cost' \in [Seqs -> SUBSET (0 .. MaxSeq)]
      /\ ~ raced' =>
            \A n \in Seqs : cost'[n] = IF \E m \in new : n >= m THEN Unpriced ELSE cost[n]
  <2> HIDE DEF new
  <2>1. Unpriced \in SUBSET (0 .. MaxSeq) /\ \A n : Prior(n) \in SUBSET (0 .. MaxSeq)
    BY DEF Unpriced, Prior, Energy
  <2>2. \A n \in Seqs :
           AfterIngestion(new)[n] = IF \E m \in new : n >= m THEN Unpriced ELSE cost[n]
    BY DEF AfterIngestion
  <2>3. \A n \in Seqs : AfterIngestion(new)[n] \in SUBSET (0 .. MaxSeq)
    BY <1>2, <2>1, <2>2
  <2> HIDE DEF Unpriced
  <2>4. cost' \in [Seqs -> SUBSET (0 .. MaxSeq)]
    BY <1>a, <2>1, <2>3
  <2>5. ~ raced' => \A n \in Seqs : cost'[n] = AfterIngestion(new)[n]
    BY <1>a, <1>1
  <2>6. QED
    BY <2>2, <2>4, <2>5
<1>5. CASE raced'
  BY <1>1, <1>2, <1>4, <1>5 DEF CostInv
<1>6. CASE ~ raced' /\ Energy(stored', device') = {}
  BY <1>1, <1>2, <1>4, <1>6 DEF CostInv
<1>7. CASE /\ ~ raced' /\ device'.gen = device.gen
           /\ \A n \in Seqs : \/ stored'[n] = stored[n]
                              \/ stored[n] = Missing /\ stored'[n] # Missing
  <2>0. device.gen \in 0 .. MaxGen
    BY RowTypes DEF EvidenceInv
  <2> DEFINE e == [gen |-> device.gen, content |-> "energy"]
  <2>1. e # Missing /\ e.content = "energy"
    BY <2>0 DEF Missing
  <2>2. /\ \A n \in Seqs : n \in Energy(stored, device) <=> stored[n] = e
        /\ \A n \in Seqs : n \in Energy(stored', device') <=> stored'[n] = e
        /\ Energy(stored, device) \subseteq Seqs /\ Energy(stored', device') \subseteq Seqs
    BY <1>7 DEF Energy
  <2> HIDE DEF e
  <2>3. /\ \A n \in Energy(stored', device') : n \in Energy(stored, device) \/ n \in new
        /\ \A n \in Energy(stored, device) : n \in Energy(stored', device') /\ n \notin new
    BY <1>7, <2>1, <2>2
  <2>4. ~ raced
    BY <1>1, <1>7
  <2>5. /\ \A n \in Energy(stored, device) : cost[n] # Unpriced => cost[n] = Prior(n)
        /\ \A n \in Energy(stored, device) :
               cycle.done[n] # Unpriced => cycle.done[n] = Prior(n)
    BY <2>4 DEF CostInv
  <2> HIDE DEF new
  <2>6. ASSUME NEW n \in Seqs, \A m \in new : ~ (n >= m) PROVE Prior(n)' = Prior(n)
    <3>1. ASSUME NEW m \in Energy(stored', device'), m < n PROVE m \in Energy(stored, device)
      <4>1. m \in Int /\ n \in Int
        BY <2>2
      <4>2. m \notin new
        BY <2>6, <3>1, <4>1
      <4>3. QED
        BY <2>3, <4>2
    <3>2. QED
      BY <2>3, <3>1 DEF Prior
  <2>7. ASSUME NEW n \in Energy(stored', device'), cost'[n] # Unpriced
        PROVE  cost'[n] = Prior(n)'
    <3>1. n \in Seqs /\ n \in Int
      BY <2>2
    <3>2. ~ (\E m \in new : n >= m) /\ cost'[n] = cost[n]
      BY <1>4, <1>7, <2>7, <3>1
    <3>3. n \in Energy(stored, device)
      BY <2>3, <3>1, <3>2
    <3>4. QED
      BY <2>5, <2>6, <2>7, <3>1, <3>2, <3>3
  <2>8. ASSUME NEW n \in Energy(stored', device'), cycle'.done[n] # Unpriced
        PROVE  cycle'.done[n] = Prior(n)'
    <3>1. n \in Seqs
      BY <2>2
    <3>2. cycle.open
      <4>1. NoCosts[n] = Unpriced
        BY <3>1 DEF NoCosts
      <4>2. QED
        BY <1>1, <1>2, <2>8, <4>1
    <3>3. new = {}
      BY <1>1, <1>7, <3>2
    <3>4. n \in Energy(stored, device)
      BY <2>3, <3>3
    <3>5. QED
      BY <1>1, <2>5, <2>6, <2>8, <3>1, <3>3, <3>4
  <2>9. QED
    BY <1>1, <1>2, <1>4, <2>7, <2>8 DEF CostInv
<1>8. QED
  BY <1>1, <1>5, <1>6, <1>7, ReadingsOnlyAdded

\* A step of the worker.
LEMMA PricingKeeps ==
    ASSUME EvidenceInv, CostInv, UNCHANGED <<vars, raced>>,
           \/ PricingLists \/ (\E n \in Seqs : PricingSelects(n)) \/ PricingCommits \/ PricingFails
    PROVE  CostInv'
<1> USE ConstantTypes
<1> DEFINE E == Energy(stored, device)
           Costs == [Seqs -> SUBSET (0 .. MaxSeq)]
<1>1. /\ cost \in Costs
      /\ cycle \in [open : BOOLEAN, todo : SUBSET Seqs, done : Costs]
      /\ ~ cycle.open => cycle.todo = {} /\ cycle.done = NoCosts
      /\ raced \/ \A n \in E : /\ cost[n] # Unpriced => cost[n] = Prior(n)
                               /\ cycle.done[n] # Unpriced => cycle.done[n] = Prior(n)
  BY DEF CostInv
<1>2. NoCosts \in Costs /\ \A n \in Seqs : NoCosts[n] = Unpriced
  BY DEF NoCosts, Unpriced
<1>3. E \subseteq Seqs /\ \A n : Prior(n) \in SUBSET (0 .. MaxSeq)
  BY DEF Energy, Prior
<1>4. E' = E /\ raced' = raced /\ \A n : Prior(n)' = Prior(n)
  BY DEF vars, Energy, Prior
<1> HIDE DEF NoCosts, Unpriced, Prior, E, Costs
\* The goal in terms of the new prices.
<1>5. ASSUME cost' \in Costs,
             cycle' \in [open : BOOLEAN, todo : SUBSET Seqs, done : Costs],
             ~ cycle'.open => cycle'.todo = {} /\ cycle'.done = NoCosts,
             raced \/ \A n \in E : /\ cost'[n] # Unpriced => cost'[n] = Prior(n)
                                   /\ cycle'.done[n] # Unpriced => cycle'.done[n] = Prior(n)
      PROVE  CostInv'
  BY <1>4, <1>5 DEF CostInv, E, Costs
<1>6. CASE PricingLists
  <2>1. cost' = cost /\ cycle' = [open |-> TRUE, todo |-> Pending, done |-> NoCosts]
    BY <1>6 DEF PricingLists
  <2>2. Pending \in SUBSET Seqs
    BY DEF Pending, Energy
  <2>3. cycle'.open /\ cycle'.done = NoCosts
        /\ cycle' \in [open : BOOLEAN, todo : SUBSET Seqs, done : Costs]
    BY <1>2, <2>1, <2>2
  <2>4. QED
    BY <1>1, <1>2, <1>3, <1>5, <2>1, <2>3
<1>7. ASSUME NEW n \in Seqs, PricingSelects(n) PROVE CostInv'
  <2>1. /\ cost' = cost /\ n \in cycle.todo
        /\ cycle' = [cycle EXCEPT !.todo = @ \ {n}, !.done[n] = Prior(n)]
    BY <1>7 DEF PricingSelects
  <2>2. cycle.open \in BOOLEAN /\ cycle.todo \in SUBSET Seqs /\ cycle.done \in Costs
    BY <1>1
  <2>3. cycle'.open = cycle.open /\ cycle'.done = [cycle.done EXCEPT ![n] = Prior(n)]
        /\ cycle'.todo = cycle.todo \ {n}
    BY <1>1, <2>1
  <2>4. cycle'.done \in Costs
    BY <1>3, <2>2, <2>3 DEF Costs
  <2>5. cycle' \in [open : BOOLEAN, todo : SUBSET Seqs, done : Costs]
    BY <1>1, <1>3, <2>1, <2>4
  <2>6. \A m \in E : cycle'.done[m] = IF m = n THEN Prior(n) ELSE cycle.done[m]
    BY <1>3, <2>2, <2>3 DEF Costs
  <2>7. cycle'.open
    BY <1>1, <2>1, <2>3
  <2>8. QED
    BY <1>1, <1>5, <2>1, <2>5, <2>6, <2>7
<1>8. CASE PricingCommits
  <2>1. /\ cost' = [n \in Seqs |-> IF cycle.done[n] # Unpriced THEN cycle.done[n] ELSE cost[n]]
        /\ cycle' = Closed
    BY <1>8 DEF PricingCommits
  <2>2. cycle'.done = NoCosts /\ cycle'.todo = {}
        /\ cycle' \in [open : BOOLEAN, todo : SUBSET Seqs, done : Costs]
    BY <1>2, <2>1 DEF Closed
  <2>3. cost' \in Costs
    BY <1>1, <2>1 DEF Costs
  <2>4. \A n \in E : cost'[n] = IF cycle.done[n] # Unpriced THEN cycle.done[n] ELSE cost[n]
    BY <1>3, <2>1
  <2>5. QED
    BY <1>1, <1>2, <1>3, <1>5, <2>2, <2>3, <2>4
<1>9. CASE PricingFails
  <2>1. cost' = cost /\ cycle' = Closed
    BY <1>9 DEF PricingFails
  <2>2. cycle'.done = NoCosts /\ cycle'.todo = {}
        /\ cycle' \in [open : BOOLEAN, todo : SUBSET Seqs, done : Costs]
    BY <1>2, <2>1 DEF Closed
  <2>3. QED
    BY <1>1, <1>2, <1>3, <1>5, <2>1, <2>2
<1>10. QED
  BY <1>6, <1>7, <1>8, <1>9

\* Every step of ingestion and of the pricing worker keeps both invariants.
LEMMA CostStep == EvidenceInv /\ CostInv /\ [CostNext]_costVars => EvidenceInv' /\ CostInv'
<1> SUFFICES ASSUME EvidenceInv, CostInv, [CostNext]_costVars PROVE EvidenceInv' /\ CostInv'
  OBVIOUS
<1>1. [Next]_vars
  BY DEF CostNext, costVars, DeviceStep, PricingLists, PricingSelects, PricingCommits, PricingFails
<1>2. EvidenceInv'
  BY <1>1, EvidenceStep
<1>3. CASE DeviceStep
  BY <1>2, <1>3, DeviceStepKeeps
<1>4. CASE UNCHANGED costVars
  BY <1>2, <1>4 DEF costVars, vars, CostInv, Energy, Prior
<1>5. CASE CostNext /\ ~ DeviceStep
  <2>1. \/ PricingLists \/ (\E n \in Seqs : PricingSelects(n)) \/ PricingCommits \/ PricingFails
    BY <1>5 DEF CostNext
  <2>2. UNCHANGED <<vars, raced>>
    BY <2>1 DEF PricingLists, PricingSelects, PricingCommits, PricingFails
  <2>3. QED
    BY <1>2, <2>1, <2>2, PricingKeeps
<1>6. QED
  BY <1>2, <1>3, <1>4, <1>5

\* Backlog in any order, retries, resets, failed and repeated cycles never leave
\* a stale price (PricesStaleOnlyByRace), for any number of sequences, requests
\* and resets: a stale price takes energy that arrives during a cycle.
THEOREM PricesCorrect == CostSpec => []PricesStaleOnlyByRace
<1>1. CostInv => PricesStaleOnlyByRace
  BY DEF CostInv, PricesStaleOnlyByRace, PricesCountEarlierEnergy
<1>2. QED
  BY <1>1, CostInitHolds, CostStep, PTL DEF CostSpec

--------------------------------------------------------------------------------
(* Stateless telemetry: live state *)

\* What the order of samples rests on: times of samples under way, and of the
\* newest sample of every sensor, are times.
LiveInv ==
    /\ now \in Nat
    /\ \A m \in air : m.sensor \in Sensors /\ m.at \in Nat
    /\ DOMAIN latest = Sensors
    /\ \A d \in Sensors : latest[d].effective \in Int /\ latest[d].effective >= -1

\* A sample that is accepted is dated by a time of the past.
LEMMA EffectiveTimeIsTime ==
    ASSUME LiveInv, NEW m \in air
    PROVE  EffectiveTime(m) \in Nat
BY DEF LiveInv, EffectiveTime

\* The first state.
LEMMA LiveInit == TelemetryInit => LiveInv
BY DEF TelemetryInit, LiveInv, NoSample

\* ingest_stateless_sample.
LEMMA LiveAccept ==
    ASSUME LiveInv, NEW m \in air, Accept(m)
    PROVE  /\ LiveInv'
           /\ \A d \in Sensors : latest[d].effective <= latest'[d].effective
<1> DEFINE t == EffectiveTime(m)
           s == [at |-> m.at, effective |-> t, ok |-> m.ok, total |-> m.total,
                 late |-> OutOfOrder(m.sensor, t),
                 hidden |-> OutOfOrder(m.sensor, t) /\ m.ok /\ ~latest[m.sensor].ok]
<1>1. t \in Nat
  BY EffectiveTimeIsTime
<1>2. now' = now /\ air' = air
  BY DEF Accept
<1>3. latest' = IF OutOfOrder(m.sensor, t) THEN latest ELSE [latest EXCEPT ![m.sensor] = s]
  BY DEF Accept
<1>4. s.effective = t
  OBVIOUS
<1>5. ~OutOfOrder(m.sensor, t) => latest[m.sensor].effective <= t
  BY <1>1 DEF OutOfOrder, LiveInv, NoSample
<1> HIDE DEF t, s
<1> QED
  BY <1>1, <1>2, <1>3, <1>4, <1>5 DEF LiveInv

\* Sensors sample.
LEMMA LiveMeasure ==
    ASSUME LiveInv, NEW kind, Measure(kind)
    PROVE  LiveInv'
<1>1. \A m \in air' : m.sensor \in Sensors /\ m.at \in Nat
  BY DEF LiveInv, Measure, SampleOf
<1> QED
  BY <1>1 DEF LiveInv, Measure

\* Every step.
LEMMA LiveStep ==
    ASSUME LiveInv, [TelemetryNext]_telemetryVars
    PROVE  /\ LiveInv'
           /\ \A d \in Sensors : latest[d].effective <= latest'[d].effective
<1> DEFINE Same == now' = now /\ air' = air /\ latest' = latest
<1>1. ASSUME Same
      PROVE  LiveInv' /\ \A d \in Sensors : latest[d].effective <= latest'[d].effective
  BY <1>1 DEF LiveInv
<1>2. CASE \E kind \in [Sensors -> {"good", "invalid", "untrusted"}] : Measure(kind)
  <2>1. PICK kind : Measure(kind)
    BY <1>2, Zenon
  <2>2. LiveInv' /\ latest' = latest
    BY <2>1, LiveMeasure DEF Measure
  <2> QED
    BY <2>2 DEF LiveInv
<1>3. CASE \E d \in Sensors : MeterResets(d)
  BY <1>1, <1>3 DEF MeterResets
<1>4. CASE \E m \in air : Accept(m)
  BY <1>4, LiveAccept, Zenon
<1>5. CASE WorkerScans
  BY <1>1, <1>5 DEF WorkerScans
<1>6. CASE WorkerCommits
  BY <1>1, <1>6 DEF WorkerCommits
<1>7. CASE WorkerRollsBack
  BY <1>1, <1>7 DEF WorkerRollsBack
<1>8. CASE UNCHANGED telemetryVars
  BY <1>1, <1>8 DEF telemetryVars
<1> QED
  BY <1>2, <1>3, <1>4, <1>5, <1>6, <1>7, <1>8 DEF TelemetryNext

\* However late, repeated or reordered samples arrive, and whatever the clocks of
\* the sensors say, the latest sample of a sensor never moves back in time
\* (ingest_stateless_sample, device_telemetry_states.latest_sample_id).
THEOREM LiveStateForward == TelemetrySpec => LiveStateNeverRegresses
<1>1. TelemetryInit => LiveInv
  BY LiveInit
<1>2. LiveInv /\ [TelemetryNext]_telemetryVars => LiveInv'
  BY LiveStep
<1>3. LiveInv /\ [TelemetryNext]_telemetryVars
      => [\A d \in Sensors : latest[d].effective <= latest'[d].effective]_telemetryVars
  BY LiveStep
<1> QED
  BY <1>1, <1>2, <1>3, PTL DEF TelemetrySpec, LiveStateNeverRegresses

--------------------------------------------------------------------------------
(* Prices of History buckets *)

\* What is needed of the shape of the rows.
IsBucket(r) == {"energy", "final"} \subseteq DOMAIN r

TablesOK ==
    /\ bucket = [d \in Sensors |-> [b \in Places |-> bucket[d][b]]]
    /\ price = [d \in Sensors |-> [b \in Places |-> price[d][b]]]
    /\ \A d \in Sensors, b \in Places : IsBucket(bucket[d][b])

\* A selected price is of a final bucket and for its energy.
SelectionFresh(d, b) ==
    price[d][b] # Unselected => bucket[d][b].final /\ price[d][b] = bucket[d][b].energy

\* A price the worker is about to select is for the bucket's energy, of a bucket
\* that is final by then and stays.
CandidateFresh(d, b) ==
    \A e \in 0 .. MaxTime :
        <<d, b, e>> \in worker.prices =>
            /\ e = bucket[d][b].energy
            /\ bucket[d][b].final \/ <<d, b>> \in worker.finals
            /\ <<d, b>> \notin worker.expired

\* What the worker is about to delete has no price.
DeletionFresh(d, b) == <<d, b>> \in worker.expired => price[d][b] = Unselected

\* The inductive invariant.
PriceInv ==
    /\ TablesOK
    /\ overtaken \in BOOLEAN
    /\ \/ overtaken
       \/ \A d \in Sensors, b \in Places :
             SelectionFresh(d, b) /\ CandidateFresh(d, b) /\ DeletionFresh(d, b)

\* Finalizing a bucket keeps its energy.
LEMMA BucketFinalized ==
    ASSUME NEW q, IsBucket(q)
    PROVE  LET r == [q EXCEPT !.final = TRUE]
           IN  IsBucket(r) /\ r.energy = q.energy /\ r.final
BY DEF IsBucket

\* The first state.
LEMMA PriceInit == TelemetryInit => PriceInv
<1> SUFFICES ASSUME TelemetryInit PROVE PriceInv
  OBVIOUS
<1>1. IsBucket(NoBucket)
  BY DEF IsBucket, NoBucket
<1>2. TablesOK
  BY <1>1 DEF TelemetryInit, TablesOK
<1>3. worker.prices = {} /\ worker.expired = {} /\ overtaken = FALSE
  BY DEF TelemetryInit, IdleWorker
<1>4. ASSUME NEW d \in Sensors, NEW b \in Places
      PROVE  SelectionFresh(d, b) /\ CandidateFresh(d, b) /\ DeletionFresh(d, b)
  <2>1. price[d][b] = Unselected
    BY DEF TelemetryInit
  <2> QED
    BY <2>1, <1>3, Zenon DEF SelectionFresh, CandidateFresh, DeletionFresh
<1> QED
  BY <1>2, <1>3, <1>4, Zenon DEF PriceInv

\* A sample leaves every other bucket its energy, and finalizes it at most.
LEMMA AcceptedBucket ==
    ASSUME TablesOK, NEW m \in air, m.sensor \in Sensors, Accept(m),
           NEW d \in Sensors, NEW c \in Places
    PROVE  /\ IsBucket(bucket'[d][c])
           /\ (d # m.sensor \/ c # PlaceOf(EffectiveTime(m))) =>
                 /\ bucket'[d][c].energy = bucket[d][c].energy
                 /\ bucket[d][c].final => bucket'[d][c].final
<1> DEFINE b == PlaceOf(EffectiveTime(m))
           e == Evidence(m.sensor, m, EffectiveTime(m))
           F == Finalized(bucket[m.sensor], b)
<1>1. bucket' = [bucket EXCEPT ![m.sensor] = [F EXCEPT ![b] = Filled(F[b], m, e)]]
  BY DEF Accept, Upserted
<1>2. F[c] = IF c < b /\ bucket[m.sensor][c].there
             THEN [bucket[m.sensor][c] EXCEPT !.final = TRUE] ELSE bucket[m.sensor][c]
  BY DEF Finalized
<1>3. IsBucket(bucket[m.sensor][c])
  BY DEF TablesOK
<1>4. IsBucket(F[c]) /\ F[c].energy = bucket[m.sensor][c].energy
      /\ (bucket[m.sensor][c].final => F[c].final)
  BY <1>2, <1>3 DEF IsBucket
<1>5. IsBucket(Filled(F[b], m, e))
  BY DEF IsBucket, Filled
<1>6. F = [x \in Places |-> F[x]]
  BY DEF Finalized
<1>7. DOMAIN bucket = Sensors /\ DOMAIN F = Places
  BY <1>6 DEF TablesOK
<1> HIDE DEF b, e, F
<1>8. d # m.sensor => bucket'[d][c] = bucket[d][c]
  BY <1>1, <1>7
<1>9. d = m.sensor => bucket'[d][c] = IF c = b THEN Filled(F[b], m, e) ELSE F[c]
  BY <1>1, <1>7
<1>10. IsBucket(bucket[d][c])
  BY DEF TablesOK
<1>11. IsBucket(bucket'[d][c])
  BY <1>4, <1>5, <1>8, <1>9, <1>10, Zenon
<1>12. (d # m.sensor \/ c # b) => /\ bucket'[d][c].energy = bucket[d][c].energy
                                  /\ bucket[d][c].final => bucket'[d][c].final
  BY <1>4, <1>8, <1>9, Zenon
<1> QED
  BY <1>11, <1>12, Zenon DEF b

\* A sample withdraws the price of its bucket, if that was final.
LEMMA AcceptedPrice ==
    ASSUME TablesOK, NEW m \in air, m.sensor \in Sensors, Accept(m),
           NEW d \in Sensors, NEW c \in Places
    PROVE  /\ price'[d][c] # Unselected => price'[d][c] = price[d][c]
           /\ (d = m.sensor /\ c = PlaceOf(EffectiveTime(m)) /\ bucket[d][c].final)
                 => price'[d][c] = Unselected
<1> DEFINE b == PlaceOf(EffectiveTime(m))
<1>1. price' = [price EXCEPT ![m.sensor] = PriceWithdrawn(m.sensor, b)]
  BY Zenon DEF Accept
<1>2. DOMAIN price = Sensors /\ DOMAIN price[m.sensor] = Places
  BY DEF TablesOK
<1> HIDE DEF b
<1>3. d # m.sensor => price'[d][c] = price[d][c]
  BY <1>1, <1>2
<1>4. d = m.sensor => price'[d][c] = PriceWithdrawn(m.sensor, b)[c]
  BY <1>1, <1>2
<1>5. PriceWithdrawn(m.sensor, b)[c] =
        IF bucket[m.sensor][b].final /\ c = b THEN Unselected ELSE price[m.sensor][c]
  BY <1>2 DEF PriceWithdrawn
<1>6. price'[d][c] # Unselected => price'[d][c] = price[d][c]
  BY <1>3, <1>4, <1>5, Zenon
<1>7. d = m.sensor /\ c = b /\ bucket[d][c].final => price'[d][c] = Unselected
  BY <1>4, <1>5, Zenon
<1> QED
  BY <1>6, <1>7, Zenon DEF b

\* A sample: what it changes is not priced afterwards, or the worker is overtaken.
LEMMA PriceAccept ==
    ASSUME PriceInv, NEW m \in air, m.sensor \in Sensors, Accept(m)
    PROVE  PriceInv'
<1> DEFINE b == PlaceOf(EffectiveTime(m))
<1>1. worker' = worker
  BY DEF Accept
<1>2. overtaken' = (overtaken \/ \E n \in 0 .. MaxTime : <<m.sensor, b, n>> \in worker.prices)
  BY DEF Accept
<1>3. TablesOK
  BY Zenon DEF PriceInv
<1>4. overtaken \in BOOLEAN /\ overtaken' \in BOOLEAN
  BY <1>2, Zenon DEF PriceInv
<1>5. ASSUME NEW d \in Sensors, NEW c \in Places
      PROVE  /\ IsBucket(bucket'[d][c])
             /\ (d # m.sensor \/ c # b) =>
                   /\ bucket'[d][c].energy = bucket[d][c].energy
                   /\ bucket[d][c].final => bucket'[d][c].final
  BY <1>3, AcceptedBucket, Zenon
<1>6. ASSUME NEW d \in Sensors, NEW c \in Places
      PROVE  /\ price'[d][c] # Unselected => price'[d][c] = price[d][c]
             /\ (d = m.sensor /\ c = b /\ bucket[d][c].final) => price'[d][c] = Unselected
  BY <1>3, AcceptedPrice, Zenon
<1>7. TablesOK'
  <2>1. bucket' = [d \in Sensors |-> [c \in Places |-> bucket'[d][c]]]
    BY <1>3 DEF Accept, Upserted, Finalized, TablesOK
  <2>2. price' = [d \in Sensors |-> [c \in Places |-> price'[d][c]]]
    <3> DEFINE withdrawn == PriceWithdrawn(m.sensor, b)
    <3>1. withdrawn = [c \in Places |-> withdrawn[c]]
      <4>1. price[m.sensor] = [c \in Places |-> price[m.sensor][c]]
        BY <1>3 DEF TablesOK
      <4>2. QED
        BY <4>1 DEF PriceWithdrawn
    <3>2. price' = [price EXCEPT ![m.sensor] = withdrawn]
      BY DEF Accept
    <3>3. price = [d \in Sensors |-> [c \in Places |-> price[d][c]]]
      BY <1>3 DEF TablesOK
    <3> HIDE DEF withdrawn
    <3>4. QED
      BY <3>1, <3>2, <3>3
  <2> QED
    BY <1>5, <2>1, <2>2, Zenon DEF TablesOK
<1> HIDE DEF b
<1>8. ASSUME ~overtaken', NEW d \in Sensors, NEW c \in Places
      PROVE  SelectionFresh(d, c)' /\ CandidateFresh(d, c)' /\ DeletionFresh(d, c)'
  <2>1. ~overtaken /\ ~ \E n \in 0 .. MaxTime : <<m.sensor, b, n>> \in worker.prices
    BY <1>2, <1>8, Zenon
  <2>2. SelectionFresh(d, c) /\ CandidateFresh(d, c) /\ DeletionFresh(d, c)
    BY <2>1, Zenon DEF PriceInv
  <2>3. SelectionFresh(d, c)'
    BY <2>2, <1>5, <1>6, Zenon DEF SelectionFresh
  <2>4. CandidateFresh(d, c)'
    <3>1. CASE d = m.sensor /\ c = b
      BY <3>1, <2>1, <1>1, Zenon DEF CandidateFresh
    <3>2. CASE ~(d = m.sensor /\ c = b)
      BY <3>2, <2>2, <1>1, <1>5, Zenon DEF CandidateFresh
    <3> QED
      BY <3>1, <3>2
  <2>5. DeletionFresh(d, c)'
    BY <2>2, <1>1, <1>6, Zenon DEF DeletionFresh
  <2> QED
    BY <2>3, <2>4, <2>5
<1> QED
  BY <1>4, <1>7, <1>8, Zenon DEF PriceInv

\* The worker prices and expires disjoint sets of buckets.
LEMMA PriceScan ==
    ASSUME PriceInv, WorkerScans
    PROVE  PriceInv'
<1> DEFINE prices(P) == {<<d, b, bucket[d][b].energy>> : d \in Sensors, b \in P}
<1>1. bucket' = bucket /\ price' = price /\ overtaken' = overtaken
  BY DEF WorkerScans
<1>2. PICK P \in SUBSET Places : /\ worker' = Scanned(P)
                                 /\ \A b \in P : Priceable(b, FALSE) \/ Priceable(b, TRUE)
  BY DEF WorkerScans
<1>3. /\ worker'.prices = prices(P)
      /\ worker'.finals = {x \in Sensors \X Places : Due(x[1], x[2])}
  BY <1>2 DEF Scanned
<1>4. worker'.expired = {x \in Sensors \X Places : Expired(x[1], x[2], P)}
  BY <1>2 DEF Scanned
<1>5. TablesOK'
  BY <1>1, Zenon DEF PriceInv, TablesOK
<1>6. ASSUME ~overtaken', NEW d \in Sensors, NEW b \in Places
      PROVE  SelectionFresh(d, b)' /\ CandidateFresh(d, b)' /\ DeletionFresh(d, b)'
  <2>1. SelectionFresh(d, b)'
    BY <1>1, <1>6, Zenon DEF PriceInv, SelectionFresh
  <2>2. <<d, b>> \in worker'.expired => price[d][b] = Unselected /\ b \notin P
    BY <1>4 DEF Expired
  <2>3. \A e : <<d, b, e>> \in prices(P) => b \in P /\ e = bucket[d][b].energy
    OBVIOUS
  <2>4. b \in P => bucket[d][b].final \/ <<d, b>> \in worker'.finals
    <3>1. b \in P => bucket[d][b].final \/ Due(d, b)
      BY <1>2, Zenon DEF Priceable
    <3>2. Due(d, b) => <<d, b>> \in worker'.finals
      BY <1>3
    <3>3. QED
      BY <3>1, <3>2
  <2> HIDE DEF prices
  <2>5. CandidateFresh(d, b)'
    BY <1>1, <1>3, <2>2, <2>3, <2>4, Zenon DEF CandidateFresh
  <2>6. DeletionFresh(d, b)'
    BY <1>1, <2>2, Zenon DEF DeletionFresh
  <2> QED
    BY <2>1, <2>5, <2>6
<1>7. overtaken' \in BOOLEAN
  BY <1>1, Zenon DEF PriceInv
<1> QED
  BY <1>5, <1>6, <1>7, Zenon DEF PriceInv

\* The worker's transaction commits.
LEMMA PriceCommit ==
    ASSUME PriceInv, WorkerCommits
    PROVE  PriceInv'
<1>1. worker'.prices = {} /\ worker'.expired = {} /\ overtaken' = overtaken
  BY DEF WorkerCommits, IdleWorker
<1>2. ASSUME NEW d \in Sensors, NEW b \in Places
      PROVE  /\ <<d, b>> \in worker.expired => bucket'[d][b] = NoBucket
             /\ <<d, b>> \in worker.finals \ worker.expired =>
                   bucket'[d][b] = [bucket[d][b] EXCEPT !.final = TRUE]
             /\ <<d, b>> \notin worker.finals \cup worker.expired => bucket'[d][b] = bucket[d][b]
  BY DEF WorkerCommits
<1>3. ASSUME NEW d \in Sensors, NEW b \in Places
      PROVE  price'[d][b] = IF \E e \in 0 .. MaxTime : <<d, b, e>> \in worker.prices
                            THEN CHOOSE e \in 0 .. MaxTime : <<d, b, e>> \in worker.prices
                            ELSE price[d][b]
  BY DEF WorkerCommits
<1>4. ASSUME NEW d \in Sensors, NEW b \in Places
      PROVE  /\ IsBucket(bucket'[d][b])
             /\ <<d, b>> \notin worker.expired =>
                   /\ bucket'[d][b].energy = bucket[d][b].energy
                   /\ (bucket[d][b].final \/ <<d, b>> \in worker.finals) => bucket'[d][b].final
  <2>1. IsBucket(bucket[d][b]) /\ IsBucket(NoBucket)
    BY DEF PriceInv, TablesOK, IsBucket, NoBucket
  <2>2. LET r == [bucket[d][b] EXCEPT !.final = TRUE]
        IN  IsBucket(r) /\ r.energy = bucket[d][b].energy /\ r.final
    BY <2>1, BucketFinalized, Zenon
  <2> QED
    BY <2>1, <2>2, <1>2, Zenon
<1>5. TablesOK'
  <2>1. bucket' = [d \in Sensors |-> [b \in Places |-> bucket'[d][b]]]
    BY DEF WorkerCommits
  <2>2. price' = [d \in Sensors |-> [b \in Places |-> price'[d][b]]]
    BY DEF WorkerCommits
  <2> QED
    BY <1>4, <2>1, <2>2, Zenon DEF TablesOK
<1>6. ASSUME ~overtaken', NEW d \in Sensors, NEW b \in Places
      PROVE  SelectionFresh(d, b)' /\ CandidateFresh(d, b)' /\ DeletionFresh(d, b)'
  <2>1. SelectionFresh(d, b) /\ CandidateFresh(d, b) /\ DeletionFresh(d, b)
    BY <1>1, <1>6, Zenon DEF PriceInv
  <2>2. SelectionFresh(d, b)'
    <3>1. CASE \E e \in 0 .. MaxTime : <<d, b, e>> \in worker.prices
      <4>1. price'[d][b] \in 0 .. MaxTime /\ <<d, b, price'[d][b]>> \in worker.prices
        BY <3>1, <1>3, Zenon
      <4> QED
        BY <4>1, <2>1, <1>4, Zenon DEF CandidateFresh, SelectionFresh
    <3>2. CASE ~ \E e \in 0 .. MaxTime : <<d, b, e>> \in worker.prices
      <4>1. price'[d][b] = price[d][b]
        BY <3>2, <1>3, Zenon
      <4> QED
        BY <4>1, <2>1, <1>4, Zenon DEF SelectionFresh, DeletionFresh
    <3> QED
      BY <3>1, <3>2
  <2>3. CandidateFresh(d, b)' /\ DeletionFresh(d, b)'
    BY <1>1, Zenon DEF CandidateFresh, DeletionFresh
  <2> QED
    BY <2>2, <2>3
<1>7. overtaken' \in BOOLEAN
  BY <1>1, Zenon DEF PriceInv
<1> QED
  BY <1>5, <1>6, <1>7, Zenon DEF PriceInv

\* Steps that leave buckets and prices alone, a rollback among them.
LEMMA PriceKept ==
    ASSUME PriceInv, bucket' = bucket, price' = price, overtaken' = overtaken,
           worker' = worker \/ worker' = IdleWorker
    PROVE  PriceInv'
<1>1. IdleWorker.prices = {} /\ IdleWorker.expired = {}
  BY DEF IdleWorker
<1>2. CASE worker' = worker
  BY <1>2, ZenonT(30) DEF PriceInv, TablesOK, SelectionFresh, CandidateFresh, DeletionFresh
<1>3. CASE worker' = IdleWorker
  BY <1>1, <1>3, Zenon DEF PriceInv, TablesOK, SelectionFresh, CandidateFresh, DeletionFresh
<1> QED
  BY <1>2, <1>3

\* A selected price is for all the energy its bucket has, after late samples,
\* finalization, retention and worker transactions that commit or roll back
\* (_invalidate_mutable_cost_selections, calculate_pending_costs), unless energy
\* arrived while the transaction that prices the bucket was open.
THEOREM PricesFollowEnergy == TelemetrySpec => []PriceStaleOnlyWhenOvertaken
<1>1. TelemetryInit => LiveInv /\ PriceInv
  BY LiveInit, PriceInit
<1>2. ASSUME LiveInv, PriceInv, [TelemetryNext]_telemetryVars PROVE LiveInv' /\ PriceInv'
  <2>1. LiveInv'
    BY <1>2, LiveStep
  <2>2. CASE \E kind \in [Sensors -> {"good", "invalid", "untrusted"}] : Measure(kind)
    BY <1>2, <2>1, <2>2, PriceKept DEF Measure
  <2>3. CASE \E d \in Sensors : MeterResets(d)
    BY <1>2, <2>1, <2>3, PriceKept DEF MeterResets
  <2>4. CASE \E m \in air : Accept(m)
    BY <1>2, <2>1, <2>4, PriceAccept, Zenon DEF LiveInv
  <2>5. CASE WorkerScans
    BY <1>2, <2>1, <2>5, PriceScan
  <2>6. CASE WorkerCommits
    BY <1>2, <2>1, <2>6, PriceCommit
  <2>7. CASE WorkerRollsBack
    BY <1>2, <2>1, <2>7, PriceKept DEF WorkerRollsBack
  <2>8. CASE UNCHANGED telemetryVars
    BY <1>2, <2>1, <2>8, PriceKept DEF telemetryVars
  <2> QED
    BY <1>2, <2>2, <2>3, <2>4, <2>5, <2>6, <2>7, <2>8 DEF TelemetryNext
<1>3. PriceInv => PriceStaleOnlyWhenOvertaken
  BY Zenon DEF PriceInv, SelectionFresh, PriceStaleOnlyWhenOvertaken
<1> QED
  BY <1>1, <1>2, <1>3, PTL DEF TelemetrySpec
================================================================================

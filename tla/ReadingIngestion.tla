---------------------------- MODULE ReadingIngestion ----------------------------
(***************************************************************************)
(* Durable readings of one sensor: batches of readings, permanent-loss     *)
(* reports and heartbeats (routes/devices.py, services/ingestion.py), and  *)
(* the data reset a heartbeat completes (services/commands.py).            *)
(*                                                                         *)
(* A request is two steps.  BeginRequest is authenticate_device_request:   *)
(* the nonce row, whose foreign key share-locks the device row until the   *)
(* transaction ends, and the device row read into the session.  The second *)
(* step is the rest, up to the commit.  Rows in a session are not refreshed*)
(* by SELECT ... FOR UPDATE, so the second step works on the row as read,  *)
(* and its UPDATE writes the columns it changed, over what is there by     *)
(* then.  FOR UPDATE waits for every other share lock (two requests that   *)
(* both want it deadlock and PostgreSQL aborts one); the UPDATE of a plain *)
(* heartbeat, which changes no key, does not.                              *)
(***************************************************************************)
EXTENDS Integers, FiniteSets, Sequences, FiniteSetsExt

CONSTANTS MaxSeq,    \* bound: sequences
          MaxGen,    \* bound: data resets
          MaxGaps,   \* find_gaps: limit (100 in the code)
          Contents,  \* what a reading may say; its payload hash tells contents apart
          Slots      \* requests of the sensor the server may hold at once

ASSUME ConstantsAssumption ==
    /\ MaxSeq \in Nat \ {0}
    /\ MaxGen \in Nat
    /\ MaxGaps \in Nat \ {0}

Seqs        == 1 .. MaxSeq
Generations == 0 .. MaxGen
Ranges      == {x \in Seqs \X Seqs : x[1] <= x[2]}
Readings    == [gen : Generations, content : Contents]
Missing     == [gen |-> -1]
DeviceRows  == [ack : 0 .. MaxSeq, max : 0 .. MaxSeq, gen : Generations]
NoFloor     == -1

\* A batch is sent with one content; a heartbeat may report the completion of
\* the reset to generation `reset' (0: none).
Payloads ==
    [kind : {"readings"}, batch : (SUBSET Seqs) \ {{}}, gen : Generations, content : Contents]
    \cup [kind : {"loss"}, range : Ranges]
    \cup [kind : {"heartbeat"}, newest : 0 .. MaxSeq, reset : Generations]

VARIABLES device,  \* the committed device row: contiguous_ack, maximum_sequence, reset_generation
          stored,  \* raw_readings
          losses,  \* unavailable_sequence_ranges
          sensor,  \* external: the sensor's generation, where each began, its newest sequence
          req,     \* requests between authentication and commit
          lost     \* history: a heartbeat wrote a smaller maximum_sequence over a larger one

vars == <<device, stored, losses, sensor, req, lost>>

Idle == [kind |-> "idle"]

--------------------------------------------------------------------------------
(* Coverage, cursor and gaps *)

Covered(st, ls) ==
    {n \in Seqs : st[n] # Missing \/ \E x \in ls : x[1] <= n /\ n <= x[2]}

\* _coverage, by first sequence: where the recorded ranges that begin at n and
\* reach above `after' end.  Its sorted list is that of n = 1, then of n = 2, ...
Ends(st, ls, after, n) ==
    {m \in Seqs : m > after /\ ((m = n /\ st[n] # Missing) \/ <<n, m>> \in ls)}

\* Mutant: a range that only touches the cursor is skipped.
AdvanceContiguousCursor_Mutant(st, ls, ack) ==
    LET cursor[n \in 0 .. MaxSeq] ==
            IF n = 0 THEN ack
            ELSE IF n > cursor[n - 1] THEN cursor[n - 1]
            ELSE Max({cursor[n - 1]} \cup Ends(st, ls, ack, n))
    IN  cursor[MaxSeq]

\* advance_contiguous_cursor: cursor[n] is the cursor after the ranges that begin
\* at n or before; the ranges after the break would not move it.
AdvanceContiguousCursor(st, ls, ack) ==
    LET cursor[n \in 0 .. MaxSeq] ==
            IF n = 0 THEN ack
            ELSE IF n > cursor[n - 1] + 1 THEN cursor[n - 1]
            ELSE Max({cursor[n - 1]} \cup Ends(st, ls, ack, n))
    IN  cursor[MaxSeq]

\* find_gaps, its loop: what is expected next and the gaps found, after the
\* ranges that begin at n or before.
GapScan(g, n, ends) ==
    IF ends = {} \/ Len(g.gaps) >= MaxGaps THEN g
    ELSE [expected |-> Max({g.expected} \cup {m + 1 : m \in ends}),
          gaps     |-> IF n > g.expected THEN Append(g.gaps, <<g.expected, n - 1>>)
                       ELSE g.gaps]

\* find_gaps.
FindGaps(d, st, ls) ==
    LET scan[n \in 0 .. MaxSeq] ==
            IF n = 0 THEN [expected |-> d.ack + 1, gaps |-> <<>>]
            ELSE GapScan(scan[n - 1], n, Ends(st, ls, d.ack, n))
        last == scan[MaxSeq]
    IN  IF d.ack >= d.max THEN <<>>
        ELSE IF last.expected <= d.max /\ Len(last.gaps) < MaxGaps
             THEN Append(last.gaps, <<last.expected, d.max>>)
             ELSE last.gaps

--------------------------------------------------------------------------------
(* The device row *)

\* Mutant: the lock does not wait for the other requests.
ForUpdate_Mutant(s) == TRUE

\* SELECT ... FOR UPDATE is granted: no other request holds its share lock.
ForUpdate(s) == \A t \in Slots \ {s} : req[t] = Idle

\* The UPDATE of a session that read the row as `row' and leaves it as `new'.
Flush(row, new) ==
    LET Column(was, now, committed) == IF now # was THEN now ELSE committed
    IN  [ack |-> Column(row.ack, new.ack, device.ack),
         max |-> Column(row.max, new.max, device.max),
         gen |-> Column(row.gen, new.gen, device.gen)]

--------------------------------------------------------------------------------
(* Actions *)

Init ==
    /\ device = [ack |-> 0, max |-> 0, gen |-> 0]
    /\ stored = [n \in Seqs |-> Missing]
    /\ losses = {}
    /\ sensor = [gen |-> 0, floor |-> [g \in Generations |-> IF g = 0 THEN 0 ELSE NoFloor],
                 newest |-> 0]
    /\ req = [s \in Slots |-> Idle]
    /\ lost = FALSE

\* External: the firmware.  The sequences it used in a generation lie above
\* that generation's floor and not above the next one's.
UsedIn(g, n) ==
    /\ g <= sensor.gen
    /\ n > sensor.floor[g]
    /\ g < sensor.gen => n <= sensor.floor[g + 1]

\* External: the sensor carries out a data reset the server asked for, from a
\* floor nothing it recorded exceeds.
SensorResets(floor) ==
    /\ sensor.gen = device.gen
    /\ sensor.gen < MaxGen
    /\ floor >= sensor.newest
    /\ sensor' = [gen |-> sensor.gen + 1,
                  floor |-> [sensor.floor EXCEPT ![sensor.gen + 1] = floor],
                  newest |-> floor]
    /\ UNCHANGED <<device, stored, losses, req, lost>>

Sendable(p) ==
    \/ p.kind = "readings" /\ \A n \in p.batch : UsedIn(p.gen, n)
    \/ p.kind = "loss" /\ \A n \in p.range[1] .. p.range[2] : UsedIn(sensor.gen, n)
    \/ p.kind = "heartbeat" /\ p.reset \in {0, sensor.gen}

Highest(p) ==
    CASE p.kind = "readings"  -> Max(p.batch)
      [] p.kind = "loss"      -> p.range[2]
      [] p.kind = "heartbeat" -> p.newest

\* authenticate_device_request.
BeginRequest(s, p) ==
    /\ req[s] = Idle
    /\ Sendable(p)
    /\ req' = [req EXCEPT ![s] = [kind |-> p.kind, payload |-> p, row |-> device]]
    /\ sensor' = [sensor EXCEPT !.newest = Max({@, Highest(p)})]
    /\ UNCHANGED <<device, stored, losses, lost>>

\* ingest_batch: what it refuses, and the trigger on raw_readings.
BatchAccepted(p, row) ==
    \A n \in p.batch :
        IF stored[n] # Missing
        THEN stored[n] = [gen |-> p.gen, content |-> p.content]
        ELSE p.gen = row.gen /\ ~\E x \in losses : x[1] <= n /\ n <= x[2]

IngestBatch(s) ==
    LET p   == req[s].payload
        row == req[s].row
    IN  /\ req[s].kind = "readings"
        /\ ForUpdate(s)
        /\ BatchAccepted(p, row)
        /\ stored' = [n \in Seqs |-> IF n \in p.batch THEN [gen |-> p.gen, content |-> p.content]
                                     ELSE stored[n]]
        /\ device' = Flush(row, [row EXCEPT
                !.max = Max({@} \cup p.batch),
                !.ack = AdvanceContiguousCursor(stored', losses, @)])
        /\ req' = [req EXCEPT ![s] = Idle]
        /\ UNCHANGED <<losses, sensor, lost>>

\* record_permanent_loss: what it refuses, and the trigger on the ranges.
LossAccepted(x) ==
    /\ \A n \in x[1] .. x[2] : stored[n] = Missing
    /\ x \in losses \/ \A y \in losses : y[1] > x[2] \/ y[2] < x[1]

RecordPermanentLoss(s) ==
    LET x   == req[s].payload.range
        row == req[s].row
    IN  /\ req[s].kind = "loss"
        /\ ForUpdate(s)
        /\ LossAccepted(x)
        /\ losses' = losses \cup {x}
        /\ device' = Flush(row, [row EXCEPT
                !.max = IF x \in losses THEN @ ELSE Max({@, x[2]}),
                !.ack = AdvanceContiguousCursor(stored, losses', @)])
        /\ req' = [req EXCEPT ![s] = Idle]
        /\ UNCHANGED <<stored, sensor, lost>>

\* heartbeat; the reset it reports is applied unless it was before.
Heartbeat(s) ==
    LET p     == req[s].payload
        row   == req[s].row
        reset == p.reset > device.gen
        floor == sensor.floor[p.reset]
        d     == IF reset THEN [ack |-> floor, max |-> floor, gen |-> p.reset] ELSE row
    IN  /\ req[s].kind = "heartbeat"
        /\ reset => ForUpdate(s) /\ p.reset = row.gen + 1 /\ floor >= row.max
        /\ device' = Flush(row, [d EXCEPT !.max = Max({@, p.newest})])
        /\ req' = [req EXCEPT ![s] = Idle]
        /\ lost' = (lost \/ device'.max < device.max)
        /\ UNCHANGED <<stored, losses, sensor>>

\* The request is refused, the victim of a deadlock, or its connection is lost.
AbandonRequest(s) ==
    /\ req[s] # Idle
    /\ req' = [req EXCEPT ![s] = Idle]
    /\ UNCHANGED <<device, stored, losses, sensor, lost>>

Next ==
    \/ \E floor \in 0 .. MaxSeq : SensorResets(floor)
    \/ \E s \in {t \in Slots : req[t] = Idle}, p \in Payloads : BeginRequest(s, p)
    \/ \E s \in Slots : IngestBatch(s)
    \/ \E s \in Slots : RecordPermanentLoss(s)
    \/ \E s \in Slots : Heartbeat(s)
    \/ \E s \in Slots : AbandonRequest(s)

Spec == Init /\ [][Next]_vars

--------------------------------------------------------------------------------
(* Properties *)

\* Type invariant.
TypeOK ==
    /\ device \in DeviceRows
    /\ stored \in [Seqs -> Readings \cup {Missing}]
    /\ losses \subseteq Ranges
    /\ lost \in BOOLEAN
    /\ sensor \in [gen : Generations, floor : [Generations -> NoFloor .. MaxSeq],
                   newest : 0 .. MaxSeq]
    /\ req \in [Slots -> {Idle} \cup [kind : {"readings", "loss", "heartbeat"},
                                      payload : Payloads, row : DeviceRows]]

\* maximum_sequence is not below a stored reading, a recorded loss or the
\* acknowledgement (find_gaps and the floor of a data reset rely on it), unless
\* two heartbeats overlapped and one lost the other's update: batches, loss
\* reports and resets never cause it, whatever row they started from.
MaximumCoversEvidence ==
    lost \/ \A n \in Covered(stored, losses) \cup {device.ack} : n <= device.max

\* The row a request read is still the committed row in all that decides about
\* acknowledgement and generation, however long the request waited.
AckInFlightIsFresh ==
    \A s \in Slots : req[s] # Idle =>
        req[s].row.ack = device.ack /\ req[s].row.gen = device.gen

\* A sequence is a reading or a loss, never both, and in one loss range at most.
EvidenceDisjoint ==
    /\ \A x \in losses : \A n \in x[1] .. x[2] : stored[n] = Missing
    /\ \A x, y \in losses : x # y => x[1] > y[2] \/ y[1] > x[2]

\* Data resets separate readings: those above the floor of the server's
\* generation are of that generation, those below it are older.
GenerationsSeparated ==
    \A n \in Seqs : stored[n] # Missing =>
        (stored[n].gen = device.gen <=> n > sensor.floor[device.gen])

\* `gaps' lists the first MaxGaps of `runs' in ascending order.
GapList(gaps, runs) ==
    /\ Len(gaps) <= MaxGaps
    /\ \A i \in DOMAIN gaps : gaps[i] \in runs
    /\ \A i, j \in DOMAIN gaps : i < j => gaps[i][2] < gaps[j][1]
    /\ \A x \in runs : \/ \E i \in DOMAIN gaps : gaps[i] = x
                       \/ Len(gaps) = MaxGaps /\ gaps[MaxGaps][2] < x[1]

\* The maximal runs of a set of sequences.
Runs(open) ==
    {x \in Ranges : /\ \A n \in x[1] .. x[2] : n \in open
                    /\ x[1] - 1 \notin open /\ x[2] + 1 \notin open}

\* find_gaps reports exactly the first MaxGaps maximal runs without evidence
\* between the acknowledgement and the highest sequence known, also when a lost
\* update left the maximum below that, unless it left it below the acknowledgement.
GapsExact ==
    LET top  == Max(Covered(stored, losses) \cup {device.max})
        open == (device.ack + 1 .. top) \ Covered(stored, losses)
    IN  \/ lost /\ device.ack >= device.max
        \/ GapList(FindGaps(device, stored, losses), Runs(open))

Cursor == INSTANCE AckCursor WITH
    Horizon <- MaxSeq, covered <- Covered(stored, losses), ack <- device.ack

\* The acknowledgement of the server implements the abstract cursor: it covers
\* an unbroken run of evidence, all of it, and never moves back.  Overlapping
\* requests do not break it as long as no heartbeat lost another's maximum,
\* after which a data reset may start from a floor below recorded evidence.
CursorSpec ==
    /\ Cursor!Init
    /\ [][lost \/ Cursor!Next]_<<Covered(stored, losses), device.ack>>

\* The evidence of a sensor: typed, below its maximum, a sequence stored or lost
\* but not both, generations apart, gaps exactly what is missing, and no stale
\* acknowledgement on the way.
EvidenceSound ==
    /\ TypeOK
    /\ MaximumCoversEvidence
    /\ GenerationsSeparated
    /\ EvidenceDisjoint
    /\ GapsExact
    /\ AckInFlightIsFresh
================================================================================

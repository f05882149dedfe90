------------------------------ MODULE ReadingCosts ------------------------------
(***************************************************************************)
(* Stored readings and their prices: ReadingIngestion composed with the    *)
(* worker's calculate_pending_costs (worker/app/jobs.py).                  *)
(*                                                                         *)
(* A reading with energy has a normalized interval; the sequence of a      *)
(* reading stands for the interval's place in time.  The price of an       *)
(* interval depends on the energy used before it in the billing cycle (its *)
(* tier), so a price is represented by its basis, the earlier intervals it *)
(* counted.  A worker cycle is one transaction: it lists the intervals     *)
(* without a selected price, prices them one after the other, each from    *)
(* the rows committed by then, and commits all selections at the end.      *)
(***************************************************************************)
EXTENDS ReadingIngestion

VARIABLES cost,   \* committed interval_cost_selections: the basis, or Unpriced
          cycle,  \* the open transaction of the worker
          raced   \* history: energy was ingested while a cycle was open

costVars == <<vars, cost, cycle, raced>>

Unpriced == {0}
NoCosts  == [n \in Seqs |-> Unpriced]
Closed   == [open |-> FALSE, todo |-> {}, done |-> NoCosts]

\* Rows of the generation the device is in that carry energy.
Energy(st, d) == {n \in Seqs : st[n] = [gen |-> d.gen, content |-> "energy"]}

Pending == {n \in Energy(stored, device) : cost[n] = Unpriced}

\* _cost_context: the energy before the interval.
Prior(n) == {m \in Energy(stored, device) : m < n}

CostInit ==
    /\ Init
    /\ cost = NoCosts
    /\ cycle = Closed
    /\ raced = FALSE

\* Mutant: only selections of the inserted intervals themselves are removed.
AfterIngestion_Mutant(new) == [n \in Seqs |-> IF n \in new THEN Unpriced ELSE cost[n]]

\* ingest_batch removes the selections at and after the earliest new interval.
AfterIngestion(new) ==
    [n \in Seqs |-> IF \E m \in new : n >= m THEN Unpriced ELSE cost[n]]

\* A worker cycle that begins and commits after the request's DELETE and before
\* its COMMIT sees none of its rows, and its selections stay.
PricedMeanwhile(new) == IF cycle.open \/ new = {} THEN {} ELSE Pending

\* A request of the sensor, at the instant of its DELETE.
DeviceStep ==
    /\ Next
    /\ LET new == {n \in Seqs : stored[n] = Missing /\ stored'[n] # Missing
                                /\ stored'[n].content = "energy"}
       IN  \E kept \in SUBSET PricedMeanwhile(new) :
              /\ cost' = [n \in Seqs |-> IF n \in kept THEN Prior(n)
                                         ELSE AfterIngestion(new)[n]]
              /\ raced' = (raced \/ (cycle.open /\ new # {}) \/ kept # {})
    /\ UNCHANGED cycle

\* calculate_pending_costs lists the pending intervals.
PricingLists ==
    /\ ~cycle.open
    /\ cycle' = [open |-> TRUE, todo |-> Pending, done |-> NoCosts]
    /\ UNCHANGED <<vars, cost, raced>>

\* It prices one of them; those without a usable rate are left.
PricingSelects(n) ==
    /\ n \in cycle.todo
    /\ cycle' = [cycle EXCEPT !.todo = @ \ {n}, !.done[n] = Prior(n)]
    /\ UNCHANGED <<vars, cost, raced>>

\* run_jobs commits.
PricingCommits ==
    /\ cycle.open
    /\ cost' = [n \in Seqs |-> IF cycle.done[n] # Unpriced THEN cycle.done[n] ELSE cost[n]]
    /\ cycle' = Closed
    /\ UNCHANGED <<vars, raced>>

\* The cycle fails and is rolled back, or the worker is killed.
PricingFails ==
    /\ cycle.open
    /\ cycle' = Closed
    /\ UNCHANGED <<vars, cost, raced>>

CostNext ==
    \/ DeviceStep
    \/ PricingLists
    \/ \E n \in Seqs : PricingSelects(n)
    \/ PricingCommits
    \/ PricingFails

CostSpec == CostInit /\ [][CostNext]_costVars

--------------------------------------------------------------------------------
(* Properties *)

\* "the worker rebuilds tier progression chronologically": a selected price of
\* the current generation counts exactly the energy stored before its interval,
\* backlog that arrived late included.
PricesCountEarlierEnergy ==
    \A n \in Energy(stored, device) : cost[n] # Unpriced => cost[n] = Prior(n)

\* Backlog in any order, retries, resets, failed cycles and cycles repeated
\* never leave a stale price, as long as no energy arrives during a cycle.
PricesStaleOnlyByRace == raced \/ PricesCountEarlierEnergy
================================================================================

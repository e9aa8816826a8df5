----------------------------- MODULE MemoryPool -----------------------------
(***************************************************************************)
(* ReservedSpillPool (silk-chiffon-core, src/pipeline/memory_pool.rs), the *)
(* DataFusion memory pool of a command.  Every method runs under the       *)
(* pool's mutex and is one action here.  The consumers are DataFusion      *)
(* operators: each registers once, holds one reservation, and frees it     *)
(* before it unregisters.                                                  *)
(***************************************************************************)
EXTENDS Integers, FiniteSets, FiniteSetsExt

CONSTANTS Consumers,  \* the operators
          CanSpill,   \* those whose MemoryConsumer can spill
          PoolSize,   \* pool_size
          Reserve,    \* reserve_for_non_spillable
          MaxGrow     \* bound on one request

ASSUME PoolAssumption ==
  /\ CanSpill \subseteq Consumers /\ IsFiniteSet(Consumers)
  /\ PoolSize \in Nat /\ Reserve \in Nat /\ Reserve < PoolSize
  /\ MaxGrow \in Nat

VARIABLES
  live,         \* the registered consumers
  size,         \* size[c]: its reservation
  numSpill,     \* PoolState::num_spill
  spillable,    \* PoolState::spillable
  nonSpillable, \* PoolState::non_spillable
  late,         \* a spillable consumer registered while another held memory
  grown         \* grow was called for a spillable consumer

vars == <<live, size, numSpill, spillable, nonSpillable, late, grown>>

Spilling(c) == c \in CanSpill
Less(a, b) == IF a >= b THEN a - b ELSE 0   \* saturating_sub
Larger(a, b) == IF a > b THEN a ELSE b

Init ==
  /\ live = {}
  /\ size = [c \in Consumers |-> 0]
  /\ numSpill = 0 /\ spillable = 0 /\ nonSpillable = 0
  /\ late = FALSE /\ grown = FALSE

(* The use of c's kind changes by n. *)
Track(c, n) ==
  IF Spilling(c) THEN spillable' = spillable + n /\ UNCHANGED nonSpillable
                 ELSE nonSpillable' = nonSpillable + n /\ UNCHANGED spillable

Resize(c, n) == size' = [size EXCEPT ![c] = @ + n]

Register(c) ==
  /\ c \notin live
  /\ live' = live \cup {c}
  /\ numSpill' = numSpill + (IF Spilling(c) THEN 1 ELSE 0)
  /\ late' = (late \/ (Spilling(c) /\ spillable > 0))
  /\ UNCHANGED <<size, spillable, nonSpillable, grown>>

Unregister(c) ==
  /\ c \in live
  /\ live' = live \ {c}
  /\ Track(c, -size[c])
  /\ size' = [size EXCEPT ![c] = 0]
  /\ numSpill' = numSpill - (IF Spilling(c) THEN 1 ELSE 0)
  /\ UNCHANGED <<late, grown>>

(* The region of the spillable consumers, and the share of each.  Faulty
   variant: the whole region for each. *)
Region == Less(PoolSize, Larger(nonSpillable, Reserve))
ShareAll == Region
Share == IF numSpill = 0 THEN Region ELSE Region \div numSpill

(* What is left for a consumer that cannot spill. *)
Available == Less(PoolSize, nonSpillable + spillable)

TryGrow(c) ==
  /\ c \in live
  /\ \E n \in 1..MaxGrow :
       /\ IF Spilling(c) THEN size[c] + n <= Share ELSE n <= Available
       /\ Track(c, n) /\ Resize(c, n)
  /\ UNCHANGED <<live, numSpill, late, grown>>

(* Infallible: the pool only counts. *)
Grow(c) ==
  /\ c \in live
  /\ \E n \in 1..MaxGrow :
       /\ size[c] + n <= PoolSize
       /\ Track(c, n) /\ Resize(c, n)
  /\ grown' = (grown \/ Spilling(c))
  /\ UNCHANGED <<live, numSpill, late>>

Shrink(c) ==
  /\ c \in live
  /\ \E n \in 1..size[c] : Track(c, -n) /\ Resize(c, -n)
  /\ UNCHANGED <<live, numSpill, late, grown>>

Next == \E c \in Consumers :
  Register(c) \/ Unregister(c) \/ TryGrow(c) \/ Grow(c) \/ Shrink(c)

Spec == Init /\ [][Next]_vars

-----------------------------------------------------------------------------
(* Properties *)

(* What the consumers that cannot spill have not used of the reserve is there for
   them. *)
ReserveIsThere == nonSpillable <= Reserve => Available >= Reserve - nonSpillable

(* It is there however the shares change as consumers leave and as others use more
   than the reserve, if the spillable consumers are registered before any of them
   takes memory (DataFusion decides when), and take it with try_grow. *)
ReserveGranted == ~late /\ ~grown => ReserveIsThere

(* What docs/CLI.md:96 promises of --non-spillable-reserve, "guaranteeing headroom
   for non-spillable consumers": it is there for any order of registrations, if
   memory is taken with try_grow, which may refuse.  The pool does not keep it:
   a consumer holds what was its share when another registers and gets its own. *)
ReserveGuaranteed == ~grown => ReserveIsThere
=============================================================================

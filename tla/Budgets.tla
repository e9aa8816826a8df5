------------------------------ MODULE Budgets ------------------------------
(***************************************************************************)
(* The threads and the memory of a command: the specifications that the    *)
(* command line accepts (src/lib.rs), what the machine or its cgroup       *)
(* offers (src/system_memory.rs, silk-chiffon-core src/pipeline/mod.rs),   *)
(* how run divides it (src/commands/transform.rs) and what each sort keeps *)
(* for its merge (sort_memory.rs).  Sizes are in units of the caller's     *)
(* choice; usize arithmetic does not overflow at the sizes of a machine.   *)
(***************************************************************************)
EXTENDS Integers, Sequences, FiniteSets, FiniteSetsExt, Collections

CONSTANTS MinReservation, \* MIN_SORT_SPILL_RESERVATION, 10 MiB
          BatchSize,      \* rows of a batch, 8192
          OnePetabyte     \* a v1 limit that means no limit

ASSUME BudgetsAssumption == MinReservation \in Nat /\ BatchSize \in Nat

Absent == -1              \* an option that is not there
NonZero(n) == n > 0
AtLeast(low, n) == IF n > low THEN n ELSE low
Minus(a, b) == IF a > b THEN a - b ELSE 0     \* saturating_sub
Clamp(n, low, high) == IF n < low THEN low ELSE IF n > high THEN high ELSE n
OrElse(n, m) == IF n # Absent THEN n ELSE m

-----------------------------------------------------------------------------
(* What a machine offers: m.v2 and m.v1 are the cgroup limits, Absent where   *)
(* the file is missing or says "max"; stat and usage what the cgroup uses;    *)
(* total and available are the system's.                                      *)

(* A machine has a processor, no more memory available than it has in all, and a
   cgroup that gives its limit gives what it uses as well: the kernel offers both
   files together. *)
IsMachine(m) ==
  LET Size == Nat \cup {Absent}
  IN /\ m.cpus \in Nat /\ m.cpus > 0 /\ {m.v2, m.v1, m.usage} \subseteq Size
     /\ m.total \in Nat /\ m.available \in 0..m.total
     /\ \A s \in m.stat : s.counted \in Nat /\ s.reclaimable \in Nat
     /\ m.v2 # Absent => m.stat # {}
     /\ m.v1 # Absent => m.usage # Absent

V1Limit(m) == IF m.v1 # Absent /\ m.v1 < OnePetabyte THEN m.v1 ELSE Absent
CgroupTotal(m) == OrElse(m.v2, V1Limit(m))
TotalMemory(m) == OrElse(CgroupTotal(m), m.total)

(* parse_memory_stat_net_used: reclaimable slab does not count as used. *)
NetUsed(stat) == Minus(stat.counted, stat.reclaimable)
V2Available(m) ==
  IF m.v2 # Absent /\ m.stat # {} THEN Minus(m.v2, NetUsed(CHOOSE s \in m.stat : TRUE))
  ELSE Absent
V1Available(m) ==
  IF V1Limit(m) # Absent /\ m.usage # Absent THEN Minus(m.v1, m.usage) ELSE Absent
SystemAvailable(m) == IF m.available > 0 THEN m.available ELSE m.total \div 2
AvailableMemory(m) ==
  OrElse(OrElse(V2Available(m), V1Available(m)), SystemAvailable(m))

-----------------------------------------------------------------------------
(* What the FromStr implementations and parsers accept.                       *)

ParsedThreads(s) ==
  \/ s.kind = "Fixed" /\ NonZero(s.threads)
  \/ s.kind = "Reserve" /\ NonZero(s.min)
ParsedMemory(s) ==
  /\ s.kind \in {"Total", "Available"} => s.pct \in 1..100
  /\ s.kind \in {"Fixed", "Reserve"} => NonZero(s.bytes)
  /\ s.kind # "Fixed" => s.min = Absent \/ NonZero(s.min)
ParsedReserve(s) ==
  \/ s.kind = "Percent" /\ s.pct \in 1..99
  \/ s.kind = "Fixed" /\ NonZero(s.bytes)

ResolveThreads(s, m) ==
  IF s.kind = "Fixed" THEN s.threads ELSE AtLeast(s.min, Minus(m.cpus, s.reserve))

ResolveMemory(s, m) ==
  LET budget == CASE s.kind = "Total" -> (TotalMemory(m) * s.pct) \div 100
                  [] s.kind = "Available" -> (AvailableMemory(m) * s.pct) \div 100
                  [] s.kind = "Reserve" -> Minus(TotalMemory(m), s.bytes)
                  [] OTHER -> s.bytes
  IN IF s.kind = "Fixed" THEN budget ELSE AtLeast(OrElse(s.min, 0), budget)

(* PoolReserveSpec::resolve; a reserve of nothing, of the whole pool or of a
   pool of nothing is refused.  Faulty variant: only a reserve larger than the
   pool is refused. *)
ReserveBytes(s, pool) ==
  IF s.kind = "Percent" THEN (pool * s.pct) \div 100 ELSE s.bytes
ReserveRefusedAbove(s, pool) == ReserveBytes(s, pool) > pool
ReserveRefused(s, pool) ==
  \/ pool = 0
  \/ s.kind = "Percent" /\ ReserveBytes(s, pool) = 0
  \/ ReserveBytes(s, pool) > pool - 1

-----------------------------------------------------------------------------
(* run: the division.  sorts is true for a sort the user asked for and for    *)
(* the one that sort-single needs.                                            *)

ThreeQuarters(cpus) == AtLeast(1, (cpus * 3) \div 4)

(* What the plan may use; Absent leaves the default of DataFusion. *)
TargetPartitions(preserve, given, sorts, cpus) ==
  IF preserve THEN 1
  ELSE IF given # Absent THEN given
  ELSE IF sorts THEN ThreeQuarters(cpus) ELSE Absent

PoolBytes(total, sorts) == (total * (IF sorts THEN 60 ELSE 20)) \div 100
OutputThreads(cpus, sorts) == IF sorts THEN AtLeast(1, cpus \div 4) ELSE ThreeQuarters(cpus)
MemoryPerPartition(pool, partitions) == pool \div AtLeast(1, partitions)

-----------------------------------------------------------------------------
(* sort_spill_reservation_from_plan.  A sort is the sequence of its input's   *)
(* partitions; a partition has the rows and bytes that its statistics give,   *)
(* or Absent.  An input that claims no partition is taken for one of which    *)
(* nothing is known.                                                          *)

UnknownInput == [rows |-> Absent, bytes |-> Absent]
SortInputs(sort) == IF sort = <<>> THEN <<UnknownInput>> ELSE sort

Estimate(p, memory) ==
  LET average == p.bytes \div AtLeast(1, p.rows)
      files == AtLeast(1, p.bytes \div memory)
  IN IF \/ p.rows = Absent \/ p.bytes = Absent \/ memory = 0 \/ average = 0
        \/ memory \div 2 < MinReservation
     THEN Absent
     ELSE Clamp(files * BatchSize * average, MinReservation, memory \div 2)

Fallback(memory) ==
  IF memory \div 2 >= MinReservation
  THEN Clamp(memory \div 10, MinReservation, memory \div 2) ELSE Absent

Reservations(sorts, memory) ==
  UNION {{OrElse(Estimate(SortInputs(sorts[i])[k], memory), Fallback(memory)) :
            k \in DOMAIN SortInputs(sorts[i])} : i \in DOMAIN sorts}
(* The largest that is there, for every sort of the plan. *)
SortReservation(sorts, memory) == Max({Absent} \cup Reservations(sorts, memory))

(* How many sorters keep that reservation: each sorts one partition of one sort. *)
Sorters(sorts) == SumOf([i \in DOMAIN sorts |-> Len(SortInputs(sorts[i]))])
=============================================================================

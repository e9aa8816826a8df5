-------------------------- MODULE TransformCommand --------------------------
(***************************************************************************)
(* The transform command (src/commands/transform.rs): its command line     *)
(* (src/lib.rs), its budgets, the session, the inputs, the plan, the       *)
(* output, and the execution (silk-chiffon-core, src/pipeline/mod.rs).     *)
(* What the outputs do while they are written is the matter of             *)
(* PartitionedOutput and of the sinks; here they are completed one after   *)
(* another, or fail.                                                       *)
(***************************************************************************)
EXTENDS FileInputs, Budgets

CONSTANTS CommandLines(_), \* the command lines tried with given parts
          Machines,        \* what the machine may offer
          Columns,         \* the columns of the inputs
          Nested,          \* those of them that are not primitive
          QueryColumns,    \* what a query may make of them
          SortShapes,      \* the inputs of the sorts in a plan
          MaxOutputs       \* bound on the outputs of a partitioned command

(* What Clap makes of an argument: a value of its option's type.  An exact
   reference names one object; the objects of a pattern are those it matches. *)
IsOperand(r) == r.objects \subseteq Objects /\ IsFiniteSet(r.objects)
IsArguments(a) ==
  /\ IsList(a.references) /\ IsList(a.patterns)
  /\ \A r \in Range(a.references) \cup Range(a.patterns) : IsOperand(r)
  /\ \A r \in Range(a.references) : Cardinality(r.objects) <= 1
  /\ a.by # None => IsList(a.by)
  /\ a.sortBy # None => IsList(a.sortBy)
  /\ a.targetPartitions \in Nat \cup {Absent}
  /\ a.threads # None => CASE a.threads.kind = "Fixed" -> a.threads.threads \in Nat
                           [] OTHER -> {a.threads.min, a.threads.reserve} \subseteq Nat
  /\ a.memory.kind \in {"Total", "Available", "Fixed", "Reserve"}
  /\ a.memory.kind \in {"Fixed", "Reserve"} => a.memory.bytes \in Nat
  /\ a.memory.kind # "Fixed" => a.memory.min \in Nat \cup {Absent}
  /\ a.reserve # None /\ a.reserve.kind = "Fixed" => a.reserve.bytes \in Nat

(* What is known of the sorts of a plan: rows and bytes of their partitions. *)
IsShape(sorts) ==
  sorts \in Seq(Seq([rows : Nat \cup {Absent}, bytes : Nat \cup {Absent}]))

ASSUME CommandAssumption ==
  /\ \A p \in Parts : \A a \in CommandLines(p) : IsArguments(a)
  /\ \A m \in Machines : IsMachine(m)
  /\ \A sorts \in SortShapes : IsShape(sorts)

VARIABLES budget,   \* cpus, total, pool, reserve, partitions, reservation
          plan,     \* the prepared plan: columns, order, boundedness
          spill,    \* the spill directory: "none", "given" or "temporary"
          sink,     \* the SinkBindingConfig of the bound output, or None
          claimed,  \* the exact target was prepared
          running,  \* begin_execution was called
          outputs,  \* outputs completed
          listed    \* the outputs that were listed, or Absent

commandVars == <<budget, plan, spill, sink, claimed, running, outputs, listed>>

CommandInit ==
  /\ CatalogInit /\ InputsInit
  /\ budget = None /\ plan = None /\ spill = "none" /\ sink = None
  /\ claimed = FALSE /\ running = FALSE /\ outputs = 0 /\ listed = Absent

-----------------------------------------------------------------------------
(* The command line: what Clap demands of TransformArgs.                      *)

Given(option) == option # None
Accepted(a) ==
  /\ a.references # <<>> \/ a.patterns # <<>>
  /\ Given(a.to) # Given(a.toMany) /\ (Given(a.by) <=> Given(a.toMany))
  /\ a.strategy # "sort-single" \/ a.maxOpen # Absent => Given(a.by)
  /\ a.list => Given(a.toMany)
  /\ a.allowUnmatched => a.patterns # <<>>
  /\ a.preserve => /\ ~Given(a.query) /\ ~Given(a.sortBy) /\ ~Given(a.toMany)
                   /\ a.patterns = <<>>
  /\ a.targetPartitions # 0
  /\ ParsedMemory(a.memory)
  /\ Given(a.reserve) => ParsedReserve(a.reserve)
  /\ Given(a.threads) => ParsedThreads(a.threads)
  /\ Given(a.inputFormat) =>
       LET i == Get(parts.formats, a.inputFormat)
       IN i # 0 /\ HasProvider(parts.formats[i])
  /\ Given(a.outputFormat) =>
       LET i == Get(parts.formats, a.outputFormat)
       IN i # 0 /\ HasSink(parts.formats[i])

BindTransform ==
  /\ stage = "assembled"
  /\ \E a \in CommandLines(parts) : Accepted(a) /\ Bind([name |-> "transform", args |-> a])
  /\ UNCHANGED <<inputVars, commandVars>>

-----------------------------------------------------------------------------
(* Sort orders.  A column of an order has a name and is descending or not.    *)

Unique(order) == Filter([i \in DOMAIN order |-> [at |-> i, c |-> order[i]]],
  LAMBDA e : \A j \in 1..(e.at - 1) : order[j].name # e.c.name)
UniqueByName(order) == LET u == Unique(order) IN [i \in DOMAIN u |-> u[i].c]
Ascending(names) ==
  UniqueByName([i \in DOMAIN names |-> [name |-> names[i], desc |-> FALSE]])
ColumnNames(order) == {c.name : c \in Range(order)}

By == IF Given(Args.by) THEN Args.by ELSE <<>>
UserSort == IF Given(Args.sortBy) THEN UniqueByName(Args.sortBy) ELSE <<>>
UserSortInFile == Filter(UserSort, LAMBDA c : c.name \notin Range(By))
PartitionSort == IF Args.strategy = "sort-single" THEN Ascending(By) ELSE <<>>

(* The columns of the partitions first.  Faulty variant: the user's first. *)
UserSortFirst == UniqueByName(UserSortInFile \o PartitionSort)
FullSort == UniqueByName(PartitionSort \o UserSortInFile)

HasSort == Given(Args.sortBy) \/ (Given(Args.by) /\ Args.strategy = "sort-single")

-----------------------------------------------------------------------------
(* Options, budgets and the session                                           *)

Cpus(m) == IF Given(Args.threads) THEN ResolveThreads(Args.threads, m) ELSE m.cpus
Pool(m) == PoolBytes(ResolveMemory(Args.memory, m), HasSort)

Budget(m) ==
  [cpus |-> Cpus(m), total |-> ResolveMemory(Args.memory, m), machine |-> TotalMemory(m),
   pool |-> Pool(m),
   reserve |-> IF Given(Args.reserve) THEN ReserveBytes(Args.reserve, Pool(m)) ELSE Absent,
   partitions |-> TargetPartitions(Args.preserve, Args.targetPartitions, HasSort, Cpus(m)),
   reservation |-> Absent]

(* How many partitions share the pool when the sort reservation is chosen.
   Faulty variant: always what the threads allow. *)
SortPartitionsOfCpus == ThreeQuarters(budget.cpus)
SortPartitions == OrElse(budget.partitions, ThreeQuarters(budget.cpus))

(* create_session_context: a directory that was given is kept afterwards. *)
CreateSession ==
  \/ /\ spill' = IF Args.spillPath THEN "given" ELSE "temporary"
     /\ phase' = "patterns" /\ Goes
  \/ Fail("Session") /\ UNCHANGED <<phase, spill>>

Options ==
  /\ Running("options")
  /\ \E m \in Machines :
       IF \/ Args.preserve /\ Len(Args.references) # 1
          \/ Given(Args.reserve) /\ ReserveRefused(Args.reserve, Pool(m))
       THEN Fail("Options") /\ UNCHANGED <<phase, budget, spill>>
       ELSE /\ budget' = Budget(m)
            /\ CreateSession
  /\ UNCHANGED <<plan, sink, claimed, running, outputs, listed>>

-----------------------------------------------------------------------------
(* The plan: union by name, query, sort, physical plan, sort reservation      *)

(* A temporary directory goes with its owner, one that was given stays. *)
SpillDropped == IF spill = "temporary" THEN "none" ELSE spill

(* Everything the pipeline owns goes away with an error. *)
FailCommand(error) ==
  /\ Fail(error)
  /\ spill' = SpillDropped /\ running' = FALSE
  /\ UNCHANGED <<phase, budget, plan, sink, claimed, outputs>>

(* The spill directory is the prepared plan's, then the execution's. *)
SpillAfterPrepare == spill

Planned(columns, sorts, bounded) ==
  /\ plan' = [columns |-> columns, order |-> FullSort, bounded |-> bounded, sorts |-> sorts]
  /\ spill' = SpillAfterPrepare
  /\ budget' = IF HasSort
               THEN [budget EXCEPT !.reservation =
                       SortReservation(sorts, MemoryPerPartition(budget.pool, SortPartitions))]
               ELSE budget
  /\ phase' = "output" /\ Goes
  /\ UNCHANGED <<sink, claimed, running, outputs>>

Plan ==
  /\ Running("planning")
  /\ \/ FailCommand("Plan")
     \/ \E columns \in IF Given(Args.query) THEN QueryColumns ELSE {Columns},
            sorts \in IF FullSort = <<>> THEN {<<>>} ELSE SortShapes :
          /\ ColumnNames(FullSort) \subseteq columns
          /\ Planned(columns, sorts, TRUE)
  /\ UNCHANGED listed

(* "current outputs require a bounded final plan" *)
UnboundedPlan == Running("planning") /\ FailCommand("Unbounded") /\ UNCHANGED listed

-----------------------------------------------------------------------------
(* The output                                                                 *)

TargetScheme == IF Given(Args.to) THEN Args.to.scheme ELSE Args.toMany.scheme
TargetOwner == IF TargetScheme = None THEN Files
               ELSE SchemeOwner(parts.backends, parts.outputs, "WriteOnly", TargetScheme)
ExcludedExist == Range(Args.exclude) \subseteq plan.columns

(* A service takes the whole stream of an exact target and nothing else. *)
ServiceOutput ==
  /\ Running("output") /\ Given(Args.to) /\ TargetOwner > Files
  /\ \/ /\ Given(Args.outputFormat) \/ ~ExcludedExist
        /\ FailCommand("ServiceOutput")
     \/ /\ ~Given(Args.outputFormat) /\ ExcludedExist
        /\ running' = TRUE /\ phase' = "consume" /\ Goes
        /\ UNCHANGED <<budget, plan, spill, sink, claimed, outputs>>
     \/ FailCommand("StartExecution")
  /\ UNCHANGED listed

(* The consumer has drained the stream when it returns. *)
Consume ==
  /\ Running("consume")
  /\ \/ FailCommand("Consume")
     \/ /\ stage' = "ended" /\ failure' = None /\ outputs' = 1
        /\ spill' = SpillDropped /\ running' = FALSE
        /\ UNCHANGED <<phase, budget, plan, sink, claimed>>
  /\ UNCHANGED listed

WrongOutput ==
  /\ Running("output")
  /\ TargetOwner = Nobody \/ (Given(Args.toMany) /\ TargetOwner > Files)
  /\ FailCommand("OutputScheme") /\ UNCHANGED listed

(* The format of an output: the one that was given, or the owner of the
   target's extension. *)
OutputFormat ==
  LET B == Bound(parts.formats)
  IN IF Given(Args.outputFormat) THEN Get(B, Args.outputFormat)
     ELSE ByExtension(B, IF Given(Args.to) THEN Args.to.extension ELSE Args.toMany.extension)

(* What the sinks are told. *)
SinkOrdering == UserSortInFile
Sink == [threads |-> OutputThreads(budget.cpus, HasSort),
         mode |-> IF Given(Args.toMany) /\ Args.strategy # "sort-single"
                  THEN "Multiple" ELSE "OneAtATime",
         ordering |-> SinkOrdering,
         format |-> OutputFormat]

(* FileOutputBinder::bind.  A template needs columns of primitive type, a file
   number if and only if outputs may return, and no other field; its checks come
   before anything is claimed, and its targets are claimed as they are opened. *)
TemplateAccepted(t) ==
  /\ Range(By) \subseteq plan.columns \ Nested
  /\ "file_number" \notin Range(By)
  /\ t.numbered <=> Args.strategy = "nosort-evict"
  /\ t.fields \subseteq Range(By)
  /\ Args.maxOpen # Absent => Args.strategy = "nosort-evict" /\ Args.maxOpen > 0

BindAccepted == ExcludedExist

BindOutput ==
  /\ Running("output") /\ TargetOwner = Files
  /\ \/ /\ ~BindAccepted \/ (Given(Args.toMany) /\ ~TemplateAccepted(Args.toMany))
        /\ FailCommand("Bind")
     \/ FailCommand("Target")
     \/ /\ BindAccepted /\ (Given(Args.toMany) => TemplateAccepted(Args.toMany))
        /\ claimed' = Given(Args.to)
        /\ IF OutputFormat # 0 /\ HasSink(Bound(parts.formats)[OutputFormat])
           THEN sink' = Sink /\ phase' = "bound" /\ Goes /\ UNCHANGED <<spill, running>>
           ELSE Fail("Format") /\ spill' = SpillDropped /\ UNCHANGED <<phase, sink, running>>
        /\ UNCHANGED <<budget, plan, outputs>>
  /\ UNCHANGED listed

BeginExecution ==
  /\ Running("bound")
  /\ \/ FailCommand("StartExecution")
     \/ /\ running' = TRUE /\ phase' = "write" /\ Goes
        /\ UNCHANGED <<budget, plan, spill, sink, claimed, outputs>>
  /\ UNCHANGED listed

-----------------------------------------------------------------------------
(* Execution.  A file with rows is opened against the schema of its provider. *)

Unreadable == \E p \in Range(FileProviders) : \E o \in Range(p.files) :
  \/ ~Reachable(o)
  \/ /\ p.format \in CheckedFormats /\ ~contents[o].empty
     /\ ~SchemasMatch(p.schema, contents[o].schema)

CompleteOutput ==
  /\ Running("write") /\ Given(Args.toMany) /\ outputs < MaxOutputs
  /\ outputs' = outputs + 1
  /\ Goes /\ UNCHANGED <<phase, budget, plan, spill, sink, claimed, running, listed>>

(* The stream is dropped when write returns, drained or not; a file that changed
   its schema before it was opened makes the plan fail. *)
Write ==
  /\ Running("write")
  /\ running' = FALSE /\ spill' = SpillDropped
  /\ \/ /\ ~Unreadable
        /\ phase' = "written" /\ Goes
        /\ outputs' = IF Given(Args.to) THEN 1 ELSE outputs
     \/ phase' = "failed" /\ Goes /\ UNCHANGED outputs
  /\ UNCHANGED <<budget, plan, sink, claimed, listed>>

(* The report is listed after a failure too: it names the outputs that are
   durable all the same.  A listing may fail. *)
Finish ==
  /\ stage = "bound" /\ chosen.name = "transform" /\ phase \in {"written", "failed"}
  /\ stage' = "ended"
  /\ \/ /\ listed' = IF Args.list THEN outputs ELSE Absent
        /\ failure' = IF phase = "failed" THEN "Write" ELSE None
     \/ /\ Args.list /\ UNCHANGED listed
        /\ failure' = IF phase = "failed" THEN "WriteAndListing" ELSE "Listing"
  /\ UNCHANGED <<phase, budget, plan, spill, sink, claimed, running, outputs>>

RunCommand ==
  /\ \/ Options \/ Plan \/ UnboundedPlan \/ ServiceOutput \/ Consume \/ WrongOutput
     \/ BindOutput \/ BeginExecution \/ CompleteOutput \/ Write \/ Finish
  /\ UNCHANGED <<parts, chosen, printed, operands, groupVars, providers,
                 views, contents, rewrites>>

(* An error while the inputs are made ends the pipeline as well. *)
MakeInputs ==
  /\ InputsNext
  /\ spill' = IF stage' = "ended" THEN SpillDropped ELSE spill
  /\ UNCHANGED <<parts, chosen, printed, budget, plan, sink, claimed, running,
                 outputs, listed>>

OthersWrite ==
  /\ \E o \in Objects : Rewrite(o)
  /\ UNCHANGED <<parts, chosen, printed, commandVars>>

CommandNext ==
  \/ CatalogNext /\ UNCHANGED <<inputVars, commandVars>>
  \/ BindTransform \/ RunCommand \/ MakeInputs \/ OthersWrite

CommandSpec == CommandInit /\ [][CommandNext]_<<catalogVars, inputVars, commandVars>>

-----------------------------------------------------------------------------
(* Properties *)

(* r does not come after s in an order. *)
Orderly(order, r, s) == \A k \in DOMAIN order :
  (\A j \in 1..(k - 1) : r[order[j].name] = s[order[j].name]) =>
    IF order[k].desc THEN r[order[k].name] >= s[order[k].name]
    ELSE r[order[k].name] <= s[order[k].name]

(* What is told about order is true: of the rows of one partition, in the order
   of the stream, those of one file are in the order the sink records in its
   metadata; sort-single sees each partition once; and input order is preserved
   by one partition that reads one input and sorts nothing. *)
OrderIsTrue == sink # None =>
  /\ \A r, s \in [Columns -> 0..1] :
       Orderly(plan.order, r, s) /\ (\A c \in Range(By) : r[c] = s[c])
         => Orderly(sink.ordering, r, s)
  /\ Given(Args.by) /\ Args.strategy = "sort-single" =>
       {plan.order[i].name : i \in 1..Cardinality(Range(By))} = Range(By)
  /\ Args.preserve =>
       budget.partitions = 1 /\ Len(providers) = 1 /\ plan.order = <<>>

(* The budgets fit into each other.  Every partition of every sort of the plan
   keeps the reservation: where there are no more of them than the pool was
   divided by they keep at most half of it, and at most k halves where there are
   up to k times as many, for the code does not count the sorts of a plan.  The
   reserve leaves something, nothing is divided into nothing, and nobody plans
   with more memory than there is unless told to. *)
BudgetsFit == budget # None =>
  /\ budget.cpus >= 1 /\ OutputThreads(budget.cpus, HasSort) >= 1
  /\ budget.partitions # Absent => budget.partitions >= 1
  /\ budget.reserve # Absent => 0 < budget.reserve /\ budget.reserve < budget.pool
  /\ budget.reservation # Absent =>
       /\ budget.reservation >= MinReservation
       /\ LET sorters == Sorters(plan.sorts)
              halves == (sorters + budget.partitions - 1) \div budget.partitions
          IN 2 * (budget.reservation * sorters) <= budget.pool * halves
  /\ Args.memory.kind # "Fixed" =>
       budget.total <= AtLeast(OrElse(Args.memory.min, 0), budget.machine)
=============================================================================

---------------------------- MODULE PartitionRuns ----------------------------
(***************************************************************************)
(* The stream of runs that a partitioned output reads (src/commands/       *)
(* transform/file_output/partition_runs.rs) and the values that its report *)
(* lists (report.rs).                                                      *)
(*                                                                         *)
(* A batch is a sequence of rows, a row the sequence of its values in the  *)
(* columns of --by: Null, or a value with its type and with its text, a    *)
(* sequence of characters [c, n]; n says how often c is percent-encoded.   *)
(***************************************************************************)
EXTENDS Integers, Sequences, FiniteSets, Collections

CONSTANTS Null,     \* the value that is not there
          Streams   \* the sequences of batches that a plan may yield

VARIABLES input,   \* the batches of the plan
          loaded,  \* how many of them were polled
          ranges,  \* current_ranges, less those that were emitted
          runs     \* the runs emitted: [batch, first, last]

runVars == <<input, loaded, ranges, runs>>

RunsInit ==
  /\ input \in Streams
  /\ loaded = 0 /\ ranges = <<>> /\ runs = <<>>

-----------------------------------------------------------------------------
(* partition_key.  Faulty variant: the texts without their lengths. *)

Character(c, n) == [c |-> c, n |-> n]
NullMark == <<Character("!", 0)>>
PlainText(v) == IF v = Null THEN NullMark ELSE v.text
KeyPart(v) ==
  IF v = Null THEN NullMark
  ELSE <<Character("length", Len(v.text)), Character(":", 0)>> \o v.text
PartitionKey(row) ==
  FlattenSeq([i \in DOMAIN row |->
    (IF i = 1 THEN <<>> ELSE <<Character(",", 0)>>) \o KeyPart(row[i])])

(* partition of the arrow crate: the maximal ranges of equal rows. *)
Starts(batch) == {i \in DOMAIN batch : i = 1 \/ batch[i] # batch[i - 1]}
EndOf(batch, start) ==
  CHOOSE e \in start..Len(batch) :
    /\ e = Len(batch) \/ e + 1 \in Starts(batch)
    /\ \A i \in (start + 1)..e : i \notin Starts(batch)
Ranges(batch) ==
  LET from == Filter([i \in DOMAIN batch |-> i], LAMBDA i : i \in Starts(batch))
  IN [k \in DOMAIN from |-> <<from[k], EndOf(batch, from[k])>>]

(* PartitionRunStream::poll_next: a batch without rows has no ranges and the
   next one is polled. *)
Load ==
  /\ ranges = <<>> /\ loaded < Len(input)
  /\ loaded' = loaded + 1
  /\ ranges' = Ranges(input[loaded + 1])
  /\ UNCHANGED <<input, runs>>

(* The values of a run are those of its first row.  Faulty variant: a run ends
   before its last row. *)
SliceShort(range) == <<range[1], range[2] - 1>>
Slice(range) == range
ValuesOf(run) == input[run.batch][run.first]

Emit ==
  /\ ranges # <<>>
  /\ LET slice == Slice(Head(ranges))
     IN runs' = Append(runs, [batch |-> loaded, first |-> slice[1], last |-> slice[2]])
  /\ ranges' = Tail(ranges)
  /\ UNCHANGED <<input, loaded>>

(* An exact target is given the batches as they are. *)
EmitBatch ==
  /\ loaded < Len(input)
  /\ loaded' = loaded + 1
  /\ runs' = Append(runs, [batch |-> loaded + 1, first |-> 1, last |-> Len(input[loaded + 1])])
  /\ UNCHANGED <<input, ranges>>

Drained == ranges = <<>> /\ loaded = Len(input)

-----------------------------------------------------------------------------
(* array_to_json_value: what is not a number in JSON is null. *)
Json(v) ==
  CASE v = Null -> Null
    [] v # Null /\ v.type = "nonfinite" -> Null
    [] OTHER -> [json |-> IF v.type \in {"integer", "float", "date"} THEN "Number"
                          ELSE IF v.type = "boolean" THEN "Bool" ELSE "String",
                 text |-> v.text]

(* partition_field_values, in the order of --by. *)
PartitionFields(row) == [i \in DOMAIN row |-> Json(row[i])]

-----------------------------------------------------------------------------
(* The rows of a run, as <<batch, index>>, and those of a sequence of runs. *)
RowsOfRun(run) == [i \in 1..(run.last - run.first + 1) |-> <<run.batch, run.first + i - 1>>]
RowsOfRuns(numbers) == FlattenSeq([i \in DOMAIN numbers |-> RowsOfRun(runs[numbers[i]])])

(* All rows of the input, in order. *)
AllRows == FlattenSeq([b \in DOMAIN input |-> [i \in DOMAIN input[b] |-> <<b, i>>]])
=============================================================================

-------------------------- MODULE PartitionedOutput --------------------------
(***************************************************************************)
(* The file outputs of one transform command (src/commands/transform/      *)
(* file_output/mod.rs): the rows of the result stream are written to one   *)
(* exact target, or split by their partition values over the targets of a  *)
(* template with one of three strategies.  Every target is claimed and     *)
(* prepared by the command's storage session (silk-chiffon-storage,        *)
(* src/session.rs) before its sink is opened.                              *)
(*                                                                         *)
(* A run of rows with equal partition values stands for one row here, and  *)
(* is numbered in the order of the stream.  The sinks and the store are    *)
(* external: any call of theirs may fail, a failed finish may have made    *)
(* the object visible, and an aborted or failed write never does.          *)
(***************************************************************************)
EXTENDS Integers, Sequences, FiniteSets, SequencesExt

CONSTANTS Keys,   \* the partition keys
          Paths,  \* the rendered templates
          MaxRuns, \* bound on the runs of a stream
          Jobs    \* the commands considered

Targets == Paths \X (0..MaxRuns)
Strategies == {"exact", "sort-single", "nosort-multi", "nosort-evict"}

(* What a command is asked to do: its strategy; the keys its rows may have and
   the template rendered for each, less the number; --max-open-partitions;
   --overwrite; the targets that show an object when it starts; a bound on the
   runs of its stream. *)
IsRequest(j) ==
  /\ j.strategy \in Strategies
  /\ DOMAIN j.path \subseteq Keys /\ DOMAIN j.path # {}
  /\ \A k \in DOMAIN j.path : j.path[k] \in Paths
  /\ j.strategy = "exact" => \E k \in Keys : DOMAIN j.path = {k}
  /\ j.maxOpen \in Nat \ {0} /\ j.overwrite \in BOOLEAN
  /\ j.existing \subseteq Targets /\ j.runs \in 0..MaxRuns

ASSUME OutputAssumption ==
  /\ MaxRuns \in Nat \ {0}
  /\ \A j \in Jobs : IsRequest(j)

VARIABLES
  job,       \* the command's request
  pc,        \* where the writer stands: see Locations
  seen,      \* the partition keys of the runs read so far
  open,      \* the open sinks, the least recently used first
  numbers,   \* file_numbers
  claimed,   \* SessionState::claimed_output_targets
  completed, \* the outputs of the report
  store      \* store[t]: the rows of the object shown at t

vars == <<job, pc, seen, open, numbers, claimed, completed, store>>

NoObject == <<-1>>  \* nothing is shown at the target
OldObject == <<0>>  \* what was there before the command
Locations == {"next", "turnover", "open", "write", "finishing", "aborting",
              "ok", "failed"}

-----------------------------------------------------------------------------
(* Helpers *)

Strategy == job.strategy
Keyed == DOMAIN job.path

(* The current run. *)
Run == Len(seen)
Key == IF seen = <<>> THEN CHOOSE k \in Keyed : TRUE ELSE Last(seen)

IsOpen(k) == \E i \in DOMAIN open : open[i].key = k

(* open: the target of a partition.  The number is part of the template of
   nosort-evict only. *)
Target(k) == <<job.path[k], IF Strategy = "nosort-evict" THEN numbers[k] ELSE 0>>

(* The cache of nosort-evict is full; one sink is open in sort-single. *)
Full == Len(open) = job.maxOpen

(* Sort-single closes its sink at a new partition, nosort-evict its least
   recently used one. *)
Turnover(k) ==
  \/ Strategy = "sort-single" /\ open # <<>>
  \/ Strategy = "nosort-evict" /\ Full

(* The partition of the next run has its sink. *)
HasSink(k) ==
  \/ IsOpen(k)
  \/ Strategy = "sort-single" /\ open # <<>> /\ ~Turnover(k)

Goto(where) == pc' = where

Init ==
  /\ job \in Jobs
  /\ pc = IF Strategy = "exact" THEN "open" ELSE "next"
  /\ seen = <<>>
  /\ open = <<>>
  /\ numbers = [k \in Keys |-> 0]
  /\ claimed = {}
  /\ completed = <<>>
  /\ store = [t \in Targets |-> IF t \in job.existing THEN OldObject ELSE NoObject]

-----------------------------------------------------------------------------
(* The stream of runs *)

NextRun ==
  /\ pc = "next" /\ Run < job.runs
  /\ \E k \in Keyed :
       /\ seen' = Append(seen, k)
       /\ Goto(IF HasSink(k) THEN "write"
               ELSE IF Turnover(k) THEN "turnover" ELSE "open")
  /\ UNCHANGED <<job, open, numbers, claimed, completed, store>>

StreamEnds ==
  /\ pc = "next"
  /\ Goto("finishing")
  /\ UNCHANGED <<job, seen, open, numbers, claimed, completed, store>>

StreamFails ==
  /\ pc = "next"
  /\ Goto("aborting")
  /\ UNCHANGED <<job, seen, open, numbers, claimed, completed, store>>

-----------------------------------------------------------------------------
(* Opening and writing *)

(* prepare_output_target: one target is given out once in a session, and an
   object seen there is respected.  Faulty variant: no claim. *)
UnclaimedSkipped(t) == TRUE
Unclaimed(t) == t \notin claimed
Absent(t) == job.overwrite \/ store[t] = NoObject

OpenOk ==
  /\ pc = "open"
  /\ Unclaimed(Target(Key)) /\ Absent(Target(Key))
  /\ claimed' = claimed \cup {Target(Key)}
  /\ open' = Append(open, [key |-> Key, target |-> Target(Key), rows |-> <<>>])
  /\ numbers' = [numbers EXCEPT ![Key] = @ + 1]
  /\ Goto(IF Strategy = "exact" THEN "next" ELSE "write")
  /\ UNCHANGED <<job, seen, completed, store>>

(* The template cannot be rendered, the target is refused or cannot be
   prepared, or its sink cannot be opened: a claim that was made stays. *)
OpenFails ==
  /\ pc = "open"
  /\ claimed' \in {claimed, claimed \cup {Target(Key)}}
  /\ Goto("aborting")
  /\ UNCHANGED <<job, seen, open, numbers, completed, store>>

(* The sink of the run, which a write makes the most recently used.  Faulty
   variant: the sink opened last. *)
LastSink == Len(open)
SinkOf == IF IsOpen(Key) THEN CHOOSE i \in DOMAIN open : open[i].key = Key
          ELSE Len(open)

Write ==
  /\ pc = "write"
  /\ open' = Append(RemoveAt(open, SinkOf),
                    [open[SinkOf] EXCEPT !.rows = Append(@, Run)])
  /\ Goto("next")
  /\ UNCHANGED <<job, seen, numbers, claimed, completed, store>>

(* The projection or the sink's write_batch fails. *)
WriteFails ==
  /\ pc = "write"
  /\ Goto("aborting")
  /\ UNCHANGED <<job, seen, open, numbers, claimed, completed, store>>

-----------------------------------------------------------------------------
(* Finishing and aborting *)

(* finish consumes the sink.  An output is reported when its finish has
   succeeded; otherwise its object may be visible or not.  Faulty variants:
   it is reported before; the other sinks are finished all the same. *)
ReportBefore(sink) == Append(completed, sink)
ReportFailed(sink) == completed
FinishOthers == "finishing"
AbortOthers == "aborting"

Finish(i, then) ==
  LET sink == open[i]
      visible == store' = [store EXCEPT ![sink.target] = sink.rows]
  IN  /\ open' = RemoveAt(open, i)
      /\ \/ /\ visible
            /\ completed' = Append(completed, sink)
            /\ Goto(then)
         \/ /\ visible \/ UNCHANGED store
            /\ completed' = ReportFailed(sink)
            /\ Goto(AbortOthers)
      /\ UNCHANGED <<job, seen, numbers, claimed>>

(* The current sink of sort-single, or the victim of nosort-evict. *)
FinishVictim == pc = "turnover" /\ Finish(1, "open")

(* At the end of the stream all sinks are finished, in the order of their
   targets, which no property tells apart. *)
FinishNext == pc = "finishing" /\ \E i \in DOMAIN open : Finish(i, "finishing")

Succeed ==
  /\ pc = "finishing" /\ open = <<>>
  /\ Goto("ok")
  /\ UNCHANGED <<job, seen, open, numbers, claimed, completed, store>>

(* abort_all: a failed abort is reported with the primary error and does not
   stop the others. *)
AbortNext ==
  /\ pc = "aborting"
  /\ \E i \in DOMAIN open : open' = RemoveAt(open, i)
  /\ UNCHANGED <<job, pc, seen, numbers, claimed, completed, store>>

Fail ==
  /\ pc = "aborting" /\ open = <<>>
  /\ Goto("failed")
  /\ UNCHANGED <<job, seen, open, numbers, claimed, completed, store>>

Next ==
  \/ NextRun \/ StreamEnds \/ StreamFails \/ OpenOk \/ OpenFails \/ Write
  \/ WriteFails \/ FinishVictim \/ FinishNext \/ Succeed \/ AbortNext \/ Fail

Spec == Init /\ [][Next]_vars

-----------------------------------------------------------------------------
(* Properties *)

Sinks == [key : Keys, target : Targets, rows : Seq(1..MaxRuns)]

(* The types of the variables. *)
TypeOK ==
  /\ job \in Jobs /\ pc \in Locations
  /\ seen \in Seq(Keys)
  /\ open \in Seq(Sinks)
  /\ numbers \in [Keys -> 0..MaxRuns]
  /\ claimed \subseteq Targets
  /\ completed \in Seq(Sinks)
  /\ store \in [Targets -> Seq(-1..MaxRuns)]

(* The rows that the report's outputs of a partition hold, in their order. *)
OutputOf(k) == FlattenSeq(
  [i \in DOMAIN completed |-> IF completed[i].key = k THEN completed[i].rows
                                                      ELSE <<>>])

(* What the report lists is durable and whole, also after a failure; and an
   object the command made visible without reporting it is the one whose finish
   failed: all the others that were open are aborted. *)
ReportIsDurable ==
  LET reported   == {completed[i].target : i \in DOMAIN completed}
      unreported == {t \in Targets \ reported :
                       store[t] \notin {NoObject, OldObject}}
  IN  /\ \A i \in DOMAIN completed : store[completed[i].target] = completed[i].rows
      /\ Cardinality(unreported) <= 1
      /\ unreported # {} => pc \in {"aborting", "failed"}

(* The number of sinks that hold buffers and uploads is bounded. *)
OpenBounded ==
  /\ Strategy \in {"exact", "sort-single"} => Len(open) <= 1
  /\ Strategy = "nosort-evict" => Len(open) <= job.maxOpen

(* No output replaces another one of the command, whatever the order of the
   partitions and whichever of them render to the same target, and an object
   that was there before is replaced only when the user allows it. *)
NeverReplaced ==
  [][\A t \in Targets : store'[t] # store[t] =>
       store[t] = NoObject \/ (job.overwrite /\ store[t] = OldObject)]_vars
=============================================================================

----------------------------- MODULE ParquetSink -----------------------------
(***************************************************************************)
(* One Parquet output (silk-chiffon-format-parquet, src/output/): the sink *)
(* that the command writes batches to, the pipeline of three stages that   *)
(* makes row groups of them (pipeline/stages.rs), and the tasks the        *)
(* stages start on the encoding and the writing runtime.  The pipeline is  *)
(* the producer of UploadTask.                                             *)
(*                                                                         *)
(* A row is its number in the stream.  The codec may fail anywhere.        *)
(***************************************************************************)
EXTENDS UploadTask, FiniteSets, SequencesExt

CONSTANTS GroupRows,   \* max_row_group_size
          Concurrency, \* max_row_group_concurrency
          IngestSlots, EncodeSlots, WriteSlots \* the queues' capacities

ASSUME SinkAssumption ==
  /\ GroupRows \in Nat \ {0} /\ Concurrency \in Nat \ {0}
  /\ IngestSlots \in Nat \ {0} /\ EncodeSlots \in Nat \ {0}
  /\ WriteSlots \in Nat \ {0}

VARIABLES
  batches,  \* the ingestion queue
  rest,     \* what the ingestion stage has still to push of a batch
  building, \* the rows in the coalescer
  analysed, \* the rows pushed to the analysis of the current row group
  analysis, \* the analysis task runs
  work,     \* the row group that the ingestion stage sends: at most one
  works,    \* the encoding queue
  pending,  \* the coordinator's FuturesOrdered, with each task's state
  hand,     \* the encoded row group that the coordinator sends: at most one
  encoded,  \* the writing queue
  writing,  \* the task on the writing runtime: "none", "group", "close"
  group,    \* the row group it writes: at most one
  file,     \* the row groups in the object's bytes
  closed,   \* the footer has been written
  total,    \* total_rows
  stage,    \* where each stage stands
  joined,   \* the stages whose end settle_pipeline_tasks has seen
  failed,   \* its errors are not empty
  analyze   \* some column needs the analysis of its row group

inVars    == <<rest, building, analysed, analysis, work>>
encVars   == <<pending, hand>>
writeVars == <<writing, group, file, closed, total>>
taskVars  == <<joined, failed, analyze, producer>>
pipelineVars == <<batches, inVars, works, encVars, encoded, writeVars, stage,
                  joined, failed, analyze>>

Stages == {"ingestion", "encoder", "writer"}
Ends == {"ok", "err", "cancelled"}

-----------------------------------------------------------------------------
(* Helpers *)

Ended(s) == stage[s] \in Ends
Is(s, where) == stage[s] = where
Goto(s, where) == stage' = [stage EXCEPT ![s] = where]

(* The receiver lives as long as the ingestion stage. *)
Receiving == producer \in {"starting", "running"} /\ ~Ended("ingestion")

(* No task of the scope's tracker is left. *)
Running == {i \in DOMAIN pending : pending[i].state = "running"}
Quiet == Running = {} /\ writing = "none" /\ ~analysis

(* PipelineTaskScope::wait.  Faulty variant: the tasks on the dedicated
   runtimes are left to themselves. *)
NoWait == TRUE
Waited == Quiet

ParquetInit ==
  /\ analyze \in BOOLEAN
  /\ batches = <<>> /\ rest = <<>> /\ building = <<>> /\ work = <<>>
  /\ analysed = <<>> /\ analysis = FALSE
  /\ works = <<>> /\ pending = <<>> /\ hand = <<>> /\ encoded = <<>>
  /\ writing = "none" /\ group = <<>> /\ file = <<>> /\ closed = FALSE
  /\ total = 0
  /\ stage = [s \in Stages |-> IF s = "encoder" THEN "select" ELSE "recv"]
  /\ joined = {} /\ failed = FALSE

-----------------------------------------------------------------------------
(* The calls of the owner *)

WriteBatch ==
  /\ caller = "writing" /\ Receiving /\ Len(batches) < IngestSlots
  /\ \E n \in BatchRows :
       /\ accepted + n <= MaxRows
       /\ batches' = Append(batches, [i \in 1..n |-> accepted + i])
       /\ accepted' = accepted + n
  /\ UNCHANGED <<format, caller, report, hadEnded, primary, token, inVars,
                 works, encVars, encoded, writeVars, stage, taskVars, upload>>

(* write_batch fails: the pipeline is closed or closing. *)
WriteFails ==
  /\ token \/ ~Receiving
  /\ CallerFails
  /\ UNCHANGED pipelineVars

Finish == JoinProducer("writing") /\ UNCHANGED pipelineVars

-----------------------------------------------------------------------------
(* The ingestion stage *)

(* Its end drops its queues' ends; an analysis in hand runs on. *)
EndIngestion(how) ==
  /\ Goto("ingestion", how)
  /\ batches' = <<>> /\ rest' = <<>> /\ building' = <<>> /\ work' = <<>>
  /\ analysed' = <<>>
  /\ UNCHANGED <<ownerVars, token, encVars, encoded, writeVars, taskVars,
                 upload>>

IngestRecv ==
  /\ producer = "running" /\ Is("ingestion", "recv")
  /\ batches # <<>>
  /\ batches' = Tail(batches) /\ rest' = Head(batches)
  /\ Goto("ingestion", "fill")
  /\ UNCHANGED <<ownerVars, token, building, analysed, analysis, work, works,
                 encVars, encoded, writeVars, taskVars, upload>>

IngestEof ==
  /\ producer = "running" /\ Is("ingestion", "recv")
  /\ batches = <<>> /\ ~InputOpen
  /\ IF building = <<>>
     THEN EndIngestion("ok") /\ UNCHANGED <<analysis, works>>
     ELSE /\ Goto("ingestion", "last")
          /\ UNCHANGED <<ownerVars, token, batches, inVars, works, encVars,
                         encoded, writeVars, taskVars, upload>>

(* The rows that fit into the row group. *)
Space == LET space == GroupRows - Len(building)
         IN  IF Len(rest) <= space THEN Len(rest) ELSE space

(* RowGroupAnalysisState::push. *)
Pushed == IF analyze THEN analysed \o SubSeq(rest, 1, Space) ELSE <<>>

IngestFill ==
  /\ Is("ingestion", "fill")
  /\ building' = building \o SubSeq(rest, 1, Space)
  /\ analysed' = Pushed
  /\ rest' = SubSeq(rest, Space + 1, Len(rest))
  /\ Goto("ingestion", IF Len(building') >= GroupRows THEN "full" ELSE "recv")
  /\ UNCHANGED <<ownerVars, token, batches, analysis, work, works, encVars,
                 encoded, writeVars, taskVars, upload>>

(* A row group starts a new analysis.  Faulty variant: the analysis goes on. *)
KeepAnalysis == analysed
NewAnalysis == <<>>

(* The row group is complete, and so is its analysis, if there is one. *)
MakeGroup ==
  /\ stage["ingestion"] \in {"full", "last"}
  /\ work' = <<[rows |-> building, stats |-> analysed]>>
  /\ building' = <<>>
  /\ analysed' = NewAnalysis
  /\ analysis' = FALSE
  /\ Goto("ingestion", IF Is("ingestion", "full") THEN "send" ELSE "sendlast")
  /\ UNCHANGED <<ownerVars, token, batches, rest, works, encVars, encoded,
                 writeVars, taskVars, upload>>

IngestSend ==
  /\ stage["ingestion"] \in {"send", "sendlast"}
  /\ ~Ended("encoder") /\ Len(works) < EncodeSlots
  /\ works' = works \o work
  /\ IF Is("ingestion", "send")
     THEN /\ work' = <<>>
          /\ analysis' = analyze
          /\ Goto("ingestion", IF rest = <<>> THEN "recv" ELSE "fill")
          /\ UNCHANGED <<ownerVars, token, batches, rest, building, analysed,
                         encVars, encoded, writeVars, taskVars, upload>>
     ELSE EndIngestion("ok") /\ UNCHANGED analysis

(* The encoder's end is no error of the ingestion. *)
IngestSendClosed ==
  /\ stage["ingestion"] \in {"send", "sendlast"} /\ Ended("encoder")
  /\ EndIngestion("ok")
  /\ UNCHANGED <<analysis, works>>

(* The coalescer, the analysis or the choice of the encodings fails, or there is no
   analysis for the next row group. *)
IngestFails ==
  /\ \/ stage["ingestion"] \in {"fill", "full", "last"}
     \/ producer = "running" /\ Is("ingestion", "recv") /\ building = <<>>
  /\ EndIngestion("err")
  /\ analysis' \in {analysis, FALSE}
  /\ UNCHANGED works

AnalysisEnds ==
  /\ analysis /\ Ended("ingestion")
  /\ analysis' = FALSE
  /\ UNCHANGED <<ownerVars, token, batches, rest, building, analysed, work,
                 works, encVars, encoded, writeVars, stage, taskVars, upload>>

-----------------------------------------------------------------------------
(* The encoder coordinator and its tasks *)

(* Its end drops its queues' ends and the handles of its tasks, of which those
   in a step of their own run on. *)
EndEncoder(how) ==
  /\ Goto("encoder", how)
  /\ works' = <<>> /\ hand' = <<>>
  /\ pending' = SelectSeq(pending, LAMBDA p : p.state = "running")
  /\ UNCHANGED <<ownerVars, token, batches, inVars, encoded, writeVars, taskVars,
                 upload>>

HasRoom == Len(pending) < Concurrency

EncoderRecv ==
  /\ producer = "running" /\ Is("encoder", "select")
  /\ works # <<>> /\ HasRoom
  /\ pending' = Append(pending, [group |-> Head(works), state |-> "running"])
  /\ works' = Tail(works)
  /\ UNCHANGED <<ownerVars, token, batches, inVars, hand, encoded, writeVars,
                 stage, taskVars, upload>>

(* An encode task, and the column tasks it has started, end. *)
EncodeEnds(i) ==
  /\ pending[i].state = "running"
  /\ \E end \in {"done", "broken"} :
       pending' = [pending EXCEPT ![i].state = end]
  /\ UNCHANGED <<ownerVars, token, batches, inVars, works, hand, encoded,
                 writeVars, stage, taskVars, upload>>

(* FuturesOrdered yields the task spawned first.  Faulty variant: any. *)
AnyNext == DOMAIN pending
NextEncoded == IF pending = <<>> THEN {} ELSE {1}

EncoderNext ==
  /\ producer = "running" /\ Is("encoder", "select")
  /\ \E i \in NextEncoded :
       \/ /\ pending[i].state = "done"
          /\ hand' = <<pending[i].group>>
          /\ pending' = RemoveAt(pending, i)
          /\ Goto("encoder", "send")
          /\ UNCHANGED <<ownerVars, token, batches, inVars, works, encoded,
                         writeVars, taskVars, upload>>
       \/ /\ pending[i].state = "broken"
          /\ EndEncoder("err")

EncoderSend ==
  /\ Is("encoder", "send") /\ ~Ended("writer") /\ Len(encoded) < WriteSlots
  /\ encoded' = encoded \o hand
  /\ hand' = <<>>
  /\ Goto("encoder", "select")
  /\ UNCHANGED <<ownerVars, token, batches, inVars, works, pending, writeVars,
                 taskVars, upload>>

EncoderSendClosed ==
  /\ Is("encoder", "send") /\ Ended("writer")
  /\ EndEncoder("err")

EncoderEof ==
  /\ producer = "running" /\ Is("encoder", "select")
  /\ works = <<>> /\ Ended("ingestion") /\ pending = <<>>
  /\ EndEncoder("ok")

-----------------------------------------------------------------------------
(* The writer stage and its tasks *)

WriterRecv ==
  /\ producer = "running" /\ Is("writer", "recv") /\ encoded # <<>>
  /\ encoded' = Tail(encoded) /\ group' = <<Head(encoded)>>
  /\ total' = total + Len(Head(encoded).rows)
  /\ writing' = "group"
  /\ Goto("writer", "group")
  /\ UNCHANGED <<ownerVars, token, batches, inVars, works, encVars, file,
                 closed, taskVars, upload>>

WriterEof ==
  /\ producer = "running" /\ Is("writer", "recv")
  /\ encoded = <<>> /\ Ended("encoder")
  /\ writing' = "close"
  /\ Goto("writer", "close")
  /\ UNCHANGED <<ownerVars, token, batches, inVars, works, encVars, encoded,
                 group, file, closed, total, taskVars, upload>>

(* The task on the writing runtime succeeds, or fails or is aborted.  A writer
   stage that has gone does not hear of it. *)
WriteTaskOk ==
  /\ writing # "none"
  /\ IF writing = "group"
     THEN file' = file \o group /\ UNCHANGED closed
     ELSE upload = "open" /\ closed' = TRUE /\ UNCHANGED file
  /\ writing' = "none" /\ group' = <<>>
  /\ stage' = CASE Ended("writer") -> stage
                [] Is("writer", "group") -> [stage EXCEPT !["writer"] = "recv"]
                [] OTHER -> [stage EXCEPT !["writer"] = "ok"]
  /\ UNCHANGED <<ownerVars, token, batches, inVars, works, encVars, encoded,
                 total, taskVars, upload>>

WriteTaskFails ==
  /\ writing # "none"
  /\ writing' = "none" /\ group' = <<>>
  /\ IF Ended("writer") THEN UNCHANGED <<stage, encoded>>
                        ELSE Goto("writer", "err") /\ encoded' = <<>>
  /\ UNCHANGED <<ownerVars, token, batches, inVars, works, encVars, file, closed,
                 total, taskVars, upload>>

-----------------------------------------------------------------------------
(* Cancellation and settlement *)

(* run_until_cancelled, or the JoinSet's abort_all after an error: a stage is
   dropped at its next poll. *)
StageCancelled ==
  /\ token /\ producer = "running"
  /\ \/ /\ ~Ended("ingestion") /\ EndIngestion("cancelled")
        /\ UNCHANGED <<analysis, works>>
     \/ ~Ended("encoder") /\ EndEncoder("cancelled")
     \/ /\ ~Ended("writer") /\ Goto("writer", "cancelled")
        /\ encoded' = <<>>
        /\ UNCHANGED <<ownerVars, token, batches, inVars, works, encVars,
                       writeVars, taskVars, upload>>

(* The Arrow writer is created and the stages are spawned, with the analysis of
   the first row group. *)
Start ==
  /\ producer = "starting"
  /\ producer' \in {"running", "err"}
  /\ analysis' = (analyze /\ producer' = "running")
  /\ UNCHANGED <<ownerVars, token, batches, rest, building, analysed, work,
                 works, encVars, encoded, writeVars, stage, joined, failed,
                 analyze, upload>>

(* settle_pipeline_tasks: the first error cancels the others.  Faulty variant:
   it does not. *)
NoCancel(s) == FALSE
Cancels(s) == Is(s, "err")

JoinStage(s) ==
  /\ producer = "running" /\ Ended(s) /\ s \notin joined
  /\ joined' = joined \cup {s}
  /\ failed' = (failed \/ Is(s, "err"))
  /\ token' = (token \/ Cancels(s))
  /\ producer' = IF joined' = Stages THEN "waiting" ELSE producer
  /\ UNCHANGED <<ownerVars, batches, inVars, works, encVars, encoded, writeVars,
                 stage, analyze, upload>>

PipeEnds ==
  /\ producer = "waiting" /\ Waited
  /\ producer' = IF failed THEN "err" ELSE "ok"
  /\ UNCHANGED <<ownerVars, token, batches, inVars, works, encVars, encoded,
                 writeVars, stage, joined, failed, analyze,
                 upload>>

-----------------------------------------------------------------------------

Ingestion == \/ IngestRecv \/ IngestEof \/ IngestFill \/ MakeGroup
             \/ IngestSend \/ IngestSendClosed \/ IngestFails
Encoder == EncoderRecv \/ EncoderNext \/ EncoderSend \/ EncoderSendClosed
           \/ EncoderEof
Writer == WriterRecv \/ WriterEof
WriteTask == WriteTaskOk \/ WriteTaskFails
EncodeTask == \E i \in DOMAIN pending : EncodeEnds(i)
Settle == Start \/ PipeEnds \/ \E s \in Stages : JoinStage(s)

ParquetNext ==
  \/ WriteBatch \/ WriteFails \/ Finish \/ Ingestion \/ AnalysisEnds
  \/ Encoder \/ EncodeTask \/ Writer \/ WriteTask \/ StageCancelled \/ Settle
  \/ /\ Abort \/ Drop \/ TaskOwner \/ Upload \/ UploadBreaks
     /\ UNCHANGED pipelineVars

-----------------------------------------------------------------------------
(* Properties *)

Rows(groups) == FlattenSeq([i \in DOMAIN groups |-> groups[i].rows])

(* The encodings of a row group are chosen from the analysis of its own rows. *)
AnalysisMatches ==
  analyze => \A i \in DOMAIN file : file[i].stats = file[i].rows

(* When the pipeline task has ended, nothing runs on the runtimes it gives
   back, also after a failure or a cancellation. *)
NothingLeft == producer \in {"ok", "err"} => Quiet
=============================================================================

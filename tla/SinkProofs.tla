----------------------------- MODULE SinkProofs -----------------------------
(***************************************************************************)
(* Theorems about Sinks, for streams, batches, row groups and queues of    *)
(* any size.                                                               *)
(*                                                                         *)
(* The rows that a sink has accepted are followed through its queues: each *)
(* row group or record batch is the one of its place, counted from the     *)
(* first in the file to the last that is made, and the rows that are in    *)
(* none yet go on where the pieces end.  What an error or a cancellation   *)
(* drops is behind everything that can still be written.                   *)
(***************************************************************************)
EXTENDS Sinks, ParquetSettings, DataLemmas

(* The owner may still accept rows. *)
Open == caller = "writing"

(***************************************************************************)
(* The owner                                                               *)
(***************************************************************************)

Before == {"writing", "failed", "flushing", "finishing", "cancelling", "dropping"}
Trusting == {"writing", "failed", "flushing", "finishing", "completing"}
Decided == {"completing", "published", "lost"}

(* What the upload and the report may be where the owner stands. *)
OwnerInv ==
  /\ format \in Formats /\ caller \in Callers /\ upload \in Uploads
  /\ accepted \in Nat /\ token \in BOOLEAN
  /\ caller \in Before => upload \in {"open", "broken"}
  /\ caller \in {"aborting", "cleaning"} => upload \in {"open", "broken", "aborted"}
  /\ caller = "completing" => upload \in Decided
  /\ caller \in {"completing", "cleaning"} => producer \in Over
  /\ caller = "gone" => token \/ producer \in Over
  /\ caller \in {"cancelling", "aborting", "dropping"} => token
  /\ caller # "gone" => report = "none"
  /\ upload = "completing" => report = "none"
  /\ report = "ok" => upload = "published"
  /\ upload \in Decided => producer \in {"ok", "cancelled"}

(***************************************************************************)
(* The stages of a Parquet output                                          *)
(***************************************************************************)

ing == stage["ingestion"]
enc == stage["encoder"]
wri == stage["writer"]

Places == Ends \cup {"recv", "fill", "full", "last", "send", "sendlast",
                     "select", "group", "close"}

(* Where a stage stands says what it holds and runs. *)
PlaceInv ==
  /\ stage \in [Stages -> Places]
  /\ ing \in Ends \cup {"recv", "fill", "full", "last", "send", "sendlast"}
  /\ enc \in Ends \cup {"select", "send"}
  /\ wri \in Ends \cup {"recv", "group", "close"}
  /\ enc = "ok" => ing \in Ends
  /\ wri \in {"ok", "close"} => enc \in Ends
  /\ wri \notin Ends => writing = (IF wri = "recv" THEN "none" ELSE wri)
  /\ wri = "ok" => writing = "none" /\ closed
  /\ writing # "group" => group = <<>>
  /\ wri \in Ends \cup {"close"} => encoded = <<>>
  /\ enc # "send" => hand = <<>>
  /\ enc \in Ends => works = <<>>
  /\ ing \notin {"send", "sendlast"} => work = <<>>
  /\ ing \in {"last", "sendlast"} => ~InputOpen

(* The stages as they are spawned. *)
Fresh ==
  /\ ing = "recv" /\ enc = "select" /\ wri = "recv"
  /\ pending = <<>> /\ writing = "none" /\ ~analysis

(* The settlement of the pipeline. *)
JobInv ==
  /\ producer \in {"starting", "running", "waiting", "ok", "err"}
  /\ joined \subseteq Stages /\ \A s \in joined : Ended(s)
  /\ failed \in BOOLEAN
  /\ producer = "starting" => Fresh
  /\ producer = "waiting" => joined = Stages
  /\ producer \in {"ok", "err"} => Fresh \/ (joined = Stages /\ Quiet)
  /\ producer = "ok" => ~failed /\ joined = Stages
  /\ \A s \in Stages : Is(s, "cancelled") => token
  /\ \A s \in joined : Is(s, "err") => failed
  /\ token /\ caller \in Trusting => failed

(***************************************************************************)
(* The rows of a Parquet output                                            *)
(***************************************************************************)

Group == [rows : Seq(Nat), stats : Seq(Nat)]
Task == [group : Group, state : {"running", "done", "broken"}]

(* What may be at each place of a stream of n rows: the row groups, with the
   statistics of their rows if there is an analysis, and their tasks. *)
Groups(n, open, analyzed) ==
  {p \in Group \X (Nat \ {0}) : /\ IsPiece(p[1].rows, p[2], GroupRows, n, open)
                                /\ analyzed => p[1].stats = p[1].rows}
Tasks(n, open, analyzed) ==
  {p \in Task \X (Nat \ {0}) : <<p[1].group, p[2]>> \in Groups(n, open, analyzed)}

QueuesInv ==
  /\ file \in Seq(Group) /\ group \in Seq(Group) /\ encoded \in Seq(Group)
  /\ hand \in Seq(Group) /\ works \in Seq(Group) /\ work \in Seq(Group)
  /\ enc \notin Ends => pending \in Seq(Task)
  /\ batches \in Seq(Seq(Nat)) /\ rest \in Seq(Nat)
  /\ building \in Seq(Nat) /\ analysed \in Seq(Nat) /\ total \in Nat

(* The row groups that precede a place. *)
Written == Len(file) + Len(group)
Encoded == Written + Len(encoded)
Handed == Encoded + Len(hand)
Spawned == Handed + Len(pending)
Queued == Spawned + Len(works)
Made == Queued + Len(work)

(* Whether what the stages hold can still come into the file. *)
Coding == enc \notin Ends /\ wri \notin Ends
Ingesting == Coding /\ ing \notin Ends

FileInv ==
  /\ InPlace(file, 0, Groups(accepted, Open, analyze))
  /\ InPlace(group, Len(file), Groups(accepted, Open, analyze))
  /\ InPlace(encoded, Written, Groups(accepted, Open, analyze))
  /\ wri \notin Ends \ {"ok"} => total = Upto(Written, GroupRows, accepted)

CodeInv ==
  Coding =>
  /\ InPlace(hand, Encoded, Groups(accepted, Open, analyze))
  /\ InPlace(pending, Handed, Tasks(accepted, Open, analyze))
  /\ InPlace(works, Spawned, Groups(accepted, Open, analyze))

(* What the ingestion has in hand, wherever it stands. *)
BuildInv ==
  /\ analyze => analysed = building
  /\ ing \in {"recv", "fill", "last"} => Len(building) < GroupRows
  /\ ing = "full" => Len(building) = GroupRows
  /\ ing = "last" => Len(building) # 0
  /\ ing \in {"send", "sendlast"} => building = <<>> /\ analysed = <<>>
  /\ ing \in {"recv", "last"} => rest = <<>>
  /\ ing \in {"last", "sendlast"} => batches = <<>>

(* The rows that are in no row group yet. *)
IntakeInv ==
  Ingesting =>
  /\ InPlace(work, Queued, Groups(accepted, Open, analyze))
  /\ ing = "sendlast" => accepted <= Edge(Made, GroupRows)
  /\ ing # "sendlast" =>
       Following(Edge(Made, GroupRows), building, rest, batches, accepted)

(* A stage that ended well has passed on all the rows. *)
EndInv ==
  /\ ing = "ok" /\ Coding => accepted <= Edge(Queued, GroupRows)
  /\ ing = "ok" /\ enc = "ok" /\ wri \notin Ends \ {"ok"} => accepted <= Edge(Encoded, GroupRows)

FlowInv == QueuesInv /\ FileInv /\ CodeInv /\ BuildInv /\ IntakeInv /\ EndInv

-----------------------------------------------------------------------------
(* The steps of the owner and the upload *)

OwnerAct ==
  \/ \E from \in {"writing", "flushing"} : JoinProducer(from)
  \/ Abort \/ CancelFirst({"flushing"}, TRUE)
  \/ CallerFails \/ Drop \/ TaskOwner \/ Upload \/ UploadBreaks

(* What they do to the others. *)
OwnerStep ==
  /\ UNCHANGED <<format, accepted, producer>>
  /\ ~Open => ~Open'
  /\ ~InputOpen => ~InputOpen'
  /\ token => token'
  /\ token' /\ caller' \in Trusting => token /\ caller \in Trusting
  /\ upload' \in {"completing", "published"} =>
       upload \in {"completing", "published"} \/ (caller = "finishing" /\ Produced)

(* The owner's calls keep what holds of owner and upload. *)
LEMMA OwnerMoves ==
  ASSUME OwnerInv, OwnerAct
  PROVE  OwnerInv' /\ OwnerStep
<1> USE DEF OwnerInv, OwnerStep, Open, InputOpen, Unfinished, First, Before, Trusting, Decided
<1>1. ASSUME NEW from \in {"writing", "flushing"}, JoinProducer(from)
      PROVE  OwnerInv' /\ OwnerStep
  BY <1>1 DEF JoinProducer, Callers
<1>2. CASE Abort
  BY <1>2 DEF Abort, CancelFirst, Callers
<1>3. CASE CancelFirst({"flushing"}, TRUE)
  BY <1>3 DEF CancelFirst, Callers
<1>4. CASE CallerFails
  BY <1>4 DEF CallerFails, Callers
<1>5. CASE Drop
  BY <1>5 DEF Drop, Callers
<1>6. CASE FinishJoined
  BY <1>6 DEF FinishJoined, Produced, Over, Callers, Uploads
<1>7. CASE CloseInput
  BY <1>7 DEF CloseInput, Callers
<1>8. CASE Completed
  BY <1>8 DEF Completed, Callers, Uploads, Over
<1>9. CASE Aborted
  BY <1>9 DEF Aborted, Callers
<1>10. CASE UploadAborts
  BY <1>10 DEF UploadAborts, UploadSteps, ownerVars, Uploads
<1>11. CASE UploadCompletes
  BY <1>11 DEF UploadCompletes, UploadSteps, ownerVars, Uploads
<1>12. CASE UploadBreaks
  BY <1>12 DEF UploadBreaks, UploadSteps, ownerVars, Uploads
<1> QED BY <1>1, <1>2, <1>3, <1>4, <1>5, <1>6, <1>7, <1>8, <1>9, <1>10, <1>11, <1>12
        DEF OwnerAct, TaskOwner, Upload

(* What goes on beside the owner: the upload is as it was. *)
OthersStep ==
  /\ UNCHANGED <<format, caller, report, upload>>
  /\ accepted' \in Nat /\ token' \in BOOLEAN /\ (token => token')
  /\ producer \in Over => producer' = producer

(* It keeps what holds of the owner. *)
LEMMA OthersKeep ==
  ASSUME OwnerInv, OthersStep
  PROVE  OwnerInv'
BY DEF OwnerInv, OthersStep, Over, Decided

-----------------------------------------------------------------------------
(* The stages of a Parquet output                                           *)

(* A stage that goes to w, and the others, which stay. *)
LEMMA IngestionGoes ==
  ASSUME PlaceInv, NEW w \in Places, Goto("ingestion", w)
  PROVE  stage' \in [Stages -> Places] /\ ing' = w /\ enc' = enc /\ wri' = wri
BY DEF PlaceInv, Goto, ing, enc, wri, Stages

(* The encoder goes. *)
LEMMA EncoderGoes ==
  ASSUME PlaceInv, NEW w \in Places, Goto("encoder", w)
  PROVE  stage' \in [Stages -> Places] /\ ing' = ing /\ enc' = w /\ wri' = wri
BY DEF PlaceInv, Goto, ing, enc, wri, Stages

(* The writer goes. *)
LEMMA WriterGoes ==
  ASSUME PlaceInv, NEW w \in Places, Goto("writer", w)
  PROVE  stage' \in [Stages -> Places] /\ ing' = ing /\ enc' = enc /\ wri' = w
BY DEF PlaceInv, Goto, ing, enc, wri, Stages

(* No stage goes. *)
LEMMA NoneGoes ==
  ASSUME PlaceInv, UNCHANGED stage
  PROVE  stage' \in [Stages -> Places] /\ ing' = ing /\ enc' = enc /\ wri' = wri
BY DEF PlaceInv, ing, enc, wri

(* What the steps of the stages and of their tasks have in common. *)
StageStep ==
  /\ UNCHANGED <<ownerVars, token, taskVars, upload>>
  /\ ing \in Ends => ing' = ing
  /\ enc \in Ends => enc' = enc
  /\ wri \in Ends => wri' = wri
  /\ ing' = "cancelled" => ing = "cancelled" \/ token
  /\ enc' = "cancelled" => enc = "cancelled" \/ token
  /\ wri' = "cancelled" => wri = "cancelled" \/ token
  /\ producer \in {"running", "waiting"}

(* Where a stage may be while the pipeline runs. *)
LEMMA Busy ==
  ASSUME PlaceInv, JobInv,
         \/ ing \notin Ends \cup {"recv"}
         \/ enc \notin Ends \cup {"select"}
         \/ wri \notin Ends \cup {"recv"}
         \/ writing # "none" \/ analysis \/ Running # {}
  PROVE  producer \in {"running", "waiting"}
<1> SUFFICES ASSUME producer \in {"starting", "ok", "err"} PROVE FALSE
  BY DEF JobInv
<1>1. Fresh \/ (joined = Stages /\ Quiet)
  BY DEF JobInv
<1>2. CASE Fresh
  <2>1. Running = {}
    BY <1>2 DEF Fresh, Running
  <2> QED BY <1>2, <2>1 DEF Fresh
<1>3. CASE joined = Stages /\ Quiet
  <2>1. ing \in Ends /\ enc \in Ends /\ wri \in Ends
    BY <1>3 DEF JobInv, Ended, Stages, ing, enc, wri
  <2> QED BY <1>3, <2>1 DEF Quiet
<1> QED BY <1>1, <1>2, <1>3

(* The steps of the stages and of their tasks. *)
StageAct == \/ Ingestion \/ AnalysisEnds \/ Encoder \/ EncodeTask
            \/ Writer \/ WriteTask \/ StageCancelled

(* The ingestion ends. *)
LEMMA IngestionEnds ==
  ASSUME PlaceInv, NEW how \in Ends, EndIngestion(how), ing \notin Ends,
         producer \in {"running", "waiting"}, how = "cancelled" => token,
         works' = works \/ enc \notin Ends
  PROVE  PlaceInv' /\ StageStep
<1>1. stage' \in [Stages -> Places] /\ ing' = how /\ enc' = enc /\ wri' = wri
  BY IngestionGoes DEF EndIngestion, Places
<1>2. /\ UNCHANGED <<ownerVars, token, encVars, encoded, writeVars, taskVars, upload>>
      /\ work' = <<>>
  BY DEF EndIngestion
<1> QED BY <1>1, <1>2 DEF PlaceInv, StageStep, Places, Ends, ownerVars, encVars, writeVars, taskVars,
                          InputOpen, Unfinished

(* The encoder ends. *)
LEMMA EncoderEnds ==
  ASSUME PlaceInv, NEW how \in Ends, EndEncoder(how), enc \notin Ends,
         producer \in {"running", "waiting"}, how = "cancelled" => token,
         how = "ok" => ing \in Ends
  PROVE  PlaceInv' /\ StageStep
<1>1. stage' \in [Stages -> Places] /\ ing' = ing /\ enc' = how /\ wri' = wri
  BY EncoderGoes DEF EndEncoder, Places
<1>2. /\ UNCHANGED <<ownerVars, token, batches, inVars, encoded, writeVars, taskVars, upload>>
      /\ works' = <<>> /\ hand' = <<>>
  BY DEF EndEncoder
<1> QED BY <1>1, <1>2 DEF PlaceInv, StageStep, Places, Ends, ownerVars, inVars, writeVars, taskVars,
                          InputOpen, Unfinished

(* The ingestion's steps. *)
LEMMA IngestionSteps ==
  ASSUME PlaceInv, JobInv, Ingestion
  PROVE  PlaceInv' /\ StageStep
<1> USE DEF StageStep, Places, Ends, ownerVars, inVars, encVars, writeVars, taskVars, InputOpen, Unfinished
<1>1. CASE IngestRecv
  <2>1. stage' \in [Stages -> Places] /\ ing' = "fill" /\ enc' = enc /\ wri' = wri
    BY <1>1, IngestionGoes DEF IngestRecv
  <2> QED BY <1>1, <2>1 DEF IngestRecv, PlaceInv, Is, ing
<1>2. CASE IngestEof
  <2>1. producer = "running" /\ ing = "recv" /\ ~InputOpen
    BY <1>2 DEF IngestEof, Is, ing
  <2>2. CASE building = <<>>
    <3>1. EndIngestion("ok") /\ works' = works
      BY <1>2, <2>2 DEF IngestEof
    <3> QED BY <2>1, <3>1, IngestionEnds
  <2>3. CASE building # <<>>
    <3>1. stage' \in [Stages -> Places] /\ ing' = "last" /\ enc' = enc /\ wri' = wri
      BY <1>2, <2>3, IngestionGoes DEF IngestEof
    <3> QED BY <1>2, <2>1, <2>3, <3>1 DEF IngestEof, PlaceInv
  <2> QED BY <2>2, <2>3
<1>3. CASE IngestFill
  <2>0. ing = "fill"
    BY <1>3 DEF IngestFill, Is, ing
  <2>1. /\ stage' \in [Stages -> Places] /\ enc' = enc /\ wri' = wri
        /\ ing' = IF Len(building') >= GroupRows THEN "full" ELSE "recv"
    <3> DEFINE w == IF Len(building') >= GroupRows THEN "full" ELSE "recv"
    <3>1. w \in Places /\ Goto("ingestion", w)
      BY <1>3 DEF IngestFill
    <3> HIDE DEF w
    <3>2. stage' \in [Stages -> Places] /\ ing' = w /\ enc' = enc /\ wri' = wri
      BY <3>1, IngestionGoes
    <3> QED BY <3>2 DEF w
  <2>2. producer \in {"running", "waiting"}
    BY <2>0, Busy
  <2> QED BY <1>3, <2>0, <2>1, <2>2 DEF IngestFill, PlaceInv
<1>4. CASE MakeGroup
  <2>0. ing \in {"full", "last"}
    BY <1>4 DEF MakeGroup, ing
  <2>1. /\ stage' \in [Stages -> Places] /\ enc' = enc /\ wri' = wri
        /\ ing' = IF ing = "full" THEN "send" ELSE "sendlast"
    <3> DEFINE w == IF ing = "full" THEN "send" ELSE "sendlast"
    <3>1. w \in Places /\ Goto("ingestion", w)
      BY <1>4 DEF MakeGroup, Is, ing
    <3> HIDE DEF w
    <3>2. stage' \in [Stages -> Places] /\ ing' = w /\ enc' = enc /\ wri' = wri
      BY <3>1, IngestionGoes
    <3> QED BY <3>2 DEF w
  <2>2. producer \in {"running", "waiting"}
    BY <2>0, Busy
  <2> QED BY <1>4, <2>0, <2>1, <2>2 DEF MakeGroup, PlaceInv
<1>5. CASE IngestSend
  <2>0. ing \in {"send", "sendlast"} /\ enc \notin Ends
    BY <1>5 DEF IngestSend, Ended, ing, enc
  <2>2. producer \in {"running", "waiting"}
    BY <2>0, Busy
  <2>3. CASE ing = "send"
    <3>1. /\ stage' \in [Stages -> Places] /\ enc' = enc /\ wri' = wri
          /\ ing' = IF rest = <<>> THEN "recv" ELSE "fill"
      <4> DEFINE w == IF rest = <<>> THEN "recv" ELSE "fill"
      <4>1. w \in Places /\ Goto("ingestion", w)
        BY <1>5, <2>3 DEF IngestSend, Is, ing
      <4> HIDE DEF w
      <4>2. stage' \in [Stages -> Places] /\ ing' = w /\ enc' = enc /\ wri' = wri
        BY <4>1, IngestionGoes
      <4> QED BY <4>2 DEF w
    <3>2. /\ UNCHANGED <<ownerVars, token, batches, rest, building, analysed,
                         encVars, encoded, writeVars, taskVars, upload>>
          /\ work' = <<>>
      BY <1>5, <2>3 DEF IngestSend, Is, ing
    <3> QED BY <2>0, <2>2, <2>3, <3>1, <3>2 DEF PlaceInv
  <2>4. CASE ing # "send"
    <3>1. EndIngestion("ok")
      BY <1>5, <2>4 DEF IngestSend, Is, ing
    <3> QED BY <2>0, <2>2, <3>1, IngestionEnds
  <2> QED BY <2>3, <2>4
<1>6. CASE IngestSendClosed
  <2>1. ing \in {"send", "sendlast"} /\ EndIngestion("ok") /\ works' = works
    BY <1>6 DEF IngestSendClosed, ing
  <2> QED BY <2>1, Busy, IngestionEnds
<1>7. CASE IngestFails
  <2>1. /\ EndIngestion("err") /\ works' = works
        /\ ing \in {"fill", "full", "last"} \/ (ing = "recv" /\ producer = "running")
    BY <1>7 DEF IngestFails, ing, Is
  <2>2. producer \in {"running", "waiting"} /\ ing \notin Ends
    BY <2>1, Busy DEF Ends
  <2> QED BY <2>1, <2>2, IngestionEnds DEF Ends
<1> QED BY <1>1, <1>2, <1>3, <1>4, <1>5, <1>6, <1>7 DEF Ingestion

(* The coordinator's steps and those of its tasks. *)
LEMMA EncoderSteps ==
  ASSUME PlaceInv, JobInv, Encoder \/ EncodeTask
  PROVE  PlaceInv' /\ StageStep
<1> USE DEF StageStep, Places, Ends, ownerVars, inVars, encVars, writeVars, taskVars, InputOpen, Unfinished
<1>1. CASE EncoderRecv
  <2>1. stage' \in [Stages -> Places] /\ ing' = ing /\ enc' = enc /\ wri' = wri
    BY <1>1, NoneGoes DEF EncoderRecv
  <2> QED BY <1>1, <2>1 DEF EncoderRecv, PlaceInv, Is, enc
<1>2. CASE EncoderNext
  <2>1. producer = "running" /\ enc = "select"
    BY <1>2 DEF EncoderNext, Is, enc
  <2>2. PICK i \in NextEncoded :
          \/ /\ hand' = <<pending[i].group>>
             /\ pending' = RemoveAt(pending, i)
             /\ Goto("encoder", "send")
             /\ UNCHANGED <<ownerVars, token, batches, inVars, works, encoded,
                            writeVars, taskVars, upload>>
          \/ EndEncoder("err")
    BY <1>2 DEF EncoderNext
  <2>3. CASE EndEncoder("err")
    BY <2>1, <2>3, EncoderEnds
  <2>4. CASE /\ Goto("encoder", "send")
             /\ UNCHANGED <<ownerVars, token, batches, inVars, works, encoded,
                            writeVars, taskVars, upload>>
    <3>1. stage' \in [Stages -> Places] /\ ing' = ing /\ enc' = "send" /\ wri' = wri
      BY <2>4, EncoderGoes
    <3> QED BY <2>1, <2>4, <3>1 DEF PlaceInv
  <2> QED BY <2>2, <2>3, <2>4
<1>3. CASE EncoderSend
  <2>0. enc = "send" /\ wri \notin Ends
    BY <1>3 DEF EncoderSend, Is, Ended, enc, wri
  <2>1. stage' \in [Stages -> Places] /\ ing' = ing /\ enc' = "select" /\ wri' = wri
    BY <1>3, EncoderGoes DEF EncoderSend
  <2>2. producer \in {"running", "waiting"}
    BY <2>0, Busy
  <2>3. wri # "close"
    BY <2>0 DEF PlaceInv
  <2> QED BY <1>3, <2>0, <2>1, <2>2, <2>3 DEF EncoderSend, PlaceInv
<1>4. CASE EncoderSendClosed
  <2>1. enc = "send" /\ EndEncoder("err")
    BY <1>4 DEF EncoderSendClosed, Is, enc
  <2> QED BY <2>1, Busy, EncoderEnds
<1>5. CASE EncoderEof
  <2>1. enc = "select" /\ EndEncoder("ok") /\ ing \in Ends /\ producer = "running"
    BY <1>5 DEF EncoderEof, Is, Ended, enc, ing
  <2> QED BY <2>1, EncoderEnds
<1>6. CASE EncodeTask
  <2>1. PICK i \in DOMAIN pending : EncodeEnds(i)
    BY <1>6 DEF EncodeTask
  <2>2. Running # {}
    BY <2>1 DEF EncodeEnds, Running
  <2>3. stage' \in [Stages -> Places] /\ ing' = ing /\ enc' = enc /\ wri' = wri
    BY <2>1, NoneGoes DEF EncodeEnds
  <2>4. producer \in {"running", "waiting"}
    BY <2>2, Busy
  <2> QED BY <2>1, <2>3, <2>4 DEF EncodeEnds, PlaceInv
<1> QED BY <1>1, <1>2, <1>3, <1>4, <1>5, <1>6 DEF Encoder

(* The writer's steps and those of its tasks. *)
LEMMA WriterSteps ==
  ASSUME PlaceInv, JobInv, Writer \/ WriteTask
  PROVE  PlaceInv' /\ StageStep
<1> USE DEF StageStep, Places, Ends, ownerVars, inVars, encVars, writeVars, taskVars, InputOpen, Unfinished
<1>1. CASE WriterRecv
  <2>1. stage' \in [Stages -> Places] /\ ing' = ing /\ enc' = enc /\ wri' = "group"
    BY <1>1, WriterGoes DEF WriterRecv
  <2> QED BY <1>1, <2>1 DEF WriterRecv, PlaceInv, Is, wri
<1>2. CASE WriterEof
  <2>1. stage' \in [Stages -> Places] /\ ing' = ing /\ enc' = enc /\ wri' = "close"
    BY <1>2, WriterGoes DEF WriterEof
  <2>2. enc \in Ends /\ wri = "recv"
    BY <1>2 DEF WriterEof, Ended, Is, enc, wri
  <2> QED BY <1>2, <2>1, <2>2 DEF WriterEof, PlaceInv
<1>3. CASE WriteTaskOk
  <2>0. producer \in {"running", "waiting"} /\ writing # "none"
    BY <1>3, Busy DEF WriteTaskOk
  <2>1. /\ stage' \in [Stages -> Places] /\ ing' = ing /\ enc' = enc
        /\ wri' = IF wri \in Ends THEN wri ELSE IF wri = "group" THEN "recv" ELSE "ok"
    <3>1. CASE wri \in Ends
      <4>1. stage' = stage
        BY <1>3, <3>1 DEF WriteTaskOk, Ended, Is, wri
      <4> QED BY <3>1, <4>1, NoneGoes
    <3>2. CASE wri \notin Ends /\ wri = "group"
      <4>1. Goto("writer", "recv")
        BY <1>3, <3>2 DEF WriteTaskOk, Ended, Is, wri, Goto
      <4> QED BY <3>2, <4>1, WriterGoes
    <3>3. CASE wri \notin Ends /\ wri # "group"
      <4>1. Goto("writer", "ok")
        BY <1>3, <3>3 DEF WriteTaskOk, Ended, Is, wri, Goto
      <4> QED BY <3>3, <4>1, WriterGoes
    <3> QED BY <3>1, <3>2, <3>3
  <2>2. /\ UNCHANGED <<ownerVars, token, batches, inVars, works, encVars, encoded, total, taskVars, upload>>
        /\ writing' = "none" /\ group' = <<>>
        /\ writing # "group" => closed' = TRUE
        /\ closed => closed'
    BY <1>3 DEF WriteTaskOk
  <2> QED BY <2>0, <2>1, <2>2 DEF PlaceInv
<1>4. CASE WriteTaskFails
  <2>0. producer \in {"running", "waiting"} /\ writing # "none"
    BY <1>4, Busy DEF WriteTaskFails
  <2>1. /\ stage' \in [Stages -> Places] /\ ing' = ing /\ enc' = enc
        /\ wri' = IF wri \in Ends THEN wri ELSE "err"
        /\ encoded' = IF wri \in Ends THEN encoded ELSE <<>>
    <3>1. CASE wri \in Ends
      <4>1. stage' = stage /\ encoded' = encoded
        BY <1>4, <3>1 DEF WriteTaskFails, Ended, wri
      <4> QED BY <3>1, <4>1, NoneGoes
    <3>2. CASE wri \notin Ends
      <4>1. Goto("writer", "err") /\ encoded' = <<>>
        BY <1>4, <3>2 DEF WriteTaskFails, Ended, wri
      <4> QED BY <3>2, <4>1, WriterGoes
    <3> QED BY <3>1, <3>2
  <2>2. /\ UNCHANGED <<ownerVars, token, batches, inVars, works, encVars, closed, total, taskVars, upload>>
        /\ writing' = "none" /\ group' = <<>>
    BY <1>4 DEF WriteTaskFails
  <2> QED BY <2>0, <2>1, <2>2 DEF PlaceInv
<1> QED BY <1>1, <1>2, <1>3, <1>4 DEF Writer, WriteTask

(* The cancellation of a stage, and the end of an analysis that it left. *)
LEMMA CancelSteps ==
  ASSUME PlaceInv, JobInv, StageCancelled \/ AnalysisEnds
  PROVE  PlaceInv' /\ StageStep
<1> USE DEF StageStep, Places, Ends, ownerVars, inVars, encVars, writeVars, taskVars, InputOpen, Unfinished
<1>1. CASE StageCancelled
  <2>1. token /\ producer = "running"
    BY <1>1 DEF StageCancelled
  <2>2. CASE ~Ended("ingestion") /\ EndIngestion("cancelled") /\ works' = works
    <3>1. ing \notin Ends
      BY <2>2 DEF Ended, ing
    <3> QED BY <2>1, <2>2, <3>1, IngestionEnds
  <2>3. CASE ~Ended("encoder") /\ EndEncoder("cancelled")
    <3>1. enc \notin Ends
      BY <2>3 DEF Ended, enc
    <3> QED BY <2>1, <2>3, <3>1, EncoderEnds
  <2>4. CASE /\ ~Ended("writer") /\ Goto("writer", "cancelled") /\ encoded' = <<>>
             /\ UNCHANGED <<ownerVars, token, batches, inVars, works, encVars, writeVars, taskVars, upload>>
    <3>1. wri \notin Ends
      BY <2>4 DEF Ended, wri
    <3>2. stage' \in [Stages -> Places] /\ ing' = ing /\ enc' = enc /\ wri' = "cancelled"
      BY <2>4, WriterGoes
    <3> QED BY <2>1, <2>4, <3>1, <3>2 DEF PlaceInv
  <2> QED BY <1>1, <2>2, <2>3, <2>4 DEF StageCancelled
<1>2. CASE AnalysisEnds
  <2>1. stage' \in [Stages -> Places] /\ ing' = ing /\ enc' = enc /\ wri' = wri
    BY <1>2, NoneGoes DEF AnalysisEnds
  <2>2. producer \in {"running", "waiting"}
    BY <1>2, Busy DEF AnalysisEnds
  <2> QED BY <1>2, <2>1, <2>2 DEF AnalysisEnds, PlaceInv
<1> QED BY <1>1, <1>2

(* All of them. *)
LEMMA StageSteps ==
  ASSUME PlaceInv, JobInv, StageAct
  PROVE  PlaceInv' /\ StageStep
BY IngestionSteps, EncoderSteps, WriterSteps, CancelSteps DEF StageAct

(* The settlement keeps its promises while the stages work. *)
LEMMA JobKept ==
  ASSUME PlaceInv, PlaceInv', JobInv, StageStep
  PROVE  JobInv'
<1>1. /\ joined' = joined /\ failed' = failed /\ producer' = producer
      /\ token' = token /\ caller' = caller /\ producer \in {"running", "waiting"}
  BY DEF StageStep, ownerVars, taskVars
<1>2. \A s \in Stages : Ended(s) => stage'[s] = stage[s]
  BY DEF StageStep, Ended, Stages, ing, enc, wri
<1>3. \A s \in Stages : stage'[s] = "cancelled" => stage[s] = "cancelled" \/ token
  BY DEF StageStep, Stages, ing, enc, wri
<1> QED BY <1>1, <1>2, <1>3 DEF JobInv, Ended, Is

(* The pipeline starts, is joined and ends. *)
LEMMA SettleSteps ==
  ASSUME OwnerInv, PlaceInv, JobInv, Settle
  PROVE  /\ PlaceInv' /\ JobInv'
         /\ token => token'
         /\ token' \in BOOLEAN /\ (producer \in Over => producer' = producer)
<1> USE DEF ownerVars, inVars, encVars, writeVars, taskVars, InputOpen, Unfinished, Over
<1>1. CASE Start
  <2>0. producer = "starting" /\ Fresh
    BY <1>1 DEF Start, JobInv
  <2>1. /\ UNCHANGED <<ownerVars, token, rest, building, analysed, work, works, encVars, encoded,
                       writeVars, stage, joined, failed, analyze, upload>>
        /\ producer' \in {"running", "err"} /\ (producer' = "err" => ~analysis')
    BY <1>1 DEF Start
  <2>2. PlaceInv'
    BY <2>1 DEF PlaceInv, ing, enc, wri
  <2>3. producer' = "err" => Fresh'
    BY <2>0, <2>1 DEF Fresh, ing, enc, wri
  <2>4. JobInv'
    BY <2>0, <2>1, <2>3 DEF JobInv, Ended, Is
  <2> QED BY <2>0, <2>1, <2>2, <2>4 DEF OwnerInv
<1>2. ASSUME NEW s \in Stages, JoinStage(s)
      PROVE  /\ PlaceInv' /\ JobInv'
             /\ token => token'
             /\ token' \in BOOLEAN /\ (producer \in Over => producer' = producer)
  <2>1. /\ UNCHANGED <<ownerVars, inVars, works, encVars, encoded, writeVars, stage, upload>>
        /\ producer = "running" /\ Ended(s) /\ joined' = joined \cup {s}
        /\ failed' = (failed \/ Is(s, "err"))
        /\ token' = (token \/ Is(s, "err"))
        /\ producer' = IF joined' = Stages THEN "waiting" ELSE "running"
    BY <1>2 DEF JoinStage, Cancels
  <2>2. PlaceInv'
    BY <2>1 DEF PlaceInv, ing, enc, wri
  <2>3. Is(s, "err") \in BOOLEAN
    BY DEF Is
  <2>4. JobInv'
    BY <2>1, <2>3 DEF JobInv, Ended, Is, OwnerInv
  <2> QED BY <2>1, <2>2, <2>3, <2>4 DEF OwnerInv
<1>3. CASE PipeEnds
  <2>1. /\ UNCHANGED <<ownerVars, token, inVars, works, encVars, encoded, writeVars, stage, joined, failed, upload>>
        /\ producer = "waiting" /\ Quiet
        /\ producer' = IF failed THEN "err" ELSE "ok"
    BY <1>3 DEF PipeEnds, Waited
  <2>2. PlaceInv'
    BY <2>1 DEF PlaceInv, ing, enc, wri
  <2>3. Quiet'
    BY <2>1 DEF Quiet, Running
  <2>4. JobInv'
    BY <2>1, <2>3 DEF JobInv, Ended, Is
  <2> QED BY <2>1, <2>2, <2>4 DEF OwnerInv
<1> QED BY <1>1, <1>2, <1>3 DEF Settle

(* The owner does not disturb the stages. *)
LEMMA OwnerKeepsStages ==
  ASSUME PlaceInv, JobInv, OwnerInv, OwnerStep, UNCHANGED pipelineVars, token' \in BOOLEAN
  PROVE  PlaceInv' /\ JobInv'
<1>1. /\ UNCHANGED <<inVars, works, encVars, encoded, writeVars, stage, joined, failed>>
      /\ producer' = producer /\ (token => token')
  BY DEF pipelineVars, OwnerStep
<1>2. PlaceInv'
  BY <1>1 DEF PlaceInv, OwnerStep, ing, enc, wri, inVars, encVars, writeVars
<1>3. Fresh' = Fresh /\ Quiet' = Quiet
  BY <1>1 DEF Fresh, Quiet, Running, ing, enc, wri, inVars, encVars, writeVars
<1>4. JobInv'
  BY <1>1, <1>3 DEF JobInv, OwnerStep, Ended, Is
<1> QED BY <1>2, <1>4

(* Nor do the batches that it writes. *)
LEMMA BatchKeepsStages ==
  ASSUME PlaceInv, JobInv, WriteBatch
  PROVE  PlaceInv' /\ JobInv'
<1>1. UNCHANGED <<caller, token, inVars, works, encVars, encoded, writeVars, stage, taskVars>>
  BY DEF WriteBatch
<1>2. PlaceInv'
  BY <1>1 DEF PlaceInv, ing, enc, wri, inVars, encVars, writeVars, InputOpen, Unfinished
<1>3. Fresh' = Fresh /\ Quiet' = Quiet
  BY <1>1 DEF Fresh, Quiet, Running, ing, enc, wri, inVars, encVars, writeVars
<1>4. JobInv'
  BY <1>1, <1>3 DEF JobInv, Ended, Is, taskVars
<1> QED BY <1>2, <1>4

-----------------------------------------------------------------------------
(* The rows of a Parquet output                                             *)

(* A row group in place stays in place, also when the stream grows. *)
LEMMA GroupsStay ==
  ASSUME NEW n \in Nat, NEW m \in Nat, NEW open \in BOOLEAN, NEW still \in BOOLEAN, NEW a,
         n <= m, n = m \/ open, still => open
  PROVE  /\ Groups(n, open, a) \subseteq Groups(m, still, a)
         /\ Tasks(n, open, a) \subseteq Tasks(m, still, a)
<1>0. GroupRows \in Nat
  BY SinkAssumption
<1>1. Groups(n, open, a) \subseteq Groups(m, still, a)
  <2> SUFFICES ASSUME NEW p \in Groups(n, open, a) PROVE p \in Groups(m, still, a)
    OBVIOUS
  <2>1. p[2] \in Nat \ {0} /\ IsPiece(p[1].rows, p[2], GroupRows, n, open)
    BY DEF Groups
  <2>2. PICK k \in Nat : k + 1 = p[2]
    <3>1. p[2] - 1 \in Nat /\ p[2] - 1 + 1 = p[2]
      BY <2>1
    <3> QED BY <3>1
  <2>3. IsPiece(p[1].rows, k + 1, GroupRows, n, open)
    BY <2>1, <2>2
  <2>4. IsPiece(p[1].rows, k + 1, GroupRows, m, still)
    BY <1>0, <2>3, PieceStays
  <2> QED BY <2>2, <2>4 DEF Groups
<1> QED BY <1>1 DEF Tasks

(* The owner accepts no row, and does not become able to. *)
Quieter == accepted' = accepted /\ (Open' => Open)

(* What is in place stays there while the owner accepts no row. *)
LEMMA SetsStay ==
  ASSUME accepted \in Nat, Quieter, analyze' = analyze
  PROVE  /\ Groups(accepted, Open, analyze) \subseteq Groups(accepted, Open, analyze)'
         /\ Tasks(accepted, Open, analyze) \subseteq Tasks(accepted, Open, analyze)'
<1> DEFINE o == Open
           q == Open'
<1>1. o \in BOOLEAN /\ q \in BOOLEAN /\ (q => o)
  BY DEF Open, Quieter
<1> HIDE DEF o, q
<1>2. /\ Groups(accepted, o, analyze) \subseteq Groups(accepted, q, analyze)
      /\ Tasks(accepted, o, analyze) \subseteq Tasks(accepted, q, analyze)
  BY <1>1, GroupsStay
<1>3. accepted' = accepted /\ analyze' = analyze
  BY DEF Quieter
<1>4. /\ Groups(accepted, Open, analyze)' = Groups(accepted, q, analyze)
      /\ Tasks(accepted, Open, analyze)' = Tasks(accepted, q, analyze)
  BY <1>3 DEF q, Groups, Tasks
<1> QED BY <1>2, <1>4 DEF o

(* Nothing is moved. *)
LEMMA FlowStays ==
  ASSUME FlowInv, accepted \in Nat, Quieter,
         UNCHANGED <<batches, rest, building, analysed, work, works, pending, hand, encoded,
                     group, file, total, stage, analyze>>
  PROVE  FlowInv'
<1>1. /\ Groups(accepted, Open, analyze) \subseteq Groups(accepted, Open, analyze)'
      /\ Tasks(accepted, Open, analyze) \subseteq Tasks(accepted, Open, analyze)'
  BY SetsStay
<1>2. /\ ing' = ing /\ enc' = enc /\ wri' = wri /\ accepted' = accepted
      /\ Written' = Written /\ Encoded' = Encoded /\ Handed' = Handed
      /\ Spawned' = Spawned /\ Queued' = Queued /\ Made' = Made
  BY DEF ing, enc, wri, Quieter, Written, Encoded, Handed, Spawned, Queued, Made
<1>3. QueuesInv'
  BY <1>2 DEF FlowInv, QueuesInv
<1>4. FileInv'
  BY <1>1, <1>2, PlaceMore DEF FlowInv, FileInv
<1>5. CodeInv'
  BY <1>1, <1>2, PlaceMore DEF FlowInv, CodeInv, Coding
<1>6. IntakeInv'
  BY <1>1, <1>2, PlaceMore DEF FlowInv, IntakeInv, Ingesting, Coding
<1>7. EndInv'
  BY <1>2 DEF FlowInv, EndInv, Coding
<1>8. BuildInv'
  BY <1>2 DEF FlowInv, BuildInv
<1> QED BY <1>3, <1>4, <1>5, <1>6, <1>7, <1>8 DEF FlowInv

(* What is in place is so in terms of these. *)
Here == Groups(accepted, Open, analyze)
HereTasks == Tasks(accepted, Open, analyze)

(* The steps of the stages leave the stream as it is. *)
LEMMA SameStream ==
  ASSUME StageStep
  PROVE  /\ accepted' = accepted /\ analyze' = analyze /\ Open' = Open
         /\ Here' = Here /\ HereTasks' = HereTasks
BY DEF StageStep, ownerVars, taskVars, Here, HereTasks, Groups, Tasks, Open

(* The lengths of the queues are numbers, and so are the places. *)
LEMMA Places1 ==
  ASSUME QueuesInv
  PROVE  /\ Len(file) \in Nat /\ Len(group) \in Nat /\ Len(encoded) \in Nat
         /\ Len(hand) \in Nat /\ Len(works) \in Nat /\ Len(work) \in Nat
         /\ Written \in Nat /\ Encoded \in Nat /\ Handed \in Nat
<1>1. /\ Len(file) \in Nat /\ Len(group) \in Nat /\ Len(encoded) \in Nat
      /\ Len(hand) \in Nat /\ Len(works) \in Nat /\ Len(work) \in Nat
  BY DEF QueuesInv
<1> QED BY <1>1 DEF Written, Encoded, Handed

(* The places before the encoder are numbers while it runs. *)
LEMMA Places2 ==
  ASSUME QueuesInv, enc \notin Ends
  PROVE  Len(pending) \in Nat /\ Spawned \in Nat /\ Queued \in Nat /\ Made \in Nat
<1>1. Len(pending) \in Nat
  BY DEF QueuesInv
<1> QED BY <1>1, Places1 DEF Spawned, Queued, Made

(* A step that changes nothing from the encoding queue to the file. *)
Downstream == <<works, pending, hand, encoded, group, file, total>>

(* What is from the encoding queue to the file stays in place. *)
LEMMA DownstreamStays ==
  ASSUME FlowInv, StageStep, UNCHANGED Downstream, enc' = enc, wri' = wri
  PROVE  /\ FileInv' /\ CodeInv'
         /\ Queued' = Queued /\ Encoded' = Encoded /\ (Coding' <=> Coding)
<1>1. /\ Written' = Written /\ Encoded' = Encoded /\ Handed' = Handed
      /\ Spawned' = Spawned /\ Queued' = Queued
  BY DEF Downstream, Written, Encoded, Handed, Spawned, Queued
<1>2. Here' = Here /\ HereTasks' = HereTasks /\ accepted' = accepted
  BY SameStream
<1>3. FileInv'
  BY <1>1, <1>2 DEF FlowInv, FileInv, Downstream, Here
<1>4. CodeInv'
  BY <1>1, <1>2 DEF FlowInv, CodeInv, Downstream, Here, HereTasks, Coding
<1> QED BY <1>1, <1>3, <1>4 DEF Coding

(* The numbers of the intake. *)
LEMMA IntakeTypes ==
  ASSUME FlowInv, OwnerInv
  PROVE  /\ GroupRows \in Nat \ {0} /\ accepted \in Nat
         /\ batches \in Seq(Seq(Nat)) /\ rest \in Seq(Nat) /\ building \in Seq(Nat)
         /\ enc \notin Ends => Queued \in Nat /\ Made \in Nat /\ Edge(Made, GroupRows) \in Nat
<1>1. GroupRows \in Nat \ {0}
  BY SinkAssumption
<1>2. enc \notin Ends => Queued \in Nat /\ Made \in Nat /\ Edge(Made, GroupRows) \in Nat
  BY <1>1, Places2, EdgeType DEF FlowInv
<1> QED BY <1>1, <1>2 DEF OwnerInv, FlowInv, QueuesInv

(* The ingestion ends: badly, without an encoder, or with nothing left. *)
LEMMA IngestionEndFlows ==
  ASSUME FlowInv, PlaceInv, NEW how \in Ends, EndIngestion(how), StageStep, works' = works,
         ing \notin Ends, how = "ok" /\ Coding => accepted <= Edge(Queued, GroupRows)
  PROVE  FlowInv'
<1>1. ing' = how /\ enc' = enc /\ wri' = wri
  BY IngestionGoes DEF EndIngestion, Places
<1>2. /\ UNCHANGED <<encVars, encoded, writeVars>>
      /\ batches' = <<>> /\ rest' = <<>> /\ building' = <<>> /\ work' = <<>> /\ analysed' = <<>>
  BY DEF EndIngestion
<1>3. UNCHANGED Downstream
  BY <1>2 DEF Downstream, encVars, writeVars
<1>4. /\ FileInv' /\ CodeInv'
      /\ Queued' = Queued /\ Encoded' = Encoded /\ (Coding' <=> Coding)
  BY <1>1, <1>3, DownstreamStays
<1>5. QueuesInv'
  BY <1>1, <1>2, <1>3 DEF FlowInv, QueuesInv, Downstream
<1>6. IntakeInv'
  BY <1>1 DEF IntakeInv, Ingesting, Ends
<1>7. EndInv'
  <2>1. enc = "ok" => ing \in Ends
    BY DEF PlaceInv
  <2>2. accepted' = accepted
    BY SameStream
  <2> QED BY <1>1, <1>4, <2>1, <2>2 DEF EndInv, Ends
<1>8. BuildInv'
  BY <1>1, <1>2 DEF BuildInv, Ends
<1> QED BY <1>4, <1>5, <1>6, <1>7, <1>8 DEF FlowInv

(* A batch is taken. *)
LEMMA TakeFlows ==
  ASSUME FlowInv, PlaceInv, OwnerInv, StageStep, IngestRecv
  PROVE  FlowInv'
<1>1. ing = "recv" /\ ing' = "fill" /\ enc' = enc /\ wri' = wri
  BY IngestionGoes DEF IngestRecv, Places, Is, ing
<1>2. /\ UNCHANGED <<building, analysed, work, works, encVars, encoded, writeVars>>
      /\ batches # <<>> /\ batches' = Tail(batches) /\ rest' = Head(batches)
  BY DEF IngestRecv
<1>3. UNCHANGED Downstream
  BY <1>2 DEF Downstream, encVars, writeVars
<1>4. /\ FileInv' /\ CodeInv'
      /\ Queued' = Queued /\ Encoded' = Encoded /\ (Coding' <=> Coding)
  BY <1>1, <1>3, DownstreamStays
<1>5. batches' \in Seq(Seq(Nat)) /\ rest' \in Seq(Nat)
  BY <1>2, QueueHead DEF FlowInv, QueuesInv
<1>6. QueuesInv'
  BY <1>1, <1>2, <1>3, <1>5 DEF FlowInv, QueuesInv, Downstream
<1>7. Here' = Here /\ accepted' = accepted /\ analyze' = analyze /\ Made' = Made
  BY <1>2, <1>4, SameStream DEF Made
<1>8. IntakeInv'
  <2> SUFFICES ASSUME Ingesting PROVE IntakeInv'
    BY <1>1, <1>4 DEF IntakeInv, Ingesting, Ends
  <2>1. rest = <<>> /\ Following(Edge(Made, GroupRows), building, rest, batches, accepted)
    BY <1>1 DEF FlowInv, BuildInv, IntakeInv
  <2>2. Following(Edge(Made, GroupRows), building, rest', batches', accepted)
    BY <1>2, <2>1, IntakeTypes, FollowingTake DEF Ingesting, Coding
  <2>3. InPlace(work, Queued, Here)
    BY DEF FlowInv, IntakeInv, Here
  <2> QED BY <1>1, <1>2, <1>4, <1>7, <2>2, <2>3 DEF IntakeInv, Here
<1>9. BuildInv'
  BY <1>1, <1>2, <1>7 DEF FlowInv, BuildInv
<1>10. EndInv'
  BY <1>1 DEF EndInv
<1> QED BY <1>4, <1>6, <1>8, <1>9, <1>10 DEF FlowInv

(* The stream ends in a row group. *)
LEMMA LastFlows ==
  ASSUME FlowInv, PlaceInv, OwnerInv, StageStep, IngestEof, building # <<>>
  PROVE  FlowInv'
<1>1. ing = "recv" /\ ing' = "last" /\ enc' = enc /\ wri' = wri
  BY IngestionGoes DEF IngestEof, Places, Is, ing
<1>2. /\ UNCHANGED <<batches, rest, building, analysed, work, works, encVars, encoded, writeVars>>
      /\ batches = <<>>
  BY DEF IngestEof, inVars
<1>3. UNCHANGED Downstream
  BY <1>2 DEF Downstream, encVars, writeVars
<1>4. /\ FileInv' /\ CodeInv'
      /\ Queued' = Queued /\ Encoded' = Encoded /\ (Coding' <=> Coding)
  BY <1>1, <1>3, DownstreamStays
<1>6. QueuesInv'
  BY <1>1, <1>2, <1>3 DEF FlowInv, QueuesInv, Downstream
<1>7. Here' = Here /\ accepted' = accepted /\ analyze' = analyze /\ Made' = Made
  BY <1>2, <1>4, SameStream DEF Made
<1>8. IntakeInv'
  BY <1>1, <1>2, <1>4, <1>7 DEF FlowInv, IntakeInv, Ingesting, Here, Ends
<1>9. BuildInv'
  <2>1. Len(building) # 0
    BY IntakeTypes
  <2> QED BY <1>1, <1>2, <1>7, <2>1 DEF FlowInv, BuildInv
<1>10. EndInv'
  BY <1>1 DEF EndInv
<1> QED BY <1>4, <1>6, <1>8, <1>9, <1>10 DEF FlowInv

(* The stream ends with a row group. *)
LEMMA EmptyFlows ==
  ASSUME FlowInv, PlaceInv, OwnerInv, StageStep, IngestEof, building = <<>>
  PROVE  FlowInv'
<1>1. ing = "recv" /\ batches = <<>> /\ EndIngestion("ok") /\ works' = works
  BY DEF IngestEof, Is, ing
<1>2. rest = <<>> /\ work = <<>>
  BY <1>1 DEF FlowInv, BuildInv, PlaceInv
<1>3. Coding => accepted <= Edge(Queued, GroupRows)
  <2> SUFFICES ASSUME Coding PROVE accepted <= Edge(Queued, GroupRows)
    OBVIOUS
  <2> DEFINE e == Edge(Made, GroupRows)
  <2>1. /\ accepted \in Nat /\ e \in Nat /\ Queued \in Nat
        /\ Following(e, building, rest, batches, accepted)
    BY <1>1, IntakeTypes DEF FlowInv, IntakeInv, Ingesting, Coding, Ends
  <2>2. e = Edge(Queued, GroupRows)
    BY <1>2, <2>1 DEF Made
  <2> HIDE DEF e
  <2>3. Following(e, building, <<>>, <<>>, accepted)
    BY <1>1, <1>2, <2>1
  <2>4. accepted = e + Len(building)
    BY <2>1, <2>3, FollowingEnd
  <2> QED BY <2>1, <2>2, <2>4
<1> QED BY <1>1, <1>3, IngestionEndFlows DEF Ends

(* Rows go into the row group. *)
LEMMA FillFlows ==
  ASSUME FlowInv, PlaceInv, OwnerInv, StageStep, IngestFill
  PROVE  FlowInv'
<1>1. /\ ing = "fill" /\ ing' = (IF Len(building') >= GroupRows THEN "full" ELSE "recv")
      /\ enc' = enc /\ wri' = wri
  <2> DEFINE w == IF Len(building') >= GroupRows THEN "full" ELSE "recv"
  <2>1. w \in Places /\ Goto("ingestion", w) /\ ing = "fill"
    BY DEF IngestFill, Is, ing, Places
  <2> HIDE DEF w
  <2>2. ing' = w /\ enc' = enc /\ wri' = wri
    BY <2>1, IngestionGoes
  <2> QED BY <2>1, <2>2 DEF w
<1>2. /\ UNCHANGED <<batches, work, works, encVars, encoded, writeVars>>
      /\ building' = building \o SubSeq(rest, 1, Space)
      /\ analysed' = IF analyze THEN analysed \o SubSeq(rest, 1, Space) ELSE <<>>
      /\ rest' = SubSeq(rest, Space + 1, Len(rest))
  BY DEF IngestFill, Pushed
<1>3. UNCHANGED Downstream
  BY <1>2 DEF Downstream, encVars, writeVars
<1>4. /\ FileInv' /\ CodeInv'
      /\ Queued' = Queued /\ Encoded' = Encoded /\ (Coding' <=> Coding)
  BY <1>1, <1>3, DownstreamStays
<1>5. /\ Space \in Nat /\ Space <= Len(rest) /\ Space <= GroupRows - Len(building)
      /\ Space = Len(rest) \/ Space = GroupRows - Len(building)
      /\ Len(rest) \in Nat /\ Len(building) \in Nat /\ Len(building) < GroupRows
  <2>1. Len(rest) \in Nat /\ Len(building) \in Nat /\ GroupRows \in Nat
    BY IntakeTypes
  <2>2. Len(building) < GroupRows
    BY <1>1 DEF FlowInv, BuildInv
  <2> QED BY <2>1, <2>2 DEF Space
<1>6. /\ SubSeq(rest, 1, Space) \in Seq(Nat) /\ Len(SubSeq(rest, 1, Space)) = Space
      /\ SubSeq(rest, Space + 1, Len(rest)) \in Seq(Nat)
      /\ Len(SubSeq(rest, Space + 1, Len(rest))) = Len(rest) - Space
  <2> DEFINE k == Space
  <2>1. k \in Nat /\ k <= Len(rest) /\ rest \in Seq(Nat)
    BY <1>5, IntakeTypes
  <2> HIDE DEF k
  <2>2. SubSeq(rest, 1, k) \in Seq(Nat) /\ Len(SubSeq(rest, 1, k)) = k
    BY <2>1
  <2>3. SubSeq(rest, k + 1, Len(rest)) \in Seq(Nat) /\ Len(SubSeq(rest, k + 1, Len(rest))) = Len(rest) - k
    BY <2>1
  <2> QED BY <2>2, <2>3 DEF k
<1>7. /\ building' \in Seq(Nat) /\ Len(building') = Len(building) + Space
      /\ rest' \in Seq(Nat) /\ Len(rest') = Len(rest) - Space /\ analysed' \in Seq(Nat)
  <2> DEFINE t == SubSeq(rest, 1, Space)
  <2>1. t \in Seq(Nat) /\ Len(t) = Space
    BY <1>6
  <2> HIDE DEF t
  <2>2. building' = building \o t /\ analysed' = IF analyze THEN analysed \o t ELSE <<>>
    BY <1>2 DEF t
  <2>3. building \in Seq(Nat) /\ analysed \in Seq(Nat)
    BY DEF FlowInv, QueuesInv
  <2> QED BY <1>2, <1>6, <2>1, <2>2, <2>3
<1>8. QueuesInv'
  BY <1>1, <1>2, <1>3, <1>7 DEF FlowInv, QueuesInv, Downstream
<1>9. Here' = Here /\ accepted' = accepted /\ analyze' = analyze /\ Made' = Made
  BY <1>2, <1>4, SameStream DEF Made
<1>10. IntakeInv'
  <2> SUFFICES ASSUME Ingesting PROVE IntakeInv'
    BY <1>1, <1>4 DEF IntakeInv, Ingesting, Ends
  <2>1. Following(Edge(Made, GroupRows), building, rest, batches, accepted)
    BY <1>1 DEF FlowInv, IntakeInv
  <2>2. Following(Edge(Made, GroupRows), building', rest', batches, accepted)
    BY <1>2, <1>5, <2>1, IntakeTypes, FollowingFill DEF Ingesting, Coding
  <2>3. InPlace(work, Queued, Here)
    BY DEF FlowInv, IntakeInv, Here
  <2> QED BY <1>1, <1>2, <1>4, <1>9, <2>2, <2>3 DEF IntakeInv, Here
<1>11. BuildInv'
  <2>1. analyze => analysed' = building'
    BY <1>2 DEF FlowInv, BuildInv
  <2>2. Len(building') >= GroupRows => Len(building') = GroupRows
    <3> DEFINE b == Len(building)
               k == Space
    <3>1. /\ b \in Nat /\ k \in Nat /\ k <= GroupRows - b /\ GroupRows \in Nat
          /\ Len(building') = b + k
      BY <1>5, <1>7, IntakeTypes
    <3> HIDE DEF b, k
    <3> QED BY <3>1
  <2>3. ~(Len(building') >= GroupRows) => Len(building') < GroupRows /\ rest' = <<>>
    <3>1. ~(Len(building') >= GroupRows) => Len(rest') = 0 /\ Len(building') < GroupRows
      BY <1>5, <1>7, IntakeTypes
    <3> QED BY <1>7, <3>1
  <2> QED BY <1>1, <1>9, <2>1, <2>2, <2>3 DEF BuildInv
<1>12. EndInv'
  BY <1>1 DEF EndInv
<1> QED BY <1>4, <1>8, <1>10, <1>11, <1>12 DEF FlowInv

(* The row group is made, with its analysis. *)
LEMMA MakeFlows ==
  ASSUME FlowInv, PlaceInv, OwnerInv, StageStep, MakeGroup
  PROVE  FlowInv'
<1>1. /\ ing \in {"full", "last"} /\ ing' = (IF ing = "full" THEN "send" ELSE "sendlast")
      /\ enc' = enc /\ wri' = wri
  <2> DEFINE w == IF ing = "full" THEN "send" ELSE "sendlast"
  <2>1. w \in Places /\ Goto("ingestion", w) /\ ing \in {"full", "last"}
    BY DEF MakeGroup, Is, ing, Places
  <2> HIDE DEF w
  <2>2. ing' = w /\ enc' = enc /\ wri' = wri
    BY <2>1, IngestionGoes
  <2> QED BY <2>1, <2>2 DEF w
<1>2. /\ UNCHANGED <<batches, rest, works, encVars, encoded, writeVars>>
      /\ work' = <<[rows |-> building, stats |-> analysed]>>
      /\ building' = <<>> /\ analysed' = <<>>
  BY DEF MakeGroup, NewAnalysis
<1>3. UNCHANGED Downstream
  BY <1>2 DEF Downstream, encVars, writeVars
<1>4. /\ FileInv' /\ CodeInv'
      /\ Queued' = Queued /\ Encoded' = Encoded /\ (Coding' <=> Coding)
  BY <1>1, <1>3, DownstreamStays
<1> DEFINE g == [rows |-> building, stats |-> analysed]
<1>5. g \in Group /\ g.rows = building /\ g.stats = analysed /\ (analyze => analysed = building)
  BY DEF FlowInv, QueuesInv, BuildInv, Group
<1> HIDE DEF g
<1>6. work' = <<g>> /\ work' \in Seq(Group) /\ Len(work') = 1 /\ work = <<>> /\ Len(work) = 0
  <2>1. work' = <<g>> /\ work = <<>>
    BY <1>1, <1>2 DEF PlaceInv, g
  <2> QED BY <1>5, <2>1
<1>7. QueuesInv'
  BY <1>1, <1>2, <1>3, <1>6 DEF FlowInv, QueuesInv, Downstream
<1>8. Here' = Here /\ accepted' = accepted /\ analyze' = analyze /\ Open' = Open
  BY SameStream
<1>9. IntakeInv'
  <2> SUFFICES ASSUME Ingesting PROVE IntakeInv'
    BY <1>1, <1>4 DEF IntakeInv, Ingesting, Ends
  <2> DEFINE l == Len(building)
             e == Edge(Made, GroupRows)
  <2>1. /\ GroupRows \in Nat \ {0} /\ accepted \in Nat /\ batches \in Seq(Seq(Nat))
        /\ rest \in Seq(Nat) /\ Queued \in Nat /\ Made \in Nat /\ e \in Nat /\ l \in Nat
        /\ Made = Queued /\ Made' = Queued + 1
    <3>1. enc \notin Ends
      BY DEF Ingesting, Coding
    <3> QED BY <1>4, <1>6, <3>1, IntakeTypes DEF Made
  <2>2. Following(e, building, rest, batches, accepted)
    BY <1>1 DEF FlowInv, IntakeInv
  <2>3. /\ building = Span(e, e + l) /\ Len(rest) \in Nat /\ e + l + Len(rest) <= accepted
    <3> HIDE DEF e
    <3> QED BY <2>1, <2>2, FollowingParts
  <2>4. l \in 1..GroupRows /\ (ing = "full" => l = GroupRows)
    BY <1>1, <2>1 DEF FlowInv, BuildInv
  <2>5. ing = "last" => accepted = e + l /\ ~Open
    <3>1. ing = "last" => rest = <<>> /\ batches = <<>> /\ ~Open
      BY <1>1 DEF FlowInv, BuildInv, PlaceInv, InputOpen, Unfinished, Open
    <3> HIDE DEF e
    <3>2. ing = "last" => accepted = e + l
      BY <2>1, <2>2, <3>1, FollowingEnd
    <3> QED BY <3>1, <3>2
  <2>6. Edge(Queued + 1, GroupRows) = e + GroupRows
    BY <2>1, EdgeNext
  <2>7. IsPiece(building, Queued + 1, GroupRows, accepted, Open)
    <3>1. /\ e + l <= accepted /\ (l = GroupRows \/ (accepted = e + l /\ ~Open))
      BY <1>1, <2>1, <2>3, <2>4, <2>5
    <3>2. e = Edge(Queued, GroupRows)
      BY <2>1
    <3> HIDE DEF e
    <3> QED BY <2>1, <2>3, <2>4, <3>1, <3>2, PieceMade
  <2>8. InPlace(work', Queued, Here)
    <3>1. <<g, Queued + 1>> \in Here
      BY <1>5, <2>1, <2>7 DEF Here, Groups
    <3> QED BY <1>6, <2>1, <3>1, PlaceOne
  <2>9. ing = "full" => Following(Edge(Queued + 1, GroupRows), <<>>, rest, batches, accepted)
    <3> HIDE DEF e
    <3>1. Following(e + l, <<>>, rest, batches, accepted)
      BY <2>1, <2>2, FollowingCut
    <3> QED BY <2>4, <2>6, <3>1
  <2>10. ing = "last" => accepted <= Edge(Queued + 1, GroupRows)
    BY <2>1, <2>4, <2>5, <2>6
  <2> QED BY <1>1, <1>2, <1>4, <1>8, <2>1, <2>8, <2>9, <2>10 DEF IntakeInv, Here
<1>10. BuildInv'
  BY <1>1, <1>2, <1>8 DEF FlowInv, BuildInv
<1>11. EndInv'
  BY <1>1 DEF EndInv
<1> QED BY <1>4, <1>7, <1>9, <1>10, <1>11 DEF FlowInv

(* A row group goes to the encoding queue. *)
LEMMA PassPlaces ==
  ASSUME QueuesInv, enc \notin Ends, works' = works \o work, work' = <<>>,
         UNCHANGED <<pending, hand, encoded, group, file, total>>
  PROVE  /\ works' \in Seq(Group) /\ work' \in Seq(Group)
         /\ Written' = Written /\ Encoded' = Encoded /\ Handed' = Handed /\ Spawned' = Spawned
         /\ Queued' = Made /\ Made' = Made
<1>1. Written' = Written /\ Encoded' = Encoded /\ Handed' = Handed /\ Spawned' = Spawned
  BY DEF Written, Encoded, Handed, Spawned
<1>2. works \in Seq(Group) /\ work \in Seq(Group)
  BY DEF QueuesInv
<1>3. works' \in Seq(Group) /\ Len(works') = Len(works) + Len(work)
  BY <1>2, QueueJoin
<1>4. Spawned \in Nat /\ Len(works) \in Nat /\ Len(work) \in Nat
  BY Places1, Places2
<1>5. Len(work') = 0 /\ work' \in Seq(Group)
  OBVIOUS
<1>6. Queued' = Spawned + Len(works) + Len(work)
  <2>1. Queued' = Spawned + Len(works')
    BY <1>1 DEF Queued
  <2> QED BY <1>3, <1>4, <2>1
<1>7. Queued' = Made
  BY <1>6 DEF Made, Queued
<1>8. Made' = Queued'
  <2>1. Made' = Queued' + Len(work')
    BY DEF Made
  <2>2. Made' = Spawned + Len(works) + Len(work) + 0
    BY <1>5, <1>6, <2>1
  <2> QED BY <1>4, <1>6, <2>2
<1> QED BY <1>1, <1>3, <1>5, <1>7, <1>8

(* And what precedes it stays. *)
LEMMA PassKeeps ==
  ASSUME FlowInv, StageStep, ing \in {"send", "sendlast"}, enc \notin Ends,
         works' = works \o work, work' = <<>>, building' = <<>>, analysed' = <<>>,
         UNCHANGED <<pending, hand, encoded, group, file, total>>,
         enc' = enc, wri' = wri, batches' \in Seq(Seq(Nat)), rest' \in Seq(Nat),
         IntakeInv', BuildInv', EndInv'
  PROVE  FlowInv'
<1>1. /\ works' \in Seq(Group) /\ work' \in Seq(Group)
      /\ Written' = Written /\ Encoded' = Encoded /\ Handed' = Handed /\ Spawned' = Spawned
  BY PassPlaces DEF FlowInv
<1>2. Here' = Here /\ HereTasks' = HereTasks /\ accepted' = accepted
  BY SameStream
<1>3. QueuesInv'
  BY <1>1 DEF FlowInv, QueuesInv
<1>4. FileInv'
  BY <1>1, <1>2 DEF FlowInv, FileInv, Here
<1>5. CodeInv'
  <2> SUFFICES ASSUME Coding PROVE CodeInv'
    BY DEF CodeInv, Coding
  <2>1. InPlace(hand, Encoded, Here) /\ InPlace(pending, Handed, HereTasks) /\ InPlace(works, Spawned, Here)
    BY DEF FlowInv, CodeInv, Here, HereTasks
  <2>2. InPlace(work, Spawned + Len(works), Here)
    BY DEF FlowInv, IntakeInv, Ingesting, Here, Queued, Ends
  <2>3. InPlace(works \o work, Spawned, Here)
    BY <2>1, <2>2, PlaceJoin, Places2 DEF FlowInv, QueuesInv
  <2> QED BY <1>1, <1>2, <2>1, <2>3 DEF CodeInv, Here, HereTasks
<1> QED BY <1>3, <1>4, <1>5 DEF FlowInv

(* The row group is sent to the encoder. *)
LEMMA PassFlows ==
  ASSUME FlowInv, PlaceInv, OwnerInv, StageStep, IngestSend
  PROVE  FlowInv'
<1>1. ing \in {"send", "sendlast"} /\ enc \notin Ends
  BY DEF IngestSend, ing, enc, Ended
<1>2. /\ works' = works \o work /\ work' = <<>>
      /\ UNCHANGED <<pending, hand, encoded, group, file, total>>
  BY DEF IngestSend, EndIngestion, encVars, writeVars
<1>3. building = <<>> /\ building' = <<>> /\ analysed' = <<>>
  <2>1. building = <<>> /\ analysed = <<>>
    BY <1>1 DEF FlowInv, BuildInv
  <2>2. (building' = building /\ analysed' = analysed) \/ EndIngestion("ok")
    BY DEF IngestSend
  <2> QED BY <2>1, <2>2 DEF EndIngestion
<1>4. CASE ing = "send"
  <2> DEFINE w == IF rest = <<>> THEN "recv" ELSE "fill"
  <2>1. w \in Places /\ Goto("ingestion", w) /\ batches' = batches /\ rest' = rest
    BY <1>4 DEF IngestSend, Is, ing, Places
  <2>2. ing' = w /\ enc' = enc /\ wri' = wri
    <3> HIDE DEF w
    <3> QED BY <2>1, IngestionGoes
  <2>3. IntakeInv'
    <3> SUFFICES ASSUME Ingesting PROVE IntakeInv'
      BY <1>4, <2>2 DEF IntakeInv, Ingesting, Coding, Ends
    <3>1. Made' = Made /\ Queued' = Made
      BY <1>1, <1>2, PassPlaces DEF FlowInv
    <3>2. InPlace(work', Made, Here)
      BY <1>2, PlaceNone
    <3>3. Following(Edge(Made, GroupRows), building, rest, batches, accepted)
      BY <1>4 DEF FlowInv, IntakeInv
    <3>4. Here' = Here /\ accepted' = accepted /\ ing' # "sendlast"
      BY <2>2, SameStream
    <3> QED BY <1>3, <2>1, <3>1, <3>2, <3>3, <3>4 DEF IntakeInv, Here
  <2>4. BuildInv'
    <3>1. Len(building') < GroupRows /\ analyze' = analyze
      BY <1>3, IntakeTypes, SameStream
    <3> QED BY <1>3, <2>1, <2>2, <3>1 DEF FlowInv, BuildInv
  <2>5. EndInv'
    BY <2>2 DEF EndInv
  <2>6. batches' \in Seq(Seq(Nat)) /\ rest' \in Seq(Nat)
    BY <2>1 DEF FlowInv, QueuesInv
  <2> QED BY <1>1, <1>2, <1>3, <2>2, <2>3, <2>4, <2>5, <2>6, PassKeeps
<1>5. CASE ing = "sendlast"
  <2>1. EndIngestion("ok")
    BY <1>5 DEF IngestSend, Is, ing
  <2>2. ing' = "ok" /\ enc' = enc /\ wri' = wri
    BY <2>1, IngestionGoes DEF EndIngestion, Places, Ends
  <2>3. batches' = <<>> /\ rest' = <<>>
    BY <2>1 DEF EndIngestion
  <2>4. IntakeInv'
    BY <2>2 DEF IntakeInv, Ingesting, Ends
  <2>5. BuildInv'
    BY <1>3, <2>2 DEF BuildInv
  <2>6. EndInv'
    <3>1. Coding => accepted <= Edge(Made, GroupRows)
      BY <1>5 DEF FlowInv, IntakeInv, Ingesting, Ends
    <3>2. Queued' = Made
      BY <1>1, <1>2, PassPlaces DEF FlowInv
    <3>3. accepted' = accepted
      BY SameStream
    <3>4. Coding' <=> Coding
      BY <2>2 DEF Coding
    <3>5. enc' # "ok"
      BY <1>1, <2>2 DEF Ends
    <3> QED BY <3>1, <3>2, <3>3, <3>4, <3>5 DEF EndInv
  <2>7. batches' \in Seq(Seq(Nat)) /\ rest' \in Seq(Nat)
    BY <2>3
  <2> QED BY <1>1, <1>2, <1>3, <2>2, <2>4, <2>5, <2>6, <2>7, PassKeeps
<1> QED BY <1>1, <1>4, <1>5

(* The steps of the ingestion keep the rows in order. *)
LEMMA IngestionFlows ==
  ASSUME FlowInv, PlaceInv, OwnerInv, JobInv, StageStep, Ingestion
  PROVE  FlowInv'
<1>1. CASE IngestRecv
  BY <1>1, TakeFlows
<1>2. CASE IngestEof
  <2>1. ing = "recv" /\ batches = <<>> /\ ~InputOpen
    BY <1>2 DEF IngestEof, Is, ing
  <2>2. CASE building # <<>>
    BY <1>2, <2>2, LastFlows
  <2>3. CASE building = <<>>
    BY <1>2, <2>1, <2>3, EmptyFlows
  <2> QED BY <2>2, <2>3
<1>3. CASE IngestFill
  BY <1>3, FillFlows
<1>4. CASE MakeGroup
  BY <1>4, MakeFlows
<1>5. CASE IngestSend
  BY <1>5, PassFlows
<1>6. CASE IngestSendClosed
  <2>1. ing \notin Ends /\ enc \in Ends /\ EndIngestion("ok") /\ works' = works
    BY <1>6 DEF IngestSendClosed, ing, enc, Ended, Ends
  <2>2. ~Coding /\ "ok" \in Ends
    BY <2>1 DEF Coding, Ends
  <2> QED BY <2>1, <2>2, IngestionEndFlows
<1>7. CASE IngestFails
  <2>1. ing \notin Ends /\ EndIngestion("err") /\ works' = works
    BY <1>7 DEF IngestFails, ing, Ends, Is
  <2> QED BY <2>1, IngestionEndFlows DEF Ends
<1> QED BY <1>1, <1>2, <1>3, <1>4, <1>5, <1>6, <1>7 DEF Ingestion

(* The intake does not notice what the encoder and the writer do, while they
   go on. *)
LEMMA IntakeKeeps ==
  ASSUME FlowInv, StageStep, UNCHANGED <<batches, rest, building, analysed, work>>, ing' = ing,
         Coding' => Coding /\ Queued' = Queued
  PROVE  /\ BuildInv' /\ IntakeInv'
         /\ ing' = "ok" /\ Coding' => accepted' <= Edge(Queued', GroupRows)
<1>1. Here' = Here /\ accepted' = accepted /\ analyze' = analyze
  BY SameStream
<1>2. BuildInv'
  BY <1>1 DEF FlowInv, BuildInv
<1>3. IntakeInv'
  <2> SUFFICES ASSUME Coding', ing \notin Ends PROVE IntakeInv'
    BY DEF IntakeInv, Ingesting
  <2>1. Queued' = Queued /\ Made' = Made
    BY DEF Made
  <2>2. /\ InPlace(work, Queued, Here)
        /\ ing = "sendlast" => accepted <= Edge(Made, GroupRows)
        /\ ing # "sendlast" => Following(Edge(Made, GroupRows), building, rest, batches, accepted)
    BY DEF FlowInv, IntakeInv, Ingesting, Here
  <2> QED BY <1>1, <2>1, <2>2 DEF IntakeInv, Here
<1>4. ing' = "ok" /\ Coding' => accepted' <= Edge(Queued', GroupRows)
  BY <1>1 DEF FlowInv, EndInv
<1> QED BY <1>2, <1>3, <1>4

(* The encoder ends. *)
LEMMA EncoderEndFlows ==
  ASSUME FlowInv, PlaceInv, NEW how \in Ends, EndEncoder(how), StageStep,
         how = "ok" /\ ing = "ok" /\ wri \notin Ends \ {"ok"} =>
           accepted <= Edge(Encoded, GroupRows)
  PROVE  FlowInv'
<1>1. ing' = ing /\ enc' = how /\ wri' = wri
  BY EncoderGoes DEF EndEncoder, Places
<1>2. /\ UNCHANGED <<batches, rest, building, analysed, work, encoded, group, file, total>>
      /\ works' = <<>> /\ hand' = <<>>
  BY DEF EndEncoder, inVars, writeVars
<1>3. Here' = Here /\ accepted' = accepted /\ analyze' = analyze
  BY SameStream
<1>4. ~Coding' /\ Written' = Written /\ Encoded' = Encoded
  BY <1>1, <1>2 DEF Coding, Written, Encoded
<1>5. QueuesInv'
  BY <1>1, <1>2 DEF FlowInv, QueuesInv
<1>6. FileInv'
  BY <1>1, <1>2, <1>3, <1>4 DEF FlowInv, FileInv, Here
<1>7. CodeInv'
  BY <1>4 DEF CodeInv
<1>8. BuildInv' /\ IntakeInv'
  BY <1>1, <1>2, <1>4, IntakeKeeps
<1>9. EndInv'
  BY <1>1, <1>3, <1>4 DEF EndInv
<1> QED BY <1>5, <1>6, <1>7, <1>8, <1>9 DEF FlowInv

(* The rows that an encoder has been given when it ends well. *)
LEMMA EncoderDone ==
  ASSUME FlowInv, PlaceInv, enc = "select", works = <<>>, pending = <<>>,
         ing = "ok", wri \notin Ends \ {"ok"}
  PROVE  accepted <= Edge(Encoded, GroupRows)
<1>1. wri # "ok" /\ hand = <<>>
  BY DEF PlaceInv, Ends
<1>2. Coding
  BY <1>1 DEF Coding, Ends
<1>3. accepted <= Edge(Queued, GroupRows)
  BY <1>2 DEF FlowInv, EndInv
<1>4. Queued = Encoded
  <2>1. Len(works) = 0 /\ Len(pending) = 0 /\ Len(hand) = 0
    BY <1>1
  <2>2. Encoded \in Nat
    BY Places1 DEF FlowInv
  <2> QED BY <2>1, <2>2 DEF Queued, Spawned, Handed
<1> QED BY <1>3, <1>4

(* A row group is given to a task. *)
LEMMA SpawnFlows ==
  ASSUME FlowInv, PlaceInv, OwnerInv, StageStep, EncoderRecv
  PROVE  FlowInv'
<1>1. enc = "select" /\ ing' = ing /\ enc' = enc /\ wri' = wri
  BY NoneGoes DEF EncoderRecv, Is, enc
<1> DEFINE t == [group |-> Head(works), state |-> "running"]
<1>2. /\ UNCHANGED <<batches, rest, building, analysed, work, hand, encoded, group, file, total>>
      /\ works # <<>> /\ works' = Tail(works) /\ pending' = Append(pending, t)
  BY DEF EncoderRecv, inVars, writeVars
<1>3. /\ works \in Seq(Group) /\ Head(works) \in Group /\ works' \in Seq(Group)
      /\ Len(works) = 1 + Len(works') /\ Len(works') \in Nat
  BY <1>2, QueueHead DEF FlowInv, QueuesInv
<1>4. t \in Task /\ t.group = Head(works)
  BY <1>3 DEF Task
<1> HIDE DEF t
<1>5. /\ pending \in Seq(Task) /\ pending' \in Seq(Task) /\ Len(pending') = Len(pending) + 1
      /\ Len(pending) \in Nat
  <2>1. pending \in Seq(Task)
    BY <1>1 DEF FlowInv, QueuesInv, Ends
  <2> QED BY <1>2, <1>4, <2>1, QueueAppend
<1>6. /\ Written' = Written /\ Encoded' = Encoded /\ Handed' = Handed
      /\ Spawned' = Spawned + 1 /\ Queued' = Queued /\ Handed \in Nat /\ Spawned \in Nat
      /\ Spawned = Handed + Len(pending)
  <2>1. Written' = Written /\ Encoded' = Encoded /\ Handed' = Handed
    BY <1>2 DEF Written, Encoded, Handed
  <2>2. Handed \in Nat
    BY Places1 DEF FlowInv
  <2>3. Spawned' = Spawned + 1 /\ Spawned \in Nat /\ Spawned = Handed + Len(pending)
    BY <1>5, <2>1, <2>2 DEF Spawned
  <2>4. Queued' = Spawned + 1 + Len(works') /\ Queued = Spawned + Len(works)
    BY <2>3 DEF Queued
  <2>5. Queued' = Queued
    BY <1>3, <2>3, <2>4
  <2> QED BY <2>1, <2>2, <2>3, <2>5
<1>7. Here' = Here /\ HereTasks' = HereTasks /\ accepted' = accepted
  BY SameStream
<1>8. QueuesInv'
  BY <1>1, <1>2, <1>3, <1>5 DEF FlowInv, QueuesInv
<1>9. FileInv'
  BY <1>1, <1>2, <1>6, <1>7 DEF FlowInv, FileInv, Here
<1>10. CodeInv'
  <2> SUFFICES ASSUME Coding PROVE CodeInv'
    BY <1>1 DEF CodeInv, Coding
  <2>1. InPlace(hand, Encoded, Here) /\ InPlace(pending, Handed, HereTasks) /\ InPlace(works, Spawned, Here)
    BY DEF FlowInv, CodeInv, Here, HereTasks
  <2>2. <<Head(works), Spawned + 1>> \in Here /\ InPlace(Tail(works), Spawned + 1, Here)
    BY <1>2, <1>3, <1>6, <2>1, PlaceHead
  <2>3. <<t, Spawned + 1>> \in HereTasks
    BY <1>4, <1>6, <2>2 DEF Here, HereTasks, Tasks
  <2>4. InPlace(<<t>>, Handed + Len(pending), HereTasks)
    BY <1>6, <2>3, PlaceOne
  <2>5. InPlace(Append(pending, t), Handed, HereTasks)
    BY <1>4, <1>5, <1>6, <2>1, <2>4, PlaceAppend
  <2> QED BY <1>2, <1>6, <1>7, <2>1, <2>2, <2>5 DEF CodeInv, Here, HereTasks
<1>11. BuildInv' /\ IntakeInv' /\ (ing' = "ok" /\ Coding' => accepted' <= Edge(Queued', GroupRows))
  BY <1>1, <1>2, <1>6, IntakeKeeps DEF Coding
<1>12. EndInv'
  BY <1>1, <1>11 DEF EndInv
<1> QED BY <1>8, <1>9, <1>10, <1>11, <1>12 DEF FlowInv

(* A task ends. *)
LEMMA TaskFlows ==
  ASSUME FlowInv, PlaceInv, OwnerInv, StageStep, NEW i \in DOMAIN pending, EncodeEnds(i)
  PROVE  FlowInv'
<1>1. ing' = ing /\ enc' = enc /\ wri' = wri
  BY NoneGoes DEF EncodeEnds
<1>2. UNCHANGED <<batches, rest, building, analysed, work, works, hand, encoded, group, file, total>>
  BY DEF EncodeEnds, inVars, writeVars
<1>3. PICK end \in {"done", "broken"} : pending' = [pending EXCEPT ![i].state = end]
  BY DEF EncodeEnds
<1>4. Here' = Here /\ HereTasks' = HereTasks /\ accepted' = accepted
  BY SameStream
<1>5. enc \notin Ends => /\ pending \in Seq(Task) /\ pending' \in Seq(Task)
                         /\ Len(pending') = Len(pending)
                         /\ \A j \in 1..Len(pending) : pending'[j].group = pending[j].group
  <2> SUFFICES ASSUME pending \in Seq(Task)
               PROVE  /\ pending' \in Seq(Task) /\ Len(pending') = Len(pending)
                      /\ \A j \in 1..Len(pending) : pending'[j].group = pending[j].group
    BY DEF FlowInv, QueuesInv
  <2> DEFINE n == Len(pending)
  <2>1. n \in Nat /\ pending \in [1..n -> Task] /\ i \in 1..n
    OBVIOUS
  <2>2. pending[i] \in Task /\ [pending[i] EXCEPT !.state = end] \in Task
        /\ [pending[i] EXCEPT !.state = end].group = pending[i].group
    BY <2>1 DEF Task
  <2>3. pending' = [pending EXCEPT ![i] = [pending[i] EXCEPT !.state = end]]
    BY <1>3
  <2> DEFINE t == [pending[i] EXCEPT !.state = end]
  <2> HIDE DEF n, t
  <2>4. pending' \in [1..n -> Task] /\ \A j \in 1..n : pending'[j].group = pending[j].group
    BY <2>1, <2>2, <2>3 DEF t
  <2>5. pending' \in Seq(Task) /\ Len(pending') = n
    BY <2>1, <2>4
  <2> QED BY <2>4, <2>5 DEF n
<1>6. /\ Written' = Written /\ Encoded' = Encoded /\ Handed' = Handed
      /\ enc \notin Ends => Spawned' = Spawned /\ Queued' = Queued
  BY <1>2, <1>5 DEF Written, Encoded, Handed, Spawned, Queued
<1>7. QueuesInv'
  BY <1>1, <1>2, <1>5 DEF FlowInv, QueuesInv
<1>8. FileInv'
  BY <1>1, <1>2, <1>4, <1>6 DEF FlowInv, FileInv, Here
<1>9. CodeInv'
  <2> SUFFICES ASSUME Coding PROVE CodeInv'
    BY <1>1 DEF CodeInv, Coding
  <2>1. InPlace(hand, Encoded, Here) /\ InPlace(pending, Handed, HereTasks) /\ InPlace(works, Spawned, Here)
    BY DEF FlowInv, CodeInv, Here, HereTasks
  <2>2. /\ pending \in Seq(Task) /\ pending' \in Seq(Task) /\ Len(pending') = Len(pending)
        /\ \A j \in 1..Len(pending) : pending'[j].group = pending[j].group
        /\ Spawned' = Spawned
    BY <1>5, <1>6 DEF Coding
  <2>3. \A j \in 1..Len(pending') : <<pending'[j], Handed + j>> \in HereTasks
    <3>1. TAKE j \in 1..Len(pending')
    <3>2. <<pending[j], Handed + j>> \in HereTasks /\ pending'[j].group = pending[j].group /\ pending'[j] \in Task
      BY <2>1, <2>2 DEF InPlace
    <3> QED BY <3>2 DEF HereTasks, Tasks
  <2>4. InPlace(pending', Handed, HereTasks)
    BY <2>3 DEF InPlace
  <2> QED BY <1>2, <1>4, <1>6, <2>1, <2>2, <2>4 DEF CodeInv, Here, HereTasks
<1>10. BuildInv' /\ IntakeInv' /\ (ing' = "ok" /\ Coding' => accepted' <= Edge(Queued', GroupRows))
  BY <1>1, <1>2, <1>6, IntakeKeeps DEF Coding
<1>11. EndInv'
  BY <1>1, <1>4, <1>6, <1>10 DEF FlowInv, EndInv
<1> QED BY <1>7, <1>8, <1>9, <1>10, <1>11 DEF FlowInv

(* The first task's row group is taken. *)
LEMMA NextFlows ==
  ASSUME FlowInv, PlaceInv, OwnerInv, StageStep, enc = "select", pending # <<>>,
         hand' = <<pending[1].group>>, pending' = RemoveAt(pending, 1), Goto("encoder", "send"),
         UNCHANGED <<batches, inVars, works, encoded, writeVars>>
  PROVE  FlowInv'
<1>1. ing' = ing /\ enc' = "send" /\ wri' = wri
  BY EncoderGoes DEF Places
<1>2. UNCHANGED <<batches, rest, building, analysed, work, works, encoded, group, file, total>>
  BY DEF inVars, writeVars
<1>3. /\ pending \in Seq(Task) /\ Head(pending) \in Task /\ pending' = Tail(pending)
      /\ pending' \in Seq(Task) /\ Len(pending) = 1 + Len(pending') /\ Len(pending') \in Nat
      /\ hand' = <<Head(pending).group>>
  <2>1. pending \in Seq(Task)
    BY DEF FlowInv, QueuesInv, Ends
  <2>2. pending' = Tail(pending) /\ pending[1] = Head(pending)
    BY <2>1, FirstRemoved
  <2>3. Head(pending) \in Task /\ Tail(pending) \in Seq(Task) /\ Len(pending) = 1 + Len(Tail(pending))
        /\ Len(Tail(pending)) \in Nat
    BY <2>1, QueueHead
  <2> QED BY <2>1, <2>2, <2>3
<1> DEFINE g == Head(pending).group
<1>4. g \in Group /\ hand' = <<g>>
  BY <1>3 DEF Task
<1> HIDE DEF g
<1>5. hand' \in Seq(Group) /\ Len(hand') = 1 /\ Len(hand) = 0
  <2>1. hand = <<>>
    BY DEF PlaceInv
  <2> QED BY <1>4, <2>1
<1>6. /\ Written' = Written /\ Encoded' = Encoded /\ Handed = Encoded /\ Handed' = Encoded + 1
      /\ Spawned' = Spawned /\ Queued' = Queued /\ Encoded \in Nat
  <2>1. Written' = Written /\ Encoded' = Encoded
    BY <1>2 DEF Written, Encoded
  <2>2. Encoded \in Nat
    BY Places1 DEF FlowInv
  <2>3. Handed = Encoded /\ Handed' = Encoded + 1
    BY <1>5, <2>1, <2>2 DEF Handed
  <2>4. Spawned = Encoded + Len(pending) /\ Spawned' = Encoded + 1 + Len(pending')
    BY <2>3 DEF Spawned
  <2>5. Spawned' = Spawned
    BY <1>3, <2>2, <2>4
  <2>6. Queued' = Queued
    BY <1>2, <2>5 DEF Queued
  <2> QED BY <2>1, <2>2, <2>3, <2>5, <2>6
<1>7. Here' = Here /\ HereTasks' = HereTasks /\ accepted' = accepted
  BY SameStream
<1>8. QueuesInv'
  BY <1>1, <1>2, <1>3, <1>5 DEF FlowInv, QueuesInv
<1>9. FileInv'
  BY <1>1, <1>2, <1>6, <1>7 DEF FlowInv, FileInv, Here
<1>10. CodeInv'
  <2> SUFFICES ASSUME Coding PROVE CodeInv'
    BY <1>1 DEF CodeInv, Coding, Ends
  <2>1. InPlace(pending, Encoded, HereTasks) /\ InPlace(works, Spawned, Here)
    BY <1>6 DEF FlowInv, CodeInv, Here, HereTasks
  <2>2. <<Head(pending), Encoded + 1>> \in HereTasks /\ InPlace(Tail(pending), Encoded + 1, HereTasks)
    BY <1>3, <1>6, <2>1, PlaceHead
  <2>3. <<g, Encoded + 1>> \in Here
    BY <2>2 DEF HereTasks, Tasks, Here, g
  <2>4. InPlace(<<g>>, Encoded, Here)
    BY <1>6, <2>3, PlaceOne
  <2> QED BY <1>2, <1>3, <1>4, <1>6, <1>7, <2>1, <2>2, <2>4 DEF CodeInv, Here, HereTasks
<1>11. Coding' => Coding
  BY <1>1 DEF Coding, Ends
<1>12. BuildInv' /\ IntakeInv' /\ (ing' = "ok" /\ Coding' => accepted' <= Edge(Queued', GroupRows))
  BY <1>1, <1>2, <1>6, <1>11, IntakeKeeps
<1>13. EndInv'
  BY <1>1, <1>12 DEF EndInv
<1> QED BY <1>8, <1>9, <1>10, <1>12, <1>13 DEF FlowInv

(* The row group is sent to the writer. *)
LEMMA SendFlows ==
  ASSUME FlowInv, PlaceInv, OwnerInv, StageStep, EncoderSend
  PROVE  FlowInv'
<1>1. enc = "send" /\ wri \notin Ends /\ ing' = ing /\ enc' = "select" /\ wri' = wri
  BY EncoderGoes DEF EncoderSend, Places, Is, Ended, enc, wri
<1>2. /\ UNCHANGED <<batches, rest, building, analysed, work, works, pending, group, file, total>>
      /\ encoded' = encoded \o hand /\ hand' = <<>>
  BY DEF EncoderSend, inVars, writeVars
<1>3. /\ encoded \in Seq(Group) /\ hand \in Seq(Group) /\ encoded' \in Seq(Group)
      /\ Len(encoded') = Len(encoded) + Len(hand) /\ hand' \in Seq(Group) /\ Len(hand') = 0
  <2>1. encoded \in Seq(Group) /\ hand \in Seq(Group)
    BY DEF FlowInv, QueuesInv
  <2> QED BY <1>2, <2>1, QueueJoin
<1>4. /\ Written' = Written /\ Encoded' = Handed /\ Handed' = Handed
      /\ Spawned' = Spawned /\ Queued' = Queued
      /\ Handed \in Nat /\ Encoded \in Nat /\ Written \in Nat /\ Encoded = Written + Len(encoded)
  <2>1. Written' = Written
    BY <1>2 DEF Written
  <2>2. /\ Written \in Nat /\ Len(encoded) \in Nat /\ Len(hand) \in Nat
        /\ Encoded \in Nat /\ Handed \in Nat
    BY Places1 DEF FlowInv
  <2>3. Encoded' = Written + (Len(encoded) + Len(hand))
    BY <1>3, <2>1 DEF Encoded
  <2>4. Handed = Written + Len(encoded) + Len(hand)
    BY DEF Encoded, Handed
  <2>5. Encoded' = Handed
    BY <2>2, <2>3, <2>4
  <2>6. Handed' = Handed + 0
    <3>1. Handed' = Encoded' + Len(hand')
      BY DEF Handed
    <3> QED BY <1>3, <2>5, <3>1
  <2>7. Handed' = Handed
    BY <2>2, <2>6
  <2>8. Spawned' = Spawned /\ Queued' = Queued
    BY <1>2, <2>7 DEF Spawned, Queued
  <2> QED BY <2>1, <2>2, <2>5, <2>7, <2>8 DEF Encoded
<1>5. Here' = Here /\ HereTasks' = HereTasks /\ accepted' = accepted
  BY SameStream
<1>6. QueuesInv'
  BY <1>1, <1>2, <1>3 DEF FlowInv, QueuesInv, Ends
<1>7. Coding /\ Coding'
  BY <1>1 DEF Coding, Ends
<1>8. InPlace(hand, Encoded, Here) /\ InPlace(pending, Handed, HereTasks) /\ InPlace(works, Spawned, Here)
  BY <1>7 DEF FlowInv, CodeInv, Here, HereTasks
<1>9. FileInv'
  <2>1. InPlace(encoded, Written, Here)
    BY DEF FlowInv, FileInv, Here
  <2>2. InPlace(encoded \o hand, Written, Here)
    BY <1>3, <1>4, <1>8, <2>1, PlaceJoin
  <2> QED BY <1>1, <1>2, <1>4, <1>5, <2>2 DEF FlowInv, FileInv, Here
<1>10. CodeInv'
  <2>1. InPlace(hand', Handed, Here)
    BY <1>2, PlaceNone
  <2> QED BY <1>2, <1>4, <1>5, <1>8, <2>1 DEF CodeInv, Here, HereTasks
<1>11. BuildInv' /\ IntakeInv' /\ (ing' = "ok" /\ Coding' => accepted' <= Edge(Queued', GroupRows))
  BY <1>1, <1>2, <1>4, <1>7, IntakeKeeps
<1>12. EndInv'
  BY <1>1, <1>11 DEF EndInv
<1> QED BY <1>6, <1>9, <1>10, <1>11, <1>12 DEF FlowInv

(* The steps of the encoder and its tasks keep the rows in order. *)
LEMMA EncoderFlows ==
  ASSUME FlowInv, PlaceInv, OwnerInv, StageStep, Encoder \/ EncodeTask
  PROVE  FlowInv'
<1>1. CASE EncoderRecv
  BY <1>1, SpawnFlows
<1>2. CASE EncoderNext
  <2>1. pending # <<>> /\ enc = "select"
    BY <1>2 DEF EncoderNext, NextEncoded, Is, enc
  <2>2. \/ /\ hand' = <<pending[1].group>> /\ pending' = RemoveAt(pending, 1)
           /\ Goto("encoder", "send") /\ UNCHANGED <<batches, inVars, works, encoded, writeVars>>
        \/ EndEncoder("err")
    BY <1>2, <2>1 DEF EncoderNext, NextEncoded
  <2>3. CASE EndEncoder("err")
    BY <2>3, EncoderEndFlows DEF Ends
  <2> QED BY <2>1, <2>2, <2>3, NextFlows
<1>3. CASE EncoderSend
  BY <1>3, SendFlows
<1>4. CASE EncoderSendClosed
  BY <1>4, EncoderEndFlows DEF EncoderSendClosed, Ends
<1>5. CASE EncoderEof
  <2>1. enc = "select" /\ works = <<>> /\ pending = <<>> /\ EndEncoder("ok")
    BY <1>5 DEF EncoderEof, Is, enc
  <2>2. ing = "ok" /\ wri \notin Ends \ {"ok"} => accepted <= Edge(Encoded, GroupRows)
    BY <2>1, EncoderDone
  <2>3. "ok" \in Ends
    BY DEF Ends
  <2> QED BY <2>1, <2>2, <2>3, EncoderEndFlows
<1>6. CASE EncodeTask
  BY <1>6, TaskFlows DEF EncodeTask
<1> QED BY <1>1, <1>2, <1>3, <1>4, <1>5, <1>6 DEF Encoder

(* The writer ends badly. *)
LEMMA WriterEndFlows ==
  ASSUME FlowInv, PlaceInv, StageStep, wri' \in {"err", "cancelled"}, ing' = ing, enc' = enc,
         stage' \in [Stages -> Places], encoded' = <<>>, group' \in {group, <<>>},
         UNCHANGED <<batches, inVars, works, encVars, file, total>>
  PROVE  FlowInv'
<1>1. UNCHANGED <<batches, rest, building, analysed, work, works, pending, hand, file, total>>
  BY DEF inVars, encVars
<1>2. ~Coding' /\ wri' \in Ends \ {"ok"}
  BY DEF Coding, Ends
<1>3. Here' = Here /\ accepted' = accepted
  BY SameStream
<1>4. QueuesInv'
  <2>1. group \in Seq(Group)
    BY DEF FlowInv, QueuesInv
  <2>2. encoded' \in Seq(Group) /\ group' \in Seq(Group)
    <3>1. <<>> \in Seq(Group)
      OBVIOUS
    <3> QED BY <2>1, <3>1, Zenon
  <2>3. total \in Nat /\ enc' = enc
    BY DEF FlowInv, QueuesInv
  <2> QED BY <1>1, <2>2, <2>3 DEF FlowInv, QueuesInv
<1>5. FileInv'
  <2>1. InPlace(file, 0, Here) /\ InPlace(group, Len(file), Here)
    BY DEF FlowInv, FileInv, Here
  <2>2. InPlace(group', Len(file), Here) /\ InPlace(encoded', Written', Here)
    BY <2>1, PlaceNone
  <2> QED BY <1>1, <1>2, <1>3, <2>1, <2>2 DEF FileInv, Here
<1>6. CodeInv'
  BY <1>2 DEF CodeInv
<1>7. BuildInv' /\ IntakeInv'
  BY <1>1, <1>2, IntakeKeeps
<1>8. EndInv'
  BY <1>2 DEF EndInv
<1> QED BY <1>4, <1>5, <1>6, <1>7, <1>8 DEF FlowInv

(* The writer takes a row group. *)
LEMMA RecvFlows ==
  ASSUME FlowInv, PlaceInv, OwnerInv, StageStep, WriterRecv
  PROVE  FlowInv'
<1>1. wri = "recv" /\ ing' = ing /\ enc' = enc /\ wri' = "group"
  BY WriterGoes DEF WriterRecv, Places, Is, wri
<1>2. /\ UNCHANGED <<batches, rest, building, analysed, work, works, pending, hand, file>>
      /\ encoded # <<>> /\ encoded' = Tail(encoded) /\ group' = <<Head(encoded)>>
      /\ total' = total + Len(Head(encoded).rows)
  BY DEF WriterRecv, inVars, encVars
<1> DEFINE g == Head(encoded)
           k == Written
<1>3. /\ encoded \in Seq(Group) /\ g \in Group /\ encoded' \in Seq(Group)
      /\ Len(encoded) = 1 + Len(encoded') /\ Len(encoded') \in Nat
      /\ group' \in Seq(Group) /\ Len(group') = 1 /\ Len(group) = 0 /\ Len(file) \in Nat
  <2>1. encoded \in Seq(Group) /\ Len(file) \in Nat
    BY Places1 DEF FlowInv, QueuesInv
  <2>2. group = <<>>
    BY <1>1 DEF PlaceInv, Ends
  <2> QED BY <1>2, <2>1, <2>2, QueueHead
<1>4. k = Len(file) /\ Written' = k + 1 /\ Encoded' = Encoded /\ k \in Nat
  <2>1. k = Len(file) /\ Written' = k + 1 /\ k \in Nat
    BY <1>2, <1>3 DEF Written
  <2>2. Encoded' = k + 1 + Len(encoded') /\ Encoded = k + Len(encoded)
    BY <2>1 DEF Encoded
  <2> QED BY <1>3, <2>1, <2>2
<1>5. Handed' = Handed /\ Spawned' = Spawned /\ Queued' = Queued
  BY <1>2, <1>4 DEF Handed, Spawned, Queued
<1>6. Here' = Here /\ HereTasks' = HereTasks /\ accepted' = accepted
  BY SameStream
<1> HIDE DEF g, k
<1>7. <<g, k + 1>> \in Here /\ InPlace(<<g>>, k, Here) /\ InPlace(encoded', k + 1, Here)
  <2>1. InPlace(encoded, k, Here)
    BY DEF FlowInv, FileInv, Here, k
  <2> QED BY <1>2, <1>3, <1>4, <2>1, PlaceHead DEF g
<1>8. g.rows \in Seq(Nat) /\ Upto(k + 1, GroupRows, accepted) = Upto(k, GroupRows, accepted) + Len(g.rows)
  <2>1. IsPiece(g.rows, k + 1, GroupRows, accepted, Open)
    BY <1>7 DEF Here, Groups
  <2> QED BY <1>4, <2>1, IntakeTypes, PieceLen
<1>9. total \in Nat /\ total' \in Nat /\ total' = Upto(Written', GroupRows, accepted)
  <2>1. total \in Nat /\ total = Upto(k, GroupRows, accepted)
    BY <1>1 DEF FlowInv, QueuesInv, FileInv, k, Ends
  <2> QED BY <1>2, <1>4, <1>8, <2>1 DEF g
<1>10. QueuesInv'
  BY <1>1, <1>2, <1>3, <1>9 DEF FlowInv, QueuesInv
<1>11. FileInv'
  <2>1. InPlace(file, 0, Here) /\ InPlace(group', Len(file), Here) /\ InPlace(encoded', Written', Here)
    BY <1>2, <1>4, <1>7 DEF FlowInv, FileInv, Here, g
  <2> QED BY <1>2, <1>6, <1>9, <2>1 DEF FileInv, Here
<1>12. Coding' <=> Coding
  BY <1>1 DEF Coding, Ends
<1>13. CodeInv'
  BY <1>2, <1>4, <1>5, <1>6, <1>12 DEF FlowInv, CodeInv, Here, HereTasks
<1>14. BuildInv' /\ IntakeInv' /\ (ing' = "ok" /\ Coding' => accepted' <= Edge(Queued', GroupRows))
  BY <1>1, <1>2, <1>5, <1>12, IntakeKeeps
<1>15. EndInv'
  BY <1>1, <1>4, <1>6, <1>14 DEF FlowInv, EndInv, Ends
<1> QED BY <1>10, <1>11, <1>13, <1>14, <1>15 DEF FlowInv

(* The row group is written, or the file is closed, or begins to be. *)
LEMMA WrittenFlows ==
  ASSUME FlowInv, PlaceInv, OwnerInv, StageStep, WriteTaskOk \/ WriterEof
  PROVE  FlowInv'
<1>1. /\ ing' = ing /\ enc' = enc
      /\ wri' \in Ends \ {"ok"} => wri' = wri
      /\ wri' = "ok" => wri \notin Ends \ {"ok"}
      /\ wri' \in Ends \/ wri \notin Ends
  <2>1. CASE WriteTaskOk
    <3>1. CASE Ended("writer")
      <4>1. stage' = stage
        BY <2>1, <3>1 DEF WriteTaskOk, Is, Ended, Ends
      <4> QED BY <3>1, <4>1 DEF ing, enc, wri, Ended
    <3>2. CASE ~Ended("writer")
      <4> DEFINE w == IF wri = "group" THEN "recv" ELSE "ok"
      <4>1. w \in Places /\ Goto("writer", w)
        BY <2>1, <3>2 DEF WriteTaskOk, Goto, Is, wri, Places, Ends
      <4> HIDE DEF w
      <4>2. ing' = ing /\ enc' = enc /\ wri' = w /\ wri \notin Ends
        BY <3>2, <4>1, WriterGoes DEF wri, Ended
      <4> QED BY <4>2 DEF w, Ends
    <3> QED BY <3>1, <3>2
  <2>2. CASE WriterEof
    <3>1. wri = "recv" /\ ing' = ing /\ enc' = enc /\ wri' = "close"
      BY <2>2, WriterGoes DEF WriterEof, Places, Is, wri
    <3> QED BY <3>1 DEF Ends
  <2> QED BY <2>1, <2>2
<1>2. /\ UNCHANGED <<batches, rest, building, analysed, work, works, pending, hand, encoded, total>>
      /\ \/ file' = file \o group /\ group' = <<>>
         \/ file' = file /\ group' = group
  <2>1. writing # "group" => group = <<>>
    BY DEF PlaceInv
  <2> QED BY <2>1 DEF WriteTaskOk, WriterEof, inVars, encVars
<1>3. file \in Seq(Group) /\ group \in Seq(Group) /\ Len(file) \in Nat /\ Len(group) \in Nat
  BY Places1 DEF FlowInv, QueuesInv
<1>4. file' \in Seq(Group) /\ group' \in Seq(Group) /\ Written' = Written
  <2>1. CASE file' = file /\ group' = group
    BY <1>3, <2>1 DEF Written
  <2>2. CASE file' = file \o group /\ group' = <<>>
    <3>1. file' \in Seq(Group) /\ Len(file') = Len(file) + Len(group)
      BY <1>3, <2>2, QueueJoin
    <3>2. Len(group') = 0 /\ group' \in Seq(Group)
      BY <2>2
    <3>3. Written' = Len(file) + Len(group) + 0
      <4>1. Written' = Len(file') + Len(group')
        BY DEF Written
      <4> QED BY <3>1, <3>2, <4>1
    <3> QED BY <1>3, <3>1, <3>2, <3>3 DEF Written
  <2> QED BY <1>2, <2>1, <2>2
<1>5. Encoded' = Encoded /\ Handed' = Handed /\ Spawned' = Spawned /\ Queued' = Queued
  BY <1>2, <1>4 DEF Encoded, Handed, Spawned, Queued
<1>6. Here' = Here /\ HereTasks' = HereTasks /\ accepted' = accepted
  BY SameStream
<1>7. QueuesInv'
  BY <1>1, <1>2, <1>4 DEF FlowInv, QueuesInv
<1>8. InPlace(file', 0, Here) /\ InPlace(group', Len(file'), Here)
  <2>1. InPlace(file, 0, Here) /\ InPlace(group, Len(file), Here)
    BY DEF FlowInv, FileInv, Here
  <2>2. CASE file' = file /\ group' = group
    BY <2>1, <2>2
  <2>3. CASE file' = file \o group /\ group' = <<>>
    <3>1. InPlace(group, 0 + Len(file), Here)
      BY <1>3, <2>1
    <3>2. InPlace(file \o group, 0, Here)
      BY <1>3, <2>1, <3>1, PlaceJoin
    <3> QED BY <2>3, <3>2, PlaceNone
  <2> QED BY <1>2, <2>2, <2>3
<1>9. FileInv'
  <2>1. InPlace(encoded, Written, Here)
    BY DEF FlowInv, FileInv, Here
  <2>2. wri' \notin Ends \ {"ok"} => total = Upto(Written, GroupRows, accepted)
    BY <1>1 DEF FlowInv, FileInv, Ends
  <2> QED BY <1>2, <1>4, <1>6, <1>8, <2>1, <2>2 DEF FileInv, Here
<1>10. Coding' => Coding
  BY <1>1 DEF Coding
<1>11. CodeInv'
  BY <1>2, <1>4, <1>5, <1>6, <1>10 DEF FlowInv, CodeInv, Here, HereTasks
<1>12. BuildInv' /\ IntakeInv' /\ (ing' = "ok" /\ Coding' => accepted' <= Edge(Queued', GroupRows))
  BY <1>1, <1>2, <1>5, <1>10, IntakeKeeps
<1>13. EndInv'
  BY <1>1, <1>5, <1>6, <1>12 DEF FlowInv, EndInv, Ends
<1> QED BY <1>7, <1>9, <1>11, <1>12, <1>13 DEF FlowInv

(* The write fails. *)
LEMMA WriteFailsFlows ==
  ASSUME FlowInv, PlaceInv, StageStep, WriteTaskFails
  PROVE  FlowInv'
<1>1. /\ UNCHANGED <<batches, inVars, works, encVars, file, total>>
      /\ writing # "none" /\ group' = <<>>
  BY DEF WriteTaskFails
<1>2. CASE Ended("writer")
  <2>1. stage' = stage /\ encoded' = encoded /\ wri \in Ends
    BY <1>2 DEF WriteTaskFails, Ended, wri
  <2>2. wri \in {"err", "cancelled"} /\ encoded = <<>> /\ stage \in [Stages -> Places]
    BY <1>1, <2>1 DEF PlaceInv, Ends
  <2>3. ing' = ing /\ enc' = enc /\ wri' = wri
    BY <2>1 DEF ing, enc, wri
  <2> QED BY <1>1, <2>1, <2>2, <2>3, WriterEndFlows
<1>3. CASE ~Ended("writer")
  <2>1. Goto("writer", "err") /\ encoded' = <<>>
    BY <1>3 DEF WriteTaskFails
  <2>2. stage' \in [Stages -> Places] /\ ing' = ing /\ enc' = enc /\ wri' = "err"
    BY <2>1, WriterGoes DEF Places, Ends
  <2> QED BY <1>1, <2>1, <2>2, WriterEndFlows
<1> QED BY <1>2, <1>3

(* The steps of the writer and its tasks keep the rows in order. *)
LEMMA WriterFlows ==
  ASSUME FlowInv, PlaceInv, OwnerInv, StageStep, Writer \/ WriteTask
  PROVE  FlowInv'
BY RecvFlows, WrittenFlows, WriteFailsFlows DEF Writer, WriteTask

(* A stage is cancelled. *)
LEMMA CancelFlows ==
  ASSUME FlowInv, PlaceInv, OwnerInv, StageStep, StageCancelled
  PROVE  FlowInv'
<1>1. CASE ~Ended("ingestion") /\ EndIngestion("cancelled") /\ works' = works
  <2>1. ing \notin Ends
    BY <1>1 DEF Ended, ing
  <2> QED BY <1>1, <2>1, IngestionEndFlows DEF Ends
<1>2. CASE EndEncoder("cancelled")
  BY <1>2, EncoderEndFlows DEF Ends
<1>3. CASE /\ Goto("writer", "cancelled") /\ encoded' = <<>>
           /\ UNCHANGED <<ownerVars, token, batches, inVars, works, encVars, writeVars, taskVars, upload>>
  <2>1. stage' \in [Stages -> Places] /\ ing' = ing /\ enc' = enc /\ wri' = "cancelled"
    BY <1>3, WriterGoes DEF Places, Ends
  <2> QED BY <1>3, <2>1, WriterEndFlows DEF writeVars
<1> QED BY <1>1, <1>2, <1>3 DEF StageCancelled

(* The end of an analysis changes nothing of the rows. *)
LEMMA AnalysisFlows ==
  ASSUME FlowInv, OwnerInv, StageStep, AnalysisEnds
  PROVE  FlowInv'
<1>1. accepted \in Nat /\ Quieter /\ analyze' = analyze
  BY SameStream DEF OwnerInv, Quieter
<1>2. UNCHANGED <<batches, rest, building, analysed, work, works, pending, hand, encoded,
                  group, file, total, stage>>
  BY DEF AnalysisEnds, encVars, writeVars
<1> QED BY <1>1, <1>2, FlowStays

(* Nor does the settlement. *)
LEMMA SettleFlows ==
  ASSUME FlowInv, OwnerInv, Settle
  PROVE  FlowInv'
<1>1. accepted \in Nat /\ Quieter /\ analyze' = analyze
  BY DEF OwnerInv, Quieter, Open, Settle, Start, JoinStage, PipeEnds, ownerVars
<1>2. UNCHANGED <<batches, rest, building, analysed, work, works, pending, hand, encoded,
                  group, file, total, stage>>
  BY DEF Settle, Start, JoinStage, PipeEnds, inVars, encVars, writeVars
<1> QED BY <1>1, <1>2, FlowStays

(* The steps of the stages keep the rows in order. *)
LEMMA StageFlows ==
  ASSUME FlowInv, PlaceInv, OwnerInv, JobInv, StageStep, StageAct
  PROVE  FlowInv'
BY IngestionFlows, EncoderFlows, WriterFlows, CancelFlows, AnalysisFlows DEF StageAct

(* Nor do the owner and the upload. *)
LEMMA OwnerFlows ==
  ASSUME FlowInv, OwnerInv, OwnerStep, UNCHANGED pipelineVars
  PROVE  FlowInv'
<1>1. accepted \in Nat /\ Quieter
  BY DEF OwnerInv, Quieter, OwnerStep
<1>2. UNCHANGED <<batches, rest, building, analysed, work, works, pending, hand, encoded,
                  group, file, total, stage, analyze>>
  BY DEF pipelineVars, inVars, encVars, writeVars
<1> QED BY <1>1, <1>2, FlowStays

(* A stream that goes on has filled the row groups in the file. *)
LEMMA FilledWhileOpen ==
  ASSUME FlowInv, OwnerInv, Open
  PROVE  Edge(Written, GroupRows) <= accepted
<1>1. /\ Len(file) \in Nat /\ Len(group) \in Nat /\ accepted \in Nat /\ GroupRows \in Nat
      /\ Written = Len(file) + Len(group)
  BY Places1, SinkAssumption DEF FlowInv, OwnerInv, Written
<1>2. InPlace(file, 0, Here) /\ InPlace(group, Len(file), Here)
  BY DEF FlowInv, FileInv, Here
<1>3. CASE Len(group) # 0
  <2>1. <<group[Len(group)], Len(file) + Len(group)>> \in Here
    BY <1>1, <1>2, <1>3 DEF InPlace
  <2> QED BY <1>1, <2>1 DEF Here, Groups, IsPiece
<1>4. CASE Len(group) = 0 /\ Len(file) # 0
  <2>1. <<file[Len(file)], 0 + Len(file)>> \in Here
    BY <1>1, <1>2, <1>4 DEF InPlace
  <2>2. 0 + Len(file) = Written
    BY <1>1, <1>4
  <2> QED BY <2>1, <2>2 DEF Here, Groups, IsPiece
<1>5. CASE Len(group) = 0 /\ Len(file) = 0
  <2>1. Written = 0 /\ Edge(0, GroupRows) = 0
    BY <1>1, <1>5, EdgeZero
  <2> QED BY <1>1, <2>1
<1> QED BY <1>1, <1>3, <1>4, <1>5

(* A batch is written. *)
LEMMA BatchFlows ==
  ASSUME FlowInv, PlaceInv, OwnerInv, WriteBatch
  PROVE  FlowInv'
<1>1. PICK n \in BatchRows :
        /\ batches' = Append(batches, [i \in 1..n |-> accepted + i])
        /\ accepted' = accepted + n
  BY DEF WriteBatch
<1>2. /\ UNCHANGED <<caller, rest, building, analysed, work, works, pending, hand, encoded,
                     group, file, total, stage, analyze>>
      /\ Open /\ ing \notin Ends /\ InputOpen
  BY DEF WriteBatch, Open, Receiving, Ended, ing, InputOpen, Unfinished, inVars, encVars,
         writeVars, taskVars
<1>3. /\ n \in Nat \ {0} /\ accepted \in Nat /\ accepted' \in Nat /\ accepted <= accepted'
      /\ GroupRows \in Nat \ {0}
  BY <1>1, TaskAssumption, SinkAssumption DEF OwnerInv
<1>4. /\ ing' = ing /\ enc' = enc /\ wri' = wri /\ Open'
      /\ Written' = Written /\ Encoded' = Encoded /\ Handed' = Handed
      /\ Spawned' = Spawned /\ Queued' = Queued /\ Made' = Made
      /\ (Coding' <=> Coding) /\ (Ingesting' <=> Ingesting)
  BY <1>2 DEF ing, enc, wri, Open, Written, Encoded, Handed, Spawned, Queued, Made, Coding, Ingesting
<1>5. batches \in Seq(Seq(Nat)) /\ batches' = Append(batches, Span(accepted, accepted + n))
      /\ batches' \in Seq(Seq(Nat))
  <2>1. [i \in 1..n |-> accepted + i] = Span(accepted, accepted + n)
    <3> DEFINE k == accepted + n
    <3>1. k - accepted = n
      BY <1>3
    <3> HIDE DEF k
    <3>2. Span(accepted, k) = [i \in 1..(k - accepted) |-> accepted + i]
      BY DEF Span
    <3> QED BY <3>1, <3>2 DEF k
  <2>2. Span(accepted, accepted + n) \in Seq(Nat)
    <3>1. accepted <= accepted + n /\ accepted + n \in Nat
      BY <1>3
    <3> QED BY <1>3, <3>1, SpanType
  <2>3. batches \in Seq(Seq(Nat))
    BY DEF FlowInv, QueuesInv
  <2> QED BY <1>1, <2>1, <2>2, <2>3, QueueAppend
<1>6. /\ Groups(accepted, Open, analyze) \subseteq Groups(accepted, Open, analyze)'
      /\ Tasks(accepted, Open, analyze) \subseteq Tasks(accepted, Open, analyze)'
  <2> DEFINE m == accepted'
  <2>1. m \in Nat /\ accepted <= m
    BY <1>3
  <2> HIDE DEF m
  <2>2. /\ Groups(accepted, TRUE, analyze) \subseteq Groups(m, TRUE, analyze)
        /\ Tasks(accepted, TRUE, analyze) \subseteq Tasks(m, TRUE, analyze)
    BY <1>3, <2>1, GroupsStay
  <2>3. Open = TRUE /\ Open' = TRUE /\ analyze' = analyze
    BY <1>2, <1>4 DEF Open
  <2> QED BY <2>2, <2>3 DEF m, Groups, Tasks
<1>7. QueuesInv'
  BY <1>2, <1>4, <1>5 DEF FlowInv, QueuesInv
<1>8. FileInv'
  <2>1. Edge(Written, GroupRows) <= accepted /\ Edge(Written, GroupRows) \in Nat
    BY <1>2, <1>3, FilledWhileOpen, Places1, EdgeType DEF FlowInv
  <2>2. Upto(Written, GroupRows, accepted') = Upto(Written, GroupRows, accepted)
    BY <1>3, <2>1 DEF Upto
  <2>3. wri' \notin Ends \ {"ok"} => total' = Upto(Written, GroupRows, accepted')
    BY <1>2, <1>4, <2>2 DEF FlowInv, FileInv
  <2> QED BY <1>2, <1>4, <1>6, <2>3, PlaceMore DEF FlowInv, FileInv
<1>9. CodeInv'
  BY <1>2, <1>4, <1>6, PlaceMore DEF FlowInv, CodeInv
<1>10. ing \notin {"last", "sendlast"}
  BY <1>2 DEF PlaceInv
<1>11. BuildInv'
  BY <1>2, <1>4, <1>10 DEF FlowInv, BuildInv
<1>12. IntakeInv'
  <2> SUFFICES ASSUME Ingesting PROVE IntakeInv'
    BY <1>4 DEF IntakeInv
  <2>1. /\ InPlace(work, Queued, Groups(accepted, Open, analyze))
        /\ Following(Edge(Made, GroupRows), building, rest, batches, accepted)
    BY <1>10 DEF FlowInv, IntakeInv
  <2>2. Following(Edge(Made, GroupRows), building, rest, batches', accepted')
    <3>1. Edge(Made, GroupRows) \in Nat
      BY IntakeTypes DEF Ingesting, Coding
    <3>2. Following(Edge(Made, GroupRows), building, rest, Append(batches, Span(accepted, accepted + n)), accepted + n)
      BY <1>3, <1>5, <2>1, <3>1, FollowingAppend
    <3> QED BY <1>1, <1>5, <3>2
  <2> QED BY <1>2, <1>4, <1>6, <1>10, <2>1, <2>2, PlaceMore DEF IntakeInv
<1>13. EndInv'
  BY <1>2, <1>4 DEF EndInv, Ends
<1> QED BY <1>7, <1>8, <1>9, <1>11, <1>12, <1>13 DEF FlowInv

-----------------------------------------------------------------------------
(* A Parquet output                                                         *)

PipeInv == PlaceInv /\ JobInv /\ FlowInv

(* At the beginning no row is anywhere. *)
LEMMA PipeBegins ==
  ASSUME TaskInit, ParquetInit
  PROVE  PipeInv
<1>1. /\ ing = "recv" /\ enc = "select" /\ wri = "recv" /\ stage \in [Stages -> Places]
  BY DEF ParquetInit, ing, enc, wri, Stages, Places, Ends
<1>2. /\ batches = <<>> /\ rest = <<>> /\ building = <<>> /\ work = <<>> /\ analysed = <<>>
      /\ works = <<>> /\ pending = <<>> /\ hand = <<>> /\ encoded = <<>> /\ group = <<>>
      /\ file = <<>> /\ total = 0 /\ writing = "none" /\ ~analysis
      /\ joined = {} /\ failed = FALSE /\ accepted = 0 /\ caller = "writing" /\ ~token
      /\ producer = "starting"
  BY DEF TaskInit, ParquetInit
<1>3. PlaceInv
  BY <1>1, <1>2 DEF PlaceInv, Ends
<1>4. JobInv
  BY <1>1, <1>2 DEF JobInv, Fresh, Is, Stages, ing, enc, wri, Ended
<1>5. FlowInv
  <2>1. GroupRows \in Nat \ {0} /\ Edge(0, GroupRows) = 0 /\ Len(building) = 0
    BY <1>2, SinkAssumption, EdgeZero
  <2>2. Written = 0 /\ Made = 0
    BY <1>2 DEF Written, Encoded, Handed, Spawned, Queued, Made
  <2>3. QueuesInv
    BY <1>2 DEF QueuesInv
  <2>4. FileInv
    BY <1>2, <2>1, <2>2, PlaceNone DEF FileInv, Upto
  <2>5. CodeInv
    BY <1>2, PlaceNone DEF CodeInv
  <2>6. BuildInv
    BY <1>1, <1>2, <2>1 DEF BuildInv
  <2>7. IntakeInv
    <3>1. Following(0, Span(0, 0), Span(0, 0), <<>>, 0)
      <4>1. 0 \in Nat /\ 0 <= 0 /\ Chain(<<>>, 0, 0)
        BY ChainOfNothing
      <4> QED BY <4>1, FollowingWhole
    <3>2. Span(0, 0) = <<>>
      BY SpanOfNothing
    <3> QED BY <1>1, <1>2, <2>1, <2>2, <3>1, <3>2, PlaceNone DEF IntakeInv
  <2>8. EndInv
    BY <1>1 DEF EndInv
  <2> QED BY <2>3, <2>4, <2>5, <2>6, <2>7, <2>8 DEF FlowInv
<1> QED BY <1>3, <1>4, <1>5 DEF PipeInv

(* The owner's part is kept by what goes on beside it. *)
LEMMA StageBeside ==
  ASSUME OwnerInv, StageStep
  PROVE  OthersStep
BY DEF StageStep, OthersStep, OwnerInv, ownerVars, taskVars

(* Every step of a Parquet output. *)
LEMMA PipeStep ==
  ASSUME OwnerInv, PipeInv, ParquetNext
  PROVE  OwnerInv' /\ PipeInv' /\ format' = format
<1>1. CASE WriteBatch
  <2>1. accepted' \in Nat
    BY <1>1, TaskAssumption DEF WriteBatch, OwnerInv
  <2>2. OthersStep
    BY <1>1, <2>1 DEF WriteBatch, OthersStep, OwnerInv, taskVars
  <2>3. OwnerInv' /\ format' = format
    BY <2>2, OthersKeep DEF OthersStep
  <2> QED BY <1>1, <2>3, BatchKeepsStages, BatchFlows DEF PipeInv
<1>2. CASE OwnerAct /\ UNCHANGED pipelineVars
  <2>1. OwnerInv' /\ OwnerStep
    BY <1>2, OwnerMoves
  <2>2. token' \in BOOLEAN /\ format' = format
    BY <2>1 DEF OwnerInv, OwnerStep
  <2> QED BY <1>2, <2>1, <2>2, OwnerKeepsStages, OwnerFlows DEF PipeInv
<1>3. CASE StageAct
  <2>1. PlaceInv' /\ StageStep
    BY <1>3, StageSteps DEF PipeInv
  <2>2. OwnerInv' /\ format' = format
    BY <2>1, StageBeside, OthersKeep DEF OthersStep
  <2> QED BY <1>3, <2>1, <2>2, JobKept, StageFlows DEF PipeInv
<1>4. CASE Settle
  <2>1. /\ PlaceInv' /\ JobInv' /\ (token => token')
        /\ token' \in BOOLEAN /\ (producer \in Over => producer' = producer)
    BY <1>4, SettleSteps DEF PipeInv
  <2>2. OthersStep
    BY <1>4, <2>1 DEF Settle, Start, JoinStage, PipeEnds, OthersStep, OwnerInv, ownerVars
  <2> QED BY <1>4, <2>1, <2>2, OthersKeep, SettleFlows DEF PipeInv, OthersStep
<1>5. WriteFails \/ Finish => OwnerAct /\ UNCHANGED pipelineVars
  BY DEF WriteFails, Finish, OwnerAct
<1> QED BY <1>1, <1>2, <1>3, <1>4, <1>5 DEF ParquetNext, StageAct, OwnerAct

(***************************************************************************)
(* The streams                                                             *)
(***************************************************************************)

(* The stages do nothing in the other formats. *)
Idle == format # "parquet" => pending = <<>> /\ writing = "none" /\ ~analysis /\ file = <<>>

(* The owner's part in the other formats. *)
LEMMA StreamOwner ==
  ASSUME OwnerInv, StreamNext
  PROVE  OwnerInv' /\ format' = format /\ format # "parquet"
<1>1. format # "parquet"
  BY DEF StreamNext, ArrowWriteBatch, ArrowWriteFails, ArrowFinish, ArrowWriter, VortexWriteBatch,
         VortexFlushing, VortexFlush, VortexWriter, ArrowCancelled, ArrowStart, ArrowRecv, ArrowCheck, ArrowWrite,
         ArrowEof, ArrowFooter, ArrowFails, VortexRecv, VortexFooter, VortexCancelled, VortexFails,
         VortexSend, VortexSendFails, VortexFinish
<1>2. CASE OwnerAct
  BY <1>1, <1>2, OwnerMoves DEF OwnerStep
<1>3. CASE VortexFlush
  BY <1>1, <1>3 DEF VortexFlush, OwnerInv, Before, Callers
<1>4. CASE ArrowWriteBatch \/ VortexWriteBatch
  <2>1. accepted' \in Nat
    <3>1. PICK n \in BatchRows : accepted' = accepted + n
      BY <1>4 DEF ArrowWriteBatch, VortexWriteBatch
    <3> QED BY <3>1, TaskAssumption DEF OwnerInv
  <2>2. OthersStep
    BY <1>4, <2>1 DEF ArrowWriteBatch, VortexWriteBatch, OthersStep, OwnerInv
  <2> QED BY <1>1, <2>2, OthersKeep DEF OthersStep
<1>5. CASE ArrowWriter \/ VortexWriter \/ VortexSend
  <2>1. OthersStep
    BY <1>5 DEF ArrowWriter, VortexWriter, VortexSend, OthersStep, OwnerInv, ownerVars,
                ArrowCancelled, ArrowStart, ArrowRecv, ArrowCheck, ArrowWrite,
                ArrowEof, ArrowFooter, ArrowFails, VortexRecv, VortexFooter, VortexCancelled,
                VortexFails, WriterEnds, WriterOver, Over
  <2> QED BY <1>1, <2>1, OthersKeep DEF OthersStep
<1> QED BY <1>2, <1>3, <1>4, <1>5
        DEF StreamNext, OwnerAct, ArrowWriteFails, ArrowFinish, VortexFlushing, VortexSendFails, VortexFinish

(* What may be at each place of a stream of n rows: its record batches. *)
Arrays(n, open) == {p \in Seq(Nat) \X (Nat \ {0}) : IsPiece(p[1], p[2], RecordBatch, n, open)}

(* The coalescer makes sequences of rows. *)
LEMMA CutTypes ==
  ASSUME NEW rows \in Seq(Nat)
  PROVE  /\ FullBatches(rows) \in Seq(Seq(Nat)) /\ Left(rows) \in Seq(Nat)
         /\ Len(FullBatches(rows)) = Len(rows) \div RecordBatch
         /\ Left(rows) = SubSeq(rows, Edge(Len(rows) \div RecordBatch, RecordBatch) + 1, Len(rows))
         /\ \A i \in 1..(Len(rows) \div RecordBatch) :
              FullBatches(rows)[i] = SubSeq(rows, Edge(i - 1, RecordBatch) + 1, Edge(i, RecordBatch))
<1> DEFINE w == RecordBatch
           q == Len(rows) \div w
           f == FullBatches(rows)
<1>1. w \in Nat \ {0}
  BY StreamAssumption
<1>2. q \in Nat /\ Edge(q, w) <= Len(rows) /\ Edge(q, w) \in Nat
  <2>1. Len(rows) \in Nat
    OBVIOUS
  <2> HIDE DEF w
  <2> QED BY <1>1, <2>1, EdgeDiv, EdgeType
<1>3. f = [i \in 1..q |-> SubSeq(rows, Edge(i - 1, w) + 1, Edge(i, w))]
  BY DEF FullBatches, Edge
<1> HIDE DEF w, q
<1>4. \A i \in 1..q : SubSeq(rows, Edge(i - 1, w) + 1, Edge(i, w)) \in Seq(Nat)
  <2>1. TAKE i \in 1..q
  <2>2. i - 1 \in Nat /\ i \in Nat /\ i <= q
    BY <1>2
  <2>3. Edge(i - 1, w) \in Nat /\ Edge(i, w) \in Nat
    BY <1>1, <2>2, EdgeType
  <2>4. Edge(i, w) <= Edge(q, w)
    BY <1>1, <1>2, <2>2, EdgeOrder
  <2> DEFINE a == Edge(i - 1, w)
             b == Edge(i, w)
  <2>5. a \in Nat /\ b \in Nat /\ b <= Len(rows)
    BY <1>2, <2>3, <2>4
  <2> HIDE DEF a, b
  <2>6. SubSeq(rows, a + 1, b) \in Seq(Nat)
    BY <2>5
  <2> QED BY <2>6 DEF a, b
<1>5. f \in Seq(Seq(Nat)) /\ Len(f) = q
  <2> HIDE DEF f
  <2> QED BY <1>2, <1>3, <1>4
<1>6. Left(rows) = SubSeq(rows, Edge(q, w) + 1, Len(rows))
  BY <1>5 DEF Left, Edge, w
<1>7. SubSeq(rows, Edge(q, w) + 1, Len(rows)) \in Seq(Nat)
  <2> DEFINE a == Edge(q, w)
  <2>1. a \in Nat /\ a <= Len(rows)
    BY <1>2
  <2> HIDE DEF a
  <2>2. SubSeq(rows, a + 1, Len(rows)) \in Seq(Nat)
    BY <2>1
  <2> QED BY <2>2 DEF a
<1>8. \A i \in 1..q : f[i] = SubSeq(rows, Edge(i - 1, w) + 1, Edge(i, w))
  BY <1>3
<1> QED BY <1>5, <1>6, <1>7, <1>8 DEF w, q

(* Rows that go on where the pieces end are cut into the next ones. *)
LEMMA CutPieces ==
  ASSUME NEW k \in Nat, NEW n \in Nat, NEW open, NEW rows \in Seq(Nat), NEW bs \in Seq(Seq(Nat)),
         Following(Edge(k, RecordBatch), rows, <<>>, bs, n)
  PROVE  /\ InPlace(FullBatches(rows), k, Arrays(n, open))
         /\ Following(Edge(k + Len(FullBatches(rows)), RecordBatch), Left(rows), <<>>, bs, n)
         /\ Len(Left(rows)) < RecordBatch
<1> DEFINE w == RecordBatch
           l == Len(rows)
           q == l \div w
           f == FullBatches(rows)
           e == Edge(k, w)
<1>1. w \in Nat \ {0} /\ l \in Nat /\ e \in Nat
  <2>1. w \in Nat \ {0} /\ l \in Nat
    BY StreamAssumption
  <2> QED BY <2>1, EdgeType
<1> HIDE DEF w, l
<1>2. q \in Nat /\ Edge(q, w) <= l /\ l < Edge(q, w) + w /\ Edge(q, w) \in Nat
  BY <1>1, EdgeDiv, EdgeType
<1> HIDE DEF q
<1>3. /\ f \in Seq(Seq(Nat)) /\ Len(f) = q /\ Left(rows) = SubSeq(rows, Edge(q, w) + 1, l)
      /\ \A i \in 1..q : f[i] = SubSeq(rows, Edge(i - 1, w) + 1, Edge(i, w))
  BY CutTypes DEF w, l, q
<1> HIDE DEF f, e
<1>4. Following(e, rows, <<>>, bs, n)
  BY DEF e, w
<1>5. rows = Span(e, e + l) /\ e + l <= n
  <2> DEFINE z == <<>>
  <2>1. Following(e, rows, z, bs, n) /\ Len(z) = 0
    BY <1>4
  <2> HIDE DEF z
  <2>2. rows = Span(e, e + l) /\ e + l + Len(z) <= n
    BY <1>1, <2>1, FollowingParts DEF l
  <2>3. e + l + 0 <= n
    BY <2>1, <2>2
  <2> QED BY <1>1, <2>2, <2>3
<1>6. \A i \in 1..q : IsPiece(f[i], k + i, w, n, open) /\ f[i] \in Seq(Nat)
  <2>1. TAKE i \in 1..q
  <2> DEFINE a == Edge(i - 1, w)
             b == Edge(i, w)
             c == Edge(k + (i - 1), w)
             d == Edge(k + i, w)
  <2>2. i - 1 \in Nat /\ i \in Nat /\ i <= q /\ i - 1 + 1 = i
    BY <1>2
  <2>3. a \in Nat /\ b \in Nat /\ b = a + w /\ b <= Edge(q, w)
    <3>1. a \in Nat /\ b \in Nat
      BY <1>1, <2>2, EdgeType
    <3>2. b = a + w
      <4> DEFINE j == i - 1
      <4>1. j \in Nat /\ j + 1 = i
        BY <2>2
      <4> HIDE DEF j
      <4>2. Edge(j + 1, w) = Edge(j, w) + w
        BY <1>1, <4>1, EdgeNext
      <4> QED BY <4>1, <4>2 DEF j
    <3>3. b <= Edge(q, w)
      BY <1>1, <1>2, <2>2, EdgeOrder
    <3> QED BY <3>1, <3>2, <3>3
  <2>4. c = e + a /\ d = e + b
    <3> DEFINE j == i - 1
    <3>1. j \in Nat
      BY <2>2
    <3> HIDE DEF j
    <3>2. Edge(k + j, w) = Edge(k, w) + Edge(j, w)
      BY <1>1, <3>1, EdgeAdd
    <3>3. i \in Nat
      BY <2>2
    <3>4. Edge(k + i, w) = Edge(k, w) + Edge(i, w)
      BY <1>1, <3>3, EdgeAdd
    <3> QED BY <3>2, <3>4 DEF j, e
  <2>5. f[i] = SubSeq(rows, a + 1, b)
    BY <1>3
  <2>9. k + i - 1 = k + (i - 1)
    BY <2>2
  <2> HIDE DEF a, b, c, d
  <2>6. SubSeq(Span(e, e + l), a + 1, b) = Span(c, d)
    <3> DEFINE h == e + l
               j == a + 1
    <3>1. Within(e, h, c, d, j, b)
      BY <1>1, <1>2, <2>3, <2>4 DEF Within
    <3> HIDE DEF h, j
    <3>2. SubSeq(Span(e, h), j, b) = Span(c, d)
      BY <3>1, SpanCut
    <3> QED BY <3>2 DEF h, j
  <2>7. f[i] = Span(c, d) /\ c < n /\ d <= n
    BY <1>1, <1>2, <1>5, <2>3, <2>4, <2>5, <2>6
  <2>8. f[i] \in Seq(Nat)
    BY <1>3
  <2>10. Edge(k + i - 1, w) = c /\ Upto(k + i, w, n) = d
    BY <2>7, <2>9 DEF c, d, Upto
  <2> QED BY <2>7, <2>8, <2>10 DEF IsPiece, d
<1>7. InPlace(f, k, Arrays(n, open))
  <2>1. \A i \in 1..Len(f) : <<f[i], k + i>> \in Seq(Nat) \X (Nat \ {0})
    <3>1. TAKE i \in 1..Len(f)
    <3>2. i \in 1..q
      BY <1>3
    <3>3. f[i] \in Seq(Nat)
      BY <1>6, <3>2
    <3>4. k + i \in Nat \ {0}
      BY <1>2, <3>2
    <3> QED BY <3>3, <3>4
  <2> QED BY <1>3, <1>6, <2>1 DEF InPlace, Arrays, w
<1>8. Following(Edge(k + q, w), Left(rows), <<>>, bs, n)
  <2> DEFINE a == Edge(q, w)
  <2>1. a \in Nat /\ a <= l
    BY <1>2
  <2>2. Edge(k + q, w) = e + a
    BY <1>1, <1>2, EdgeAdd DEF e
  <2> HIDE DEF a
  <2>3. Following(e + a, SubSeq(rows, a + 1, Len(rows)), <<>>, bs, n)
    BY <1>1, <1>4, <2>1, FollowingDrop DEF l
  <2> QED BY <1>3, <2>2, <2>3 DEF a, l
<1>9. Len(Left(rows)) < w
  <2> DEFINE a == Edge(q, w)
  <2>1. a \in Nat /\ a <= l /\ l < a + w
    BY <1>2
  <2> HIDE DEF a
  <2>2. Len(SubSeq(rows, a + 1, l)) = l - a
    BY <1>1, <2>1 DEF l
  <2> QED BY <1>1, <1>3, <2>1, <2>2 DEF a
<1> QED BY <1>3, <1>7, <1>8, <1>9 DEF w, f

(* A record batch in place stays in place, also when the stream grows. *)
LEMMA ArraysStay ==
  ASSUME NEW n \in Nat, NEW m \in Nat, NEW open \in BOOLEAN, NEW still \in BOOLEAN,
         n <= m, n = m \/ open, still => open
  PROVE  Arrays(n, open) \subseteq Arrays(m, still)
<1>0. RecordBatch \in Nat
  BY StreamAssumption
<1> SUFFICES ASSUME NEW p \in Arrays(n, open) PROVE p \in Arrays(m, still)
  OBVIOUS
<1>1. p[2] \in Nat \ {0} /\ IsPiece(p[1], p[2], RecordBatch, n, open)
  BY DEF Arrays
<1>2. PICK k \in Nat : k + 1 = p[2]
  <2>1. p[2] - 1 \in Nat /\ p[2] - 1 + 1 = p[2]
    BY <1>1
  <2> QED BY <2>1
<1>3. IsPiece(p[1], k + 1, RecordBatch, n, open)
  BY <1>1, <1>2
<1>4. IsPiece(p[1], k + 1, RecordBatch, m, still)
  BY <1>0, <1>3, PieceStays
<1> QED BY <1>2, <1>4 DEF Arrays

(* The record batches of a stream that goes on are full. *)
LEMMA ArraysFilled ==
  ASSUME NEW s \in Seq(Seq(Nat)), NEW k \in Nat, NEW n \in Nat,
         Edge(k, RecordBatch) <= n, InPlace(s, k, Arrays(n, TRUE))
  PROVE  Edge(k + Len(s), RecordBatch) <= n
<1>1. CASE Len(s) = 0
  <2>1. k + Len(s) = k
    BY <1>1
  <2> QED BY <2>1
<1>2. CASE Len(s) # 0
  <2>1. Len(s) \in 1..Len(s)
    BY <1>2
  <2>2. <<s[Len(s)], k + Len(s)>> \in Arrays(n, TRUE)
    BY <2>1 DEF InPlace
  <2> QED BY <2>2 DEF Arrays, IsPiece
<1> QED BY <1>1, <1>2

(* The next record batch holds the rows that follow. *)
LEMMA ArrayCounted ==
  ASSUME NEW rows, NEW k \in Nat, NEW n \in Nat, NEW open,
         <<rows, k + 1>> \in Arrays(n, open)
  PROVE  /\ rows \in Seq(Nat) /\ Len(rows) \in Nat
         /\ Upto(k + 1, RecordBatch, n) = Upto(k, RecordBatch, n) + Len(rows)
<1>1. rows \in Seq(Nat) /\ IsPiece(rows, k + 1, RecordBatch, n, open)
  BY DEF Arrays
<1> QED BY <1>1, PieceLen, StreamAssumption

(* What the coalescer still holds at the end is the last record batch. *)
LEMMA LastArray ==
  ASSUME NEW k \in Nat, NEW n \in Nat, NEW rows \in Seq(Nat), Len(rows) < RecordBatch,
         Following(Edge(k, RecordBatch), rows, <<>>, <<>>, n)
  PROVE  IF rows = <<>> THEN n <= Edge(k, RecordBatch)
         ELSE <<rows, k + 1>> \in Arrays(n, FALSE) /\ n <= Edge(k + 1, RecordBatch)
<1> DEFINE w == RecordBatch
           e == Edge(k, w)
           l == Len(rows)
           z == <<>>
<1>1. w \in Nat \ {0} /\ l \in Nat /\ l < w
  BY StreamAssumption
<1> HIDE DEF w
<1>2. e \in Nat
  BY <1>1, EdgeType
<1>3. Following(e, rows, z, z, n) /\ z \in Seq(Seq(Nat))
  BY DEF w
<1> HIDE DEF e
<1>4. n = e + l
  BY <1>2, <1>3, FollowingEnd DEF z
<1> HIDE DEF z
<1>5. rows = Span(e, e + l)
  BY <1>2, <1>3, FollowingParts
<1>6. CASE rows = <<>>
  <2>1. l = 0
    BY <1>6
  <2> QED BY <1>2, <1>4, <1>6, <2>1 DEF e, w
<1>7. CASE rows # <<>>
  <2>1. l # 0
    BY <1>7
  <2>2. l \in 1..w /\ e + l <= n /\ n = e + l /\ l <= w
    BY <1>1, <1>2, <1>4, <2>1
  <2>3. IsPiece(rows, k + 1, w, n, FALSE)
    BY <1>1, <1>5, <2>2, PieceMade DEF e
  <2>4. n <= Edge(k + 1, w)
    <3>1. Edge(k + 1, w) = e + w
      BY <1>1, EdgeNext DEF e
    <3> QED BY <1>1, <1>2, <2>2, <3>1
  <2>5. k + 1 \in Nat \ {0}
    OBVIOUS
  <2> QED BY <1>7, <2>3, <2>4, <2>5 DEF Arrays, w
<1> QED BY <1>6, <1>7

(* A batch of the command is the rows that follow. *)
LEMMA BatchIsSpan ==
  ASSUME NEW m \in Nat, NEW n \in Nat
  PROVE  [i \in 1..n |-> m + i] = Span(m, m + n) /\ Span(m, m + n) \in Seq(Nat)
<1> DEFINE k == m + n
<1>1. k - m = n /\ k \in Nat /\ m <= k
  OBVIOUS
<1> HIDE DEF k
<1>2. Span(m, k) = [i \in 1..(k - m) |-> m + i]
  BY DEF Span
<1>3. Span(m, k) \in Seq(Nat)
  BY <1>1, SpanType
<1> QED BY <1>1, <1>2, <1>3 DEF k

-----------------------------------------------------------------------------
(* Arrow                                                                    *)
(* The record batches that the stream may have at each place. *)
HereArrays == Arrays(accepted, Open)
Full(k) == Edge(k, RecordBatch)

StreamTypes ==
  /\ channel \in Seq(Seq(Nat)) /\ ready \in Seq(Seq(Nat)) /\ arrays \in Seq(Seq(Nat))
  /\ held \in Seq(Nat) /\ counted \in Nat /\ footer \in BOOLEAN
  /\ at \in {"recv", "write", "last", "footer"}

(* Where the Arrow writer stands. *)
ArrowPlace ==
  /\ at \in {"last", "footer"} => ~InputOpen
  /\ producer = "starting" => at = "recv"
  /\ producer = "cancelled" => token
  /\ token => caller \notin Trusting

(* What it has written, and the rows that it still writes. *)
ArrowDone ==
  /\ InPlace(arrays, 0, HereArrays)
  /\ counted = Upto(Len(arrays), RecordBatch, accepted)
  /\ producer = "ok" => footer /\ accepted <= Full(Len(arrays))

ArrowToDo ==
  ~WriterOver =>
  /\ InPlace(ready, Len(arrays), HereArrays)
  /\ at \in {"recv", "write"} =>
       /\ Following(Full(Len(arrays) + Len(ready)), held, <<>>, channel, accepted)
       /\ Len(held) < RecordBatch
  /\ at = "recv" => ready = <<>>
  /\ at = "last" => accepted <= Full(Len(arrays) + Len(ready)) /\ channel = <<>> /\ Len(ready) = 1
  /\ at = "footer" => accepted <= Full(Len(arrays)) /\ channel = <<>> /\ ready = <<>>

ArrowInv == StreamTypes /\ ArrowPlace /\ ArrowDone /\ ArrowToDo

(* The record batches in place stay so while the owner accepts no row. *)
LEMMA ArraysKept ==
  ASSUME accepted \in Nat, Quieter
  PROVE  HereArrays \subseteq HereArrays'
<1> DEFINE o == Open
           q == Open'
<1>1. o \in BOOLEAN /\ q \in BOOLEAN /\ (q => o)
  BY DEF Open, Quieter
<1> HIDE DEF o, q
<1>2. Arrays(accepted, o) \subseteq Arrays(accepted, q)
  BY <1>1, ArraysStay
<1>3. accepted' = accepted
  BY DEF Quieter
<1> QED BY <1>2, <1>3 DEF HereArrays, Arrays, o, q

(* The calls of the owner. *)
LEMMA ArrowOwner ==
  ASSUME OwnerInv, ArrowInv, OwnerStep, UNCHANGED streamVars
  PROVE  ArrowInv'
<1>1. HereArrays \subseteq HereArrays' /\ accepted' = accepted /\ producer' = producer
  BY ArraysKept DEF OwnerInv, OwnerStep, Quieter
<1>2. UNCHANGED <<channel, held, ready, counted, arrays, footer, at>>
  BY DEF streamVars
<1>3. StreamTypes'
  BY <1>2 DEF ArrowInv, StreamTypes
<1>4. ArrowPlace'
  BY <1>1, <1>2 DEF ArrowInv, ArrowPlace, OwnerStep
<1>5. ArrowDone'
  BY <1>1, <1>2, PlaceMore DEF ArrowInv, ArrowDone
<1>6. ArrowToDo'
  BY <1>1, <1>2, PlaceMore DEF ArrowInv, ArrowToDo, WriterOver
<1> QED BY <1>3, <1>4, <1>5, <1>6 DEF ArrowInv

(* A batch is written. *)
LEMMA ArrowBatch ==
  ASSUME OwnerInv, ArrowInv, ArrowWriteBatch
  PROVE  ArrowInv'
<1>1. PICK n \in BatchRows :
        /\ channel' = Append(channel, [i \in 1..n |-> accepted + i])
        /\ accepted' = accepted + n
  BY DEF ArrowWriteBatch
<1>2. /\ UNCHANGED <<caller, token, producer, held, ready, counted, arrays, footer, at>>
      /\ Open /\ Open' /\ ~WriterOver /\ InputOpen /\ InputOpen'
  BY DEF ArrowWriteBatch, Open, InputOpen, Unfinished
<1>3. /\ n \in Nat \ {0} /\ accepted \in Nat /\ accepted' \in Nat /\ accepted <= accepted'
      /\ RecordBatch \in Nat \ {0}
  BY <1>1, TaskAssumption, StreamAssumption DEF OwnerInv
<1>4. channel' = Append(channel, Span(accepted, accepted + n)) /\ channel' \in Seq(Seq(Nat))
  <2>1. channel \in Seq(Seq(Nat))
    BY DEF ArrowInv, StreamTypes
  <2> QED BY <1>1, <1>3, <2>1, BatchIsSpan, QueueAppend
<1>5. HereArrays \subseteq HereArrays'
  <2> DEFINE m == accepted'
  <2>1. m \in Nat /\ accepted <= m
    BY <1>3
  <2> HIDE DEF m
  <2>2. Arrays(accepted, TRUE) \subseteq Arrays(m, TRUE)
    BY <1>3, <2>1, ArraysStay
  <2>3. Open = TRUE /\ Open' = TRUE
    BY <1>2 DEF Open
  <2> QED BY <2>2, <2>3 DEF m, HereArrays, Arrays
<1>6. StreamTypes'
  BY <1>2, <1>4 DEF ArrowInv, StreamTypes
<1>7. ArrowPlace'
  BY <1>2 DEF ArrowInv, ArrowPlace
<1>8. ArrowDone'
  <2>1. Len(arrays) \in Nat /\ arrays \in Seq(Seq(Nat)) /\ InPlace(arrays, 0, HereArrays)
    BY DEF ArrowInv, ArrowDone, StreamTypes
  <2>2. Edge(Len(arrays), RecordBatch) <= accepted /\ Edge(Len(arrays), RecordBatch) \in Nat
    <3>1. InPlace(arrays, 0, Arrays(accepted, TRUE))
      <4>1. Open = TRUE
        BY <1>2 DEF Open
      <4> QED BY <2>1, <4>1 DEF HereArrays
    <3>2. Edge(0, RecordBatch) <= accepted
      BY <1>3, EdgeZero
    <3>3. Edge(0 + Len(arrays), RecordBatch) <= accepted
      BY <1>3, <2>1, <3>1, <3>2, ArraysFilled
    <3>4. 0 + Len(arrays) = Len(arrays)
      BY <2>1
    <3> QED BY <1>3, <2>1, <3>3, <3>4, EdgeType
  <2>3. Upto(Len(arrays), RecordBatch, accepted') = Upto(Len(arrays), RecordBatch, accepted)
    BY <1>3, <2>2 DEF Upto
  <2>4. producer # "ok"
    BY <1>2 DEF WriterOver, Over
  <2> QED BY <1>2, <1>5, <2>3, <2>4, PlaceMore DEF ArrowInv, ArrowDone
<1>9. ArrowToDo'
  <2>1. at \in {"recv", "write"}
    BY <1>2 DEF ArrowInv, ArrowPlace, StreamTypes
  <2> DEFINE e == Full(Len(arrays) + Len(ready))
  <2>2. e \in Nat /\ channel \in Seq(Seq(Nat)) /\ Following(e, held, <<>>, channel, accepted)
    <3>1. Len(arrays) + Len(ready) \in Nat /\ channel \in Seq(Seq(Nat))
      BY DEF ArrowInv, StreamTypes
    <3> QED BY <1>2, <1>3, <2>1, <3>1, EdgeType DEF ArrowInv, ArrowToDo, Full
  <2> HIDE DEF e
  <2>3. Following(e, held, <<>>, channel', accepted')
    BY <1>1, <1>3, <1>4, <2>2, FollowingAppend
  <2> QED BY <1>2, <1>5, <2>1, <2>3, PlaceMore DEF ArrowInv, ArrowToDo, WriterOver, e
<1> QED BY <1>6, <1>7, <1>8, <1>9 DEF ArrowInv

(* The steps of a writer leave the stream as it is. *)
WriterStep ==
  /\ UNCHANGED <<ownerVars, token, upload>>
  /\ ~WriterOver

(* So what is in place is the same. *)
LEMMA SameArrays ==
  ASSUME WriterStep
  PROVE  /\ accepted' = accepted /\ HereArrays' = HereArrays /\ Open' = Open
         /\ caller' = caller /\ token' = token /\ InputOpen' = InputOpen
BY DEF WriterStep, ownerVars, HereArrays, Arrays, Open, InputOpen, Unfinished

(* The writer ends before the footer. *)
LEMMA ArrowStops ==
  ASSUME ArrowInv, NEW how \in Over \ {"ok"}, WriterEnds(how), ~WriterOver, how = "cancelled" => token,
         UNCHANGED <<arrays, footer>>
  PROVE  ArrowInv'
<1>1. WriterStep /\ UNCHANGED <<held, ready, counted, at>> /\ channel' = <<>> /\ producer' = how
  BY DEF WriterEnds, WriterStep
<1>2. StreamTypes'
  BY <1>1 DEF ArrowInv, StreamTypes
<1>3. ArrowPlace' /\ ArrowDone'
  BY <1>1, SameArrays DEF ArrowInv, ArrowPlace, ArrowDone, Over
<1>4. ArrowToDo'
  BY <1>1 DEF ArrowToDo, WriterOver
<1> QED BY <1>2, <1>3, <1>4 DEF ArrowInv

(* It starts. *)
LEMMA ArrowStarts ==
  ASSUME ArrowInv, ArrowStart
  PROVE  ArrowInv'
<1>1. /\ UNCHANGED <<channel, held, ready, counted, arrays, footer, at>>
      /\ producer = "starting" /\ producer' = "running" /\ WriterStep
  BY DEF ArrowStart, WriterStep, streamVars, WriterOver, Over
<1> QED BY <1>1, SameArrays DEF ArrowInv, StreamTypes, ArrowPlace, ArrowDone, ArrowToDo, WriterOver, Over

(* It takes a batch. *)
LEMMA ArrowTakes ==
  ASSUME OwnerInv, ArrowInv, ArrowRecv
  PROVE  ArrowInv'
<1>1. /\ UNCHANGED <<counted, arrays, footer, producer>> /\ WriterStep
      /\ at = "recv" /\ channel # <<>> /\ channel' = Tail(channel)
      /\ ready' = FullBatches(held \o Head(channel)) /\ held' = Left(held \o Head(channel))
      /\ at' = IF ready' = <<>> THEN "recv" ELSE "write"
      /\ producer = "running"
  BY DEF ArrowRecv, WriterStep, WriterOver, Over, Push
<1>2. ready = <<>> /\ Following(Full(Len(arrays) + Len(ready)), held, <<>>, channel, accepted)
  BY <1>1 DEF ArrowInv, ArrowToDo, WriterStep
<1>3. /\ channel \in Seq(Seq(Nat)) /\ held \in Seq(Nat) /\ accepted \in Nat
      /\ Len(arrays) \in Nat /\ Full(Len(arrays)) \in Nat
  <2>1. channel \in Seq(Seq(Nat)) /\ held \in Seq(Nat) /\ arrays \in Seq(Seq(Nat)) /\ accepted \in Nat
    BY DEF ArrowInv, StreamTypes, OwnerInv
  <2>2. Len(arrays) \in Nat /\ RecordBatch \in Nat
    BY <2>1, StreamAssumption
  <2> QED BY <2>1, <2>2, EdgeType DEF Full
<1>4. Len(arrays) + Len(ready) = Len(arrays)
  BY <1>2, <1>3
<1> DEFINE k == Len(arrays)
           rows == held \o Head(channel)
           cs == Tail(channel)
<1>5. rows \in Seq(Nat) /\ cs \in Seq(Seq(Nat))
  BY <1>1, <1>3
<1>6. Following(Edge(k, RecordBatch), rows, <<>>, cs, accepted)
  <2> DEFINE e == Full(k)
  <2>1. e \in Nat /\ Following(e, held, <<>>, channel, accepted)
    BY <1>2, <1>3, <1>4
  <2> HIDE DEF e
  <2>2. Following(e, rows, <<>>, cs, accepted)
    BY <1>1, <1>3, <2>1, FollowingPush
  <2> QED BY <2>2 DEF e, Full
<1>7. k \in Nat
  BY <1>3
<1> HIDE DEF k, rows, cs
<1>8. /\ InPlace(FullBatches(rows), k, Arrays(accepted, Open))
      /\ Following(Edge(k + Len(FullBatches(rows)), RecordBatch), Left(rows), <<>>, cs, accepted)
      /\ Len(Left(rows)) < RecordBatch
  BY <1>3, <1>5, <1>6, <1>7, CutPieces
<1>9. FullBatches(rows) \in Seq(Seq(Nat)) /\ Left(rows) \in Seq(Nat)
  BY <1>5, CutTypes
<1>10. ready' = FullBatches(rows) /\ held' = Left(rows) /\ channel' = cs
  BY <1>1 DEF rows, cs
<1>11. StreamTypes'
  BY <1>1, <1>5, <1>9, <1>10 DEF ArrowInv, StreamTypes
<1>12. ArrowPlace' /\ ArrowDone'
  BY <1>1, SameArrays DEF ArrowInv, ArrowPlace, ArrowDone, Over
<1>13. ArrowToDo'
  <2>1. /\ InPlace(ready', k, HereArrays')
        /\ Following(Edge(k + Len(ready'), RecordBatch), held', <<>>, channel', accepted')
        /\ Len(held') < RecordBatch
    BY <1>1, <1>8, <1>10, SameArrays DEF HereArrays
  <2> QED BY <1>1, <2>1 DEF ArrowToDo, Full, k
<1> QED BY <1>11, <1>12, <1>13 DEF ArrowInv

(* It looks at the token. *)
LEMMA ArrowLooks ==
  ASSUME ArrowInv, ArrowCheck
  PROVE  ArrowInv'
<1>1. UNCHANGED <<channel, held, ready, counted, arrays, footer, at, producer>> /\ WriterStep
  BY DEF ArrowCheck, WriterStep, WriterOver, Over
<1> QED BY <1>1, SameArrays DEF ArrowInv, StreamTypes, ArrowPlace, ArrowDone, ArrowToDo, WriterOver

(* The first record batch that is ready goes into the file. *)
LEMMA ArrowPuts ==
  ASSUME OwnerInv, ArrowInv, ArrowWrite
  PROVE  ArrowInv'
<1>1. /\ UNCHANGED <<channel, held, footer, producer>> /\ WriterStep
      /\ at \in {"write", "last"} /\ ready # <<>> /\ producer = "running"
      /\ arrays' = Append(arrays, Head(ready)) /\ ready' = Tail(ready)
      /\ counted' = counted + Len(Head(ready))
      /\ at' = IF at = "last" THEN "footer" ELSE IF ready' = <<>> THEN "recv" ELSE "write"
  BY DEF ArrowWrite, WriterStep, WriterOver, Over, WriteNext
<1>2. /\ ready \in Seq(Seq(Nat)) /\ arrays \in Seq(Seq(Nat)) /\ accepted \in Nat
      /\ InPlace(arrays, 0, HereArrays) /\ InPlace(ready, Len(arrays), HereArrays)
      /\ counted = Upto(Len(arrays), RecordBatch, accepted) /\ counted \in Nat
  BY <1>1 DEF ArrowInv, StreamTypes, ArrowDone, ArrowToDo, WriterStep, OwnerInv
<1> DEFINE k == Len(arrays)
           x == Head(ready)
<1>3. k \in Nat
  BY <1>2
<1>4. /\ <<x, k + 1>> \in HereArrays /\ InPlace(<<x>>, k, HereArrays)
      /\ InPlace(Tail(ready), k + 1, HereArrays)
  <2> HIDE DEF k
  <2>1. k \in Nat /\ InPlace(ready, k, HereArrays)
    BY <1>2, <1>3 DEF k
  <2> QED BY <1>1, <1>2, <2>1, PlaceHead
<1>5. /\ x \in Seq(Nat) /\ Len(x) \in Nat
      /\ Upto(k + 1, RecordBatch, accepted) = Upto(k, RecordBatch, accepted) + Len(x)
  <2> HIDE DEF k, x
  <2> QED BY <1>2, <1>3, <1>4, ArrayCounted DEF HereArrays
<1>6. /\ arrays' \in Seq(Seq(Nat)) /\ Len(arrays') = k + 1
      /\ ready' \in Seq(Seq(Nat)) /\ Len(ready') + 1 = Len(ready) /\ Len(ready') \in Nat
  BY <1>1, <1>2, <1>5
<1>7. InPlace(arrays', 0, HereArrays)
  <2>1. 0 + Len(arrays) = k
    BY <1>3
  <2>2. InPlace(<<x>>, 0 + Len(arrays), HereArrays)
    BY <1>4, <2>1
  <2> HIDE DEF x, k
  <2>3. InPlace(Append(arrays, x), 0, HereArrays)
    BY <1>2, <1>5, <2>2, PlaceAppend
  <2> QED BY <1>1, <2>3 DEF x
<1>8. Len(arrays') + Len(ready') = Len(arrays) + Len(ready)
  BY <1>3, <1>6
<1>9. StreamTypes'
  <2>1. counted' \in Nat
    BY <1>1, <1>2, <1>5
  <2>2. at' \in {"recv", "write", "last", "footer"}
    BY <1>1
  <2>3. channel \in Seq(Seq(Nat)) /\ held \in Seq(Nat) /\ footer \in BOOLEAN
    BY DEF ArrowInv, StreamTypes
  <2> QED BY <1>1, <1>6, <2>1, <2>2, <2>3 DEF StreamTypes
<1>10. ArrowPlace'
  BY <1>1, SameArrays DEF ArrowInv, ArrowPlace
<1>11. ArrowDone'
  <2>1. counted' = Upto(Len(arrays'), RecordBatch, accepted)
    BY <1>1, <1>2, <1>5, <1>6
  <2> QED BY <1>1, <1>7, <2>1, SameArrays DEF ArrowDone
<1>12. ArrowToDo'
  <2>1. InPlace(ready', Len(arrays'), HereArrays')
    BY <1>1, <1>4, <1>6, SameArrays
  <2>2. at = "last" => /\ accepted <= Full(Len(arrays')) /\ channel' = <<>> /\ ready' = <<>>
                       /\ at' = "footer"
    <3> SUFFICES ASSUME at = "last" PROVE /\ accepted <= Full(Len(arrays')) /\ channel' = <<>>
                                          /\ ready' = <<>> /\ at' = "footer"
      OBVIOUS
    <3>1. accepted <= Full(k + Len(ready)) /\ channel = <<>> /\ Len(ready) = 1
      BY <1>1 DEF ArrowInv, ArrowToDo, WriterStep
    <3>2. Len(ready') = 0 /\ Len(arrays') = k + Len(ready)
      BY <1>6, <3>1
    <3>3. ready' = <<>>
      BY <1>6, <3>2
    <3>4. at' = "footer"
      BY <1>1
    <3> QED BY <1>1, <3>1, <3>2, <3>3, <3>4
  <2>3. at = "write" => /\ Following(Full(Len(arrays') + Len(ready')), held', <<>>, channel', accepted')
                        /\ Len(held') < RecordBatch
                        /\ at' = IF ready' = <<>> THEN "recv" ELSE "write"
    BY <1>1, <1>8, SameArrays DEF ArrowInv, ArrowToDo, WriterStep
  <2> QED BY <1>1, <2>1, <2>2, <2>3, SameArrays DEF ArrowToDo
<1> QED BY <1>9, <1>10, <1>11, <1>12 DEF ArrowInv

(* The channel ends. *)
LEMMA ArrowChannelEnds ==
  ASSUME OwnerInv, ArrowInv, ArrowEof
  PROVE  ArrowInv'
<1>1. /\ UNCHANGED <<channel, counted, arrays, footer, producer>> /\ WriterStep
      /\ at = "recv" /\ channel = <<>> /\ ~InputOpen /\ producer = "running"
      /\ ready' = IF held = <<>> THEN <<>> ELSE <<held>>
      /\ held' = <<>> /\ at' = IF ready' = <<>> THEN "footer" ELSE "last"
  BY DEF ArrowEof, WriterStep, WriterOver, Over, Buffered
<1> DEFINE k == Len(arrays)
<1>2. /\ ready = <<>> /\ Len(held) < RecordBatch /\ held \in Seq(Nat) /\ accepted \in Nat
      /\ k \in Nat /\ Following(Full(k + Len(ready)), held, <<>>, channel, accepted)
  BY <1>1 DEF ArrowInv, StreamTypes, ArrowToDo, WriterStep, OwnerInv
<1>3. k + Len(ready) = k
  BY <1>2
<1>4. Following(Edge(k, RecordBatch), held, <<>>, <<>>, accepted)
  BY <1>1, <1>2, <1>3 DEF Full
<1> HIDE DEF k
<1>5. IF held = <<>> THEN accepted <= Edge(k, RecordBatch)
      ELSE <<held, k + 1>> \in Arrays(accepted, FALSE) /\ accepted <= Edge(k + 1, RecordBatch)
  BY <1>2, <1>4, LastArray
<1>6. HereArrays = Arrays(accepted, FALSE)
  <2>1. Open = FALSE
    BY <1>1 DEF Open, InputOpen, Unfinished
  <2> QED BY <2>1 DEF HereArrays
<1>7. StreamTypes'
  BY <1>1, <1>2 DEF ArrowInv, StreamTypes
<1>8. ArrowPlace' /\ ArrowDone'
  BY <1>1, SameArrays DEF ArrowInv, ArrowPlace, ArrowDone
<1>9. ArrowToDo'
  <2>1. CASE held = <<>>
    <3>1. ready' = <<>> /\ at' = "footer" /\ accepted <= Full(Len(arrays)) /\ Len(arrays') = k
      BY <1>1, <1>5, <2>1 DEF Full, k
    <3> QED BY <1>1, <3>1, SameArrays, PlaceNone DEF ArrowToDo
  <2>2. CASE held # <<>>
    <3>1. ready' = <<held>> /\ at' = "last" /\ Len(ready') = 1
      BY <1>1, <2>2
    <3>2. InPlace(<<held>>, k, HereArrays)
      BY <1>2, <1>5, <1>6, <2>2, PlaceOne
    <3>3. accepted <= Full(k + Len(ready')) /\ Len(arrays') = k
      BY <1>1, <1>5, <2>2, <3>1 DEF Full, k
    <3> QED BY <1>1, <3>1, <3>2, <3>3, SameArrays DEF ArrowToDo
  <2> QED BY <2>1, <2>2
<1> QED BY <1>7, <1>8, <1>9 DEF ArrowInv

(* The footer is written. *)
LEMMA ArrowFinishes ==
  ASSUME ArrowInv, ArrowFooter
  PROVE  ArrowInv'
<1>1. /\ UNCHANGED <<held, ready, counted, arrays, at>> /\ WriterStep /\ at = "footer"
      /\ channel' = <<>> /\ footer' = TRUE /\ producer' = "ok"
  BY DEF ArrowFooter, WriterEnds, WriterStep, WriterOver, Over
<1>2. StreamTypes'
  BY <1>1 DEF ArrowInv, StreamTypes
<1>3. ArrowPlace' /\ ArrowDone'
  BY <1>1, SameArrays DEF ArrowInv, ArrowPlace, ArrowDone, ArrowToDo, WriterStep
<1>4. ArrowToDo'
  BY <1>1 DEF ArrowToDo, WriterOver, Over
<1> QED BY <1>2, <1>3, <1>4 DEF ArrowInv

(* The steps of the Arrow writer. *)
LEMMA ArrowWrites ==
  ASSUME OwnerInv, ArrowInv, ArrowWriter
  PROVE  ArrowInv'
<1>1. CASE ArrowCancelled
  BY <1>1, ArrowStops DEF ArrowCancelled, Over
<1>2. CASE ArrowFails
  <2>1. PICK how \in {"err", "panicked"} : WriterEnds(how)
    BY <1>2 DEF ArrowFails
  <2>2. how \in Over \ {"ok"} /\ how # "cancelled"
    BY DEF Over
  <2> QED BY <1>2, <2>1, <2>2, ArrowStops DEF ArrowFails
<1> QED BY <1>1, <1>2, ArrowStarts, ArrowTakes, ArrowLooks, ArrowPuts, ArrowChannelEnds,
        ArrowFinishes
        DEF ArrowWriter

-----------------------------------------------------------------------------
(* Vortex                                                                   *)
(* What the Vortex writer has written. *)
VortexDone ==
  /\ InPlace(arrays, 0, HereArrays)
  /\ producer # "cancelled"
  /\ producer = "ok" => footer /\ channel = <<>> /\ ~InputOpen
  /\ producer = "ok" /\ caller \in {"finishing", "completing"} =>
       accepted <= Full(Len(arrays)) /\ counted = Upto(Len(arrays), RecordBatch, accepted)

(* The record batches that the sink has given it, and the rows that it has still
   to give. *)
Sent == Len(arrays) + Len(channel)

VortexToDo ==
  ~WriterOver =>
  /\ InPlace(channel, Len(arrays), HereArrays)
  /\ counted = Upto(Sent, RecordBatch, accepted)
  /\ caller \in {"writing", "flushing"} => InPlace(ready, Sent, HereArrays)
  /\ caller = "writing" =>
       /\ Following(Full(Sent + Len(ready)), held, <<>>, <<>>, accepted)
       /\ Len(held) < RecordBatch
  /\ caller = "flushing" => accepted <= Full(Sent + Len(ready))
  /\ caller = "finishing" => accepted <= Full(Sent)

VortexInv == StreamTypes /\ VortexDone /\ VortexToDo

(* The owner goes on without the coalescer. *)
LEMMA VortexOwner ==
  ASSUME OwnerInv, VortexInv, OwnerStep, UNCHANGED streamVars,
         caller' \in {"writing", "flushing"} => caller' = caller,
         caller' = "finishing" => caller = "finishing" \/ (caller = "flushing" /\ ready = <<>>),
         caller' = "completing" => caller \in {"completing", "finishing"}
  PROVE  VortexInv'
<1>1. HereArrays \subseteq HereArrays' /\ accepted' = accepted /\ producer' = producer
  BY ArraysKept DEF OwnerInv, OwnerStep, Quieter
<1>2. UNCHANGED <<channel, held, ready, counted, arrays, footer, at>>
  BY DEF streamVars
<1>3. StreamTypes'
  BY <1>2 DEF VortexInv, StreamTypes
<1>4. Sent \in Nat /\ (ready = <<>> => Sent + Len(ready) = Sent) /\ Sent' = Sent
  <2>1. Sent \in Nat
    BY DEF VortexInv, StreamTypes, Sent
  <2>2. Sent' = Sent
    BY <1>2 DEF Sent
  <2> QED BY <2>1, <2>2
<1>5. VortexDone'
  BY <1>1, <1>2, PlaceMore DEF VortexInv, VortexDone, OwnerStep, InputOpen, Unfinished
<1>6. VortexToDo'
  BY <1>1, <1>2, <1>4, PlaceMore DEF VortexInv, VortexToDo, WriterOver
<1> QED BY <1>3, <1>5, <1>6 DEF VortexInv

(* Rows are pushed into the coalescer. *)
LEMMA VortexBatch ==
  ASSUME OwnerInv, VortexInv, VortexWriteBatch
  PROVE  VortexInv'
<1>1. PICK n \in BatchRows :
        /\ ready' = FullBatches(held \o [i \in 1..n |-> accepted + i])
        /\ held' = Left(held \o [i \in 1..n |-> accepted + i])
        /\ accepted' = accepted + n
  BY DEF VortexWriteBatch, Push
<1>2. /\ UNCHANGED <<caller, token, producer, channel, counted, arrays, footer, at>>
      /\ caller = "writing" /\ Open /\ Open' /\ InputOpen /\ InputOpen' /\ ready = <<>>
  BY DEF VortexWriteBatch, Open, InputOpen, Unfinished
<1>3. /\ n \in Nat \ {0} /\ accepted \in Nat /\ accepted' \in Nat /\ accepted <= accepted'
      /\ RecordBatch \in Nat \ {0}
  BY <1>1, TaskAssumption, StreamAssumption DEF OwnerInv
<1> DEFINE x == [i \in 1..n |-> accepted + i]
           rows == held \o x
<1>4. x = Span(accepted, accepted + n) /\ x \in Seq(Nat)
  BY <1>3, BatchIsSpan
<1>5. held \in Seq(Nat) /\ channel \in Seq(Seq(Nat)) /\ arrays \in Seq(Seq(Nat))
  BY DEF VortexInv, StreamTypes
<1>6. Len(arrays) \in Nat /\ Len(channel) \in Nat /\ Sent \in Nat /\ Sent + Len(ready) = Sent
  <2>1. Len(arrays) \in Nat /\ Len(channel) \in Nat /\ Len(ready) = 0
    BY <1>2, <1>5
  <2> QED BY <2>1 DEF Sent
<1> HIDE DEF x
<1>7. rows \in Seq(Nat)
  BY <1>4, <1>5
<1>8. ready' = FullBatches(rows) /\ held' = Left(rows)
  BY <1>1 DEF x
<1> HIDE DEF rows
<1>9. FullBatches(rows) \in Seq(Seq(Nat)) /\ Left(rows) \in Seq(Nat)
  BY <1>7, CutTypes
<1>10. HereArrays \subseteq HereArrays'
  <2> DEFINE m == accepted'
  <2>1. m \in Nat /\ accepted <= m
    BY <1>3
  <2> HIDE DEF m
  <2>2. Arrays(accepted, TRUE) \subseteq Arrays(m, TRUE)
    BY <1>3, <2>1, ArraysStay
  <2>3. Open = TRUE /\ Open' = TRUE
    BY <1>2 DEF Open
  <2> QED BY <2>2, <2>3 DEF m, HereArrays, Arrays
<1>11. StreamTypes'
  BY <1>2, <1>8, <1>9 DEF VortexInv, StreamTypes
<1>12. VortexDone'
  BY <1>2, <1>10, PlaceMore DEF VortexInv, VortexDone
<1>13. VortexToDo'
  <2> SUFFICES ASSUME ~WriterOver PROVE VortexToDo'
    BY <1>2 DEF VortexToDo, WriterOver
  <2>1. /\ InPlace(channel, Len(arrays), HereArrays) /\ InPlace(arrays, 0, HereArrays)
        /\ counted = Upto(Sent, RecordBatch, accepted)
        /\ Following(Full(Sent), held, <<>>, <<>>, accepted)
    BY <1>2, <1>6 DEF VortexInv, VortexDone, VortexToDo
  <2>2. Full(Sent) <= accepted /\ Full(Sent) \in Nat
    <3>1. HereArrays = Arrays(accepted, TRUE)
      <4>1. Open = TRUE
        BY <1>2 DEF Open
      <4> QED BY <4>1 DEF HereArrays
    <3>2. Edge(0, RecordBatch) <= accepted
      BY <1>3, EdgeZero
    <3>3. Edge(0 + Len(arrays), RecordBatch) <= accepted
      BY <1>3, <1>5, <2>1, <3>1, <3>2, ArraysFilled
    <3>4. 0 + Len(arrays) = Len(arrays)
      BY <1>6
    <3>5. Edge(Len(arrays), RecordBatch) <= accepted
      BY <3>3, <3>4
    <3>6. Edge(Len(arrays) + Len(channel), RecordBatch) <= accepted
      <4> DEFINE k == Len(arrays)
      <4>1. k \in Nat /\ Edge(k, RecordBatch) <= accepted /\ InPlace(channel, k, Arrays(accepted, TRUE))
        BY <1>6, <2>1, <3>1, <3>5
      <4> HIDE DEF k
      <4>2. Edge(k + Len(channel), RecordBatch) <= accepted
        BY <1>3, <1>5, <4>1, ArraysFilled
      <4> QED BY <4>2 DEF k
    <3> QED BY <1>3, <1>6, <3>6, EdgeType DEF Full, Sent
  <2>3. Upto(Sent, RecordBatch, accepted') = Upto(Sent, RecordBatch, accepted)
    BY <1>3, <2>2 DEF Upto, Full
  <2>4. Following(Full(Sent), rows, <<>>, <<>>, accepted')
    <3> DEFINE e == Full(Sent)
               z == <<>>
               bs == <<x>>
    <3>1. e \in Nat /\ Following(e, held, z, z, accepted)
      BY <2>1, <2>2
    <3>2. z \in Seq(Seq(Nat)) /\ bs = Append(z, x) /\ bs \in Seq(Seq(Nat)) /\ bs # z
      BY <1>4
    <3>3. Head(bs) = x /\ Tail(bs) = z
      BY <1>4
    <3> HIDE DEF e, bs
    <3>4. Following(e, held, z, Append(z, Span(accepted, accepted + n)), accepted + n)
      <4> HIDE DEF z
      <4> QED BY <1>3, <3>1, <3>2, FollowingAppend
    <3>5. Following(e, held, z, bs, accepted')
      BY <1>1, <1>4, <3>2, <3>4
    <3>6. bs # <<>> /\ Following(e, held, <<>>, bs, accepted')
      BY <3>2, <3>5
    <3>7. Following(e, held \o Head(bs), <<>>, Tail(bs), accepted')
      BY <1>3, <1>5, <3>1, <3>2, <3>6, FollowingPush
    <3> QED BY <3>3, <3>7 DEF e, rows
  <2>5. /\ InPlace(FullBatches(rows), Sent, Arrays(accepted', Open'))
        /\ Following(Edge(Sent + Len(FullBatches(rows)), RecordBatch), Left(rows), <<>>, <<>>, accepted')
        /\ Len(Left(rows)) < RecordBatch
    <3> DEFINE k == Sent
               z == <<>>
               m == accepted'
               o == Open'
    <3>1. k \in Nat /\ m \in Nat /\ z \in Seq(Seq(Nat)) /\ Following(Edge(k, RecordBatch), rows, <<>>, z, m)
      BY <1>3, <1>6, <2>4 DEF Full
    <3> HIDE DEF k, z, m, o
    <3>2. /\ InPlace(FullBatches(rows), k, Arrays(m, o))
          /\ Following(Edge(k + Len(FullBatches(rows)), RecordBatch), Left(rows), <<>>, z, m)
          /\ Len(Left(rows)) < RecordBatch
      BY <1>7, <3>1, CutPieces
    <3> QED BY <3>2 DEF k, z, m, o
  <2>6. /\ InPlace(ready', Sent, HereArrays')
        /\ Following(Full(Sent + Len(ready')), held', <<>>, <<>>, accepted')
        /\ Len(held') < RecordBatch
    BY <1>8, <2>5 DEF HereArrays, Full, Arrays
  <2>7. Sent' = Sent
    BY <1>2 DEF Sent
  <2> QED BY <1>2, <1>10, <2>1, <2>3, <2>6, <2>7, PlaceMore DEF VortexToDo
<1> QED BY <1>11, <1>12, <1>13 DEF VortexInv

(* The first record batch that is ready is given to the writer. *)
LEMMA VortexSends ==
  ASSUME OwnerInv, VortexInv, VortexSend
  PROVE  VortexInv'
<1>1. /\ UNCHANGED <<ownerVars, token, producer, upload, held, arrays, footer, at>> /\ WriterStep
      /\ caller \in {"writing", "flushing"} /\ ready # <<>>
      /\ channel' = Append(channel, Head(ready)) /\ ready' = Tail(ready)
      /\ counted' = counted + Len(Head(ready))
  BY DEF VortexSend, WriterStep
<1>2. /\ ready \in Seq(Seq(Nat)) /\ arrays \in Seq(Seq(Nat)) /\ channel \in Seq(Seq(Nat))
      /\ accepted \in Nat
      /\ InPlace(channel, Len(arrays), HereArrays) /\ InPlace(ready, Sent, HereArrays)
      /\ counted = Upto(Sent, RecordBatch, accepted) /\ counted \in Nat
  BY <1>1 DEF VortexInv, StreamTypes, VortexToDo, WriterStep, OwnerInv
<1>3. Len(arrays) \in Nat /\ Len(channel) \in Nat /\ Sent \in Nat
  <2>1. Len(arrays) \in Nat /\ Len(channel) \in Nat
    BY <1>2
  <2> QED BY <2>1 DEF Sent
<1> DEFINE x == Head(ready)
<1>4. /\ <<x, Sent + 1>> \in HereArrays /\ InPlace(<<x>>, Sent, HereArrays)
      /\ InPlace(Tail(ready), Sent + 1, HereArrays)
  <2> DEFINE k == Sent
  <2>1. k \in Nat /\ InPlace(ready, k, HereArrays)
    BY <1>2, <1>3
  <2> HIDE DEF k
  <2>2. /\ <<x, k + 1>> \in HereArrays /\ InPlace(<<x>>, k, HereArrays)
        /\ InPlace(Tail(ready), k + 1, HereArrays)
    BY <1>1, <1>2, <2>1, PlaceHead
  <2> QED BY <2>2 DEF k
<1>5. /\ x \in Seq(Nat) /\ Len(x) \in Nat
      /\ Upto(Sent + 1, RecordBatch, accepted) = Upto(Sent, RecordBatch, accepted) + Len(x)
  <2> DEFINE k == Sent
  <2>1. k \in Nat /\ <<x, k + 1>> \in Arrays(accepted, Open)
    BY <1>3, <1>4 DEF HereArrays
  <2> HIDE DEF k, x
  <2>2. /\ x \in Seq(Nat) /\ Len(x) \in Nat
        /\ Upto(k + 1, RecordBatch, accepted) = Upto(k, RecordBatch, accepted) + Len(x)
    BY <1>2, <2>1, ArrayCounted
  <2> QED BY <2>2 DEF k
<1>6. /\ channel' \in Seq(Seq(Nat)) /\ Len(channel') = Len(channel) + 1
      /\ ready' \in Seq(Seq(Nat)) /\ Len(ready') + 1 = Len(ready) /\ Len(ready') \in Nat
  BY <1>1, <1>2, <1>5
<1>7. Sent' = Sent + 1 /\ Sent' + Len(ready') = Sent + Len(ready)
  <2>1. arrays' = arrays
    BY <1>1
  <2>2. Sent' = Len(arrays) + (Len(channel) + 1)
    BY <1>6, <2>1 DEF Sent
  <2>3. Sent' = Sent + 1
    BY <1>3, <2>2 DEF Sent
  <2> DEFINE a == Len(ready')
             b == Len(ready)
             c == Sent
  <2>4. a \in Nat /\ b = a + 1 /\ c \in Nat /\ Sent' = c + 1
    BY <1>3, <1>6, <2>3
  <2> HIDE DEF a, b, c
  <2>5. Sent' + a = c + b
    BY <2>4
  <2> QED BY <2>4, <2>5 DEF a, b, c
<1>8. InPlace(channel', Len(arrays), HereArrays)
  <2> DEFINE k == Len(arrays)
  <2>1. k \in Nat /\ InPlace(channel, k, HereArrays) /\ InPlace(<<x>>, k + Len(channel), HereArrays)
    BY <1>2, <1>3, <1>4 DEF Sent
  <2> HIDE DEF x, k
  <2>2. InPlace(Append(channel, x), k, HereArrays)
    BY <1>2, <1>5, <2>1, PlaceAppend
  <2> QED BY <1>1, <2>2 DEF x, k
<1>9. StreamTypes'
  <2>1. counted' \in Nat
    BY <1>1, <1>2, <1>5
  <2>2. held \in Seq(Nat) /\ footer \in BOOLEAN /\ at \in {"recv", "write", "last", "footer"}
    BY DEF VortexInv, StreamTypes
  <2> QED BY <1>1, <1>2, <1>6, <2>1, <2>2 DEF StreamTypes
<1>10. VortexDone'
  BY <1>1, SameArrays DEF VortexInv, VortexDone, WriterStep, WriterOver, Over
<1>11. VortexToDo'
  <2>1. counted' = Upto(Sent', RecordBatch, accepted)
    BY <1>1, <1>2, <1>5, <1>7
  <2>2. InPlace(ready', Sent', HereArrays)
    BY <1>1, <1>4, <1>7
  <2>3. caller = "writing" => /\ Following(Full(Sent' + Len(ready')), held', <<>>, <<>>, accepted)
                              /\ Len(held') < RecordBatch
    BY <1>1, <1>7 DEF VortexInv, VortexToDo, WriterStep
  <2>4. caller = "flushing" => accepted <= Full(Sent' + Len(ready'))
    BY <1>1, <1>7 DEF VortexInv, VortexToDo, WriterStep
  <2> QED BY <1>1, <1>8, <2>1, <2>2, <2>3, <2>4, SameArrays DEF VortexToDo
<1> QED BY <1>9, <1>10, <1>11 DEF VortexInv

(* A batch is not sent: the sink fails. *)
LEMMA VortexDoesNotSend ==
  ASSUME OwnerInv, VortexInv, VortexSendFails
  PROVE  VortexInv'
<1>1. /\ UNCHANGED <<accepted, producer, channel, held, counted, arrays, footer, at>>
      /\ ready' = Tail(ready) /\ ready # <<>>
      /\ caller \in {"writing", "flushing"} /\ caller' \in {"failed", "cancelling"}
      /\ InputOpen /\ ~Open'
  BY DEF VortexSendFails, CallerFails, CancelFirst, InputOpen, Unfinished, Open
<1>2. HereArrays \subseteq HereArrays'
  BY <1>1, ArraysKept DEF OwnerInv, Quieter
<1>3. StreamTypes'
  <2>1. ready' \in Seq(Seq(Nat))
    BY <1>1 DEF VortexInv, StreamTypes
  <2> QED BY <1>1, <2>1 DEF VortexInv, StreamTypes
<1>4. VortexDone'
  BY <1>1, <1>2, PlaceMore DEF VortexInv, VortexDone
<1>5. VortexToDo'
  <2>1. Sent' = Sent
    BY <1>1 DEF Sent
  <2> QED BY <1>1, <1>2, <2>1, PlaceMore DEF VortexInv, VortexToDo, WriterOver
<1> QED BY <1>3, <1>4, <1>5 DEF VortexInv

(* What the coalescer still holds is made ready. *)
LEMMA VortexFlushes ==
  ASSUME OwnerInv, VortexInv, VortexFlush
  PROVE  VortexInv'
<1>1. /\ UNCHANGED <<accepted, producer, channel, counted, arrays, footer, at>>
      /\ caller = "writing" /\ caller' = "flushing" /\ ready = <<>>
      /\ ready' = IF held = <<>> THEN <<>> ELSE <<held>>
      /\ held' = <<>> /\ InputOpen /\ ~Open'
  BY DEF VortexFlush, InputOpen, Unfinished, Open, Buffered
<1>2. HereArrays \subseteq HereArrays' /\ HereArrays' = Arrays(accepted, FALSE)
  <2>1. HereArrays \subseteq HereArrays'
    BY <1>1, ArraysKept DEF OwnerInv, Quieter
  <2>2. Open' = FALSE
    BY <1>1 DEF Open
  <2> QED BY <1>1, <2>1, <2>2 DEF HereArrays, Arrays
<1>3. held \in Seq(Nat) /\ accepted \in Nat
  BY DEF VortexInv, StreamTypes, OwnerInv
<1>4. Sent \in Nat /\ Sent + Len(ready) = Sent /\ Sent' = Sent
  <2>1. Len(arrays) \in Nat /\ Len(channel) \in Nat /\ Len(ready) = 0
    BY <1>1 DEF VortexInv, StreamTypes
  <2>2. Sent' = Sent
    BY <1>1 DEF Sent
  <2> QED BY <2>1, <2>2 DEF Sent
<1>5. StreamTypes'
  <2>1. ready' \in Seq(Seq(Nat))
    BY <1>1, <1>3
  <2> QED BY <1>1, <2>1 DEF VortexInv, StreamTypes
<1>6. VortexDone'
  BY <1>1, <1>2, PlaceMore DEF VortexInv, VortexDone
<1>7. VortexToDo'
  <2> SUFFICES ASSUME ~WriterOver PROVE VortexToDo'
    BY <1>1 DEF VortexToDo, WriterOver
  <2>1. /\ InPlace(channel, Len(arrays), HereArrays) /\ counted = Upto(Sent, RecordBatch, accepted)
        /\ Following(Full(Sent), held, <<>>, <<>>, accepted) /\ Len(held) < RecordBatch
    BY <1>1, <1>4 DEF VortexInv, VortexToDo
  <2>2. IF held = <<>> THEN accepted <= Full(Sent)
        ELSE <<held, Sent + 1>> \in Arrays(accepted, FALSE) /\ accepted <= Full(Sent + 1)
    <3> DEFINE k == Sent
    <3>1. k \in Nat /\ Following(Edge(k, RecordBatch), held, <<>>, <<>>, accepted)
      BY <1>4, <2>1 DEF Full
    <3> HIDE DEF k
    <3>2. IF held = <<>> THEN accepted <= Edge(k, RecordBatch)
          ELSE <<held, k + 1>> \in Arrays(accepted, FALSE) /\ accepted <= Edge(k + 1, RecordBatch)
      BY <1>3, <2>1, <3>1, LastArray
    <3> QED BY <3>2 DEF k, Full
  <2>3. InPlace(ready', Sent, HereArrays') /\ accepted <= Full(Sent + Len(ready'))
    <3>1. CASE held = <<>>
      <4>1. ready' = <<>> /\ ready' = ready
        BY <1>1, <3>1
      <4> QED BY <1>4, <2>2, <3>1, <4>1, PlaceNone
    <3>2. CASE held # <<>>
      <4>1. ready' = <<held>> /\ Len(ready') = 1
        BY <1>1, <3>2
      <4>2. InPlace(<<held>>, Sent, HereArrays')
        BY <1>2, <1>4, <2>2, <3>2, PlaceOne
      <4> QED BY <2>2, <3>2, <4>1, <4>2
    <3> QED BY <3>1, <3>2
  <2> QED BY <1>1, <1>2, <1>4, <2>1, <2>3, PlaceMore DEF VortexToDo
<1> QED BY <1>5, <1>6, <1>7 DEF VortexInv

(* The writer takes a record batch. *)
LEMMA VortexTakes ==
  ASSUME OwnerInv, VortexInv, VortexRecv
  PROVE  VortexInv'
<1>1. /\ UNCHANGED <<held, ready, counted, footer, at>> /\ WriterStep
      /\ channel # <<>> /\ producer' = "running"
      /\ arrays' = Append(arrays, Head(channel)) /\ channel' = Tail(channel)
  BY DEF VortexRecv, WriterStep
<1>2. /\ arrays \in Seq(Seq(Nat)) /\ channel \in Seq(Seq(Nat))
      /\ InPlace(arrays, 0, HereArrays) /\ InPlace(channel, Len(arrays), HereArrays)
  BY <1>1 DEF VortexInv, StreamTypes, VortexDone, VortexToDo, WriterStep
<1> DEFINE k == Len(arrays)
           x == Head(channel)
<1>3. k \in Nat
  BY <1>2
<1>4. InPlace(<<x>>, k, HereArrays) /\ InPlace(Tail(channel), k + 1, HereArrays)
  <2>1. k \in Nat /\ InPlace(channel, k, HereArrays)
    BY <1>2, <1>3
  <2> HIDE DEF k
  <2> QED BY <1>1, <1>2, <2>1, PlaceHead
<1>5. /\ x \in Seq(Nat) /\ arrays' \in Seq(Seq(Nat)) /\ Len(arrays') = k + 1
      /\ channel' \in Seq(Seq(Nat)) /\ Len(channel') + 1 = Len(channel) /\ Len(channel') \in Nat
  BY <1>1, <1>2
<1>6. InPlace(arrays', 0, HereArrays)
  <2>1. InPlace(<<x>>, 0 + Len(arrays), HereArrays)
    <3>1. 0 + Len(arrays) = k
      BY <1>3
    <3> QED BY <1>4, <3>1
  <2> HIDE DEF x, k
  <2>2. InPlace(Append(arrays, x), 0, HereArrays)
    BY <1>2, <1>5, <2>1, PlaceAppend
  <2> QED BY <1>1, <2>2 DEF x
<1>7. Sent' = Sent
  <2> DEFINE a == Len(channel')
             b == Len(channel)
  <2>1. a \in Nat /\ b = a + 1 /\ Sent' = k + 1 + a /\ Sent = k + b
    BY <1>5 DEF Sent
  <2> HIDE DEF a, b, k
  <2> QED BY <1>3, <2>1
<1>8. StreamTypes'
  BY <1>1, <1>5 DEF VortexInv, StreamTypes
<1>9. VortexDone'
  BY <1>1, <1>6, SameArrays DEF VortexDone
<1>10. VortexToDo'
  <2>1. InPlace(channel', Len(arrays'), HereArrays')
    BY <1>1, <1>4, <1>5, SameArrays
  <2> QED BY <1>1, <1>7, <2>1, SameArrays DEF VortexInv, VortexToDo, WriterStep
<1> QED BY <1>8, <1>9, <1>10 DEF VortexInv

(* The writer ends. *)
LEMMA VortexStops ==
  ASSUME OwnerInv, VortexInv, VortexFooter \/ VortexFails \/ VortexCancelled
  PROVE  VortexInv'
<1>1. /\ UNCHANGED <<held, ready, counted, arrays, at>> /\ WriterStep /\ channel' = <<>>
      /\ producer' \in {"ok", "err", "panicked"} /\ footer' \in {footer, TRUE}
      /\ producer' = "ok" => footer' = TRUE /\ channel = <<>> /\ ~InputOpen
  BY DEF VortexFooter, VortexFails, VortexCancelled, WriterEnds, WriterStep
<1>2. StreamTypes'
  <2>1. footer' \in BOOLEAN
    BY <1>1 DEF VortexInv, StreamTypes
  <2> QED BY <1>1, <2>1 DEF VortexInv, StreamTypes
<1>3. VortexDone'
  <2>1. producer' = "ok" /\ caller = "finishing" =>
          accepted <= Full(Len(arrays)) /\ counted = Upto(Len(arrays), RecordBatch, accepted)
    <3> SUFFICES ASSUME producer' = "ok", caller = "finishing"
                 PROVE  accepted <= Full(Len(arrays)) /\ counted = Upto(Len(arrays), RecordBatch, accepted)
      OBVIOUS
    <3>1. Len(arrays) \in Nat /\ Len(channel) = 0
      BY <1>1 DEF VortexInv, StreamTypes
    <3>2. Sent = Len(arrays)
      BY <3>1 DEF Sent
    <3> QED BY <1>1, <3>2 DEF VortexInv, VortexToDo, WriterStep
  <2>2. caller # "completing"
    BY <1>1 DEF OwnerInv, WriterStep, WriterOver
  <2> QED BY <1>1, <2>1, <2>2, SameArrays DEF VortexInv, VortexDone
<1>4. VortexToDo'
  BY <1>1 DEF VortexToDo, WriterOver, Over
<1> QED BY <1>2, <1>3, <1>4 DEF VortexInv

-----------------------------------------------------------------------------
(* Both                                                                     *)
(* What the owner's calls do where the Vortex sink stands. *)
LEMMA VortexCalls ==
  ASSUME Abort \/ Drop \/ TaskOwner \/ Upload \/ UploadBreaks
  PROVE  /\ caller' \in {"writing", "flushing", "finishing"} => caller' = caller
         /\ caller' = "completing" => caller \in {"completing", "finishing"}
BY DEF Abort, CancelFirst, Drop, TaskOwner, FinishJoined, CloseInput, Completed, Aborted,
       Upload, UploadAborts, UploadCompletes, UploadBreaks, UploadSteps, ownerVars

(* A step of a stream is one of its own format. *)
ArrowStep == \/ ArrowWriteBatch \/ ArrowWriter
             \/ OwnerAct /\ UNCHANGED streamVars
VortexStep ==
  \/ VortexWriteBatch \/ VortexSend \/ VortexSendFails \/ VortexFlush \/ VortexWriter
  \/ /\ OwnerAct /\ UNCHANGED streamVars
     /\ caller' \in {"writing", "flushing"} => caller' = caller
     /\ caller' = "finishing" => caller = "finishing" \/ (caller = "flushing" /\ ready = <<>>)
     /\ caller' = "completing" => caller \in {"completing", "finishing"}

(* Every step of the streams is one of these. *)
LEMMA StreamSteps ==
  ASSUME StreamNext
  PROVE  \/ format = "arrow" /\ ArrowStep
         \/ format = "vortex" /\ VortexStep
<1>1. ArrowWriteBatch \/ ArrowWriter => format = "arrow"
  BY DEF ArrowWriteBatch, ArrowWriter, ArrowCancelled, ArrowStart, ArrowRecv, ArrowCheck, ArrowWrite,
         ArrowEof, ArrowFooter, ArrowFails
<1>2. VortexWriteBatch \/ VortexSend \/ VortexSendFails \/ VortexFlush \/ VortexWriter => format = "vortex"
  BY DEF VortexWriteBatch, VortexSend, VortexSendFails, VortexFlush, VortexWriter, VortexRecv,
         VortexFooter, VortexCancelled, VortexFails
<1>3. ArrowWriteFails \/ ArrowFinish => format = "arrow" /\ OwnerAct /\ UNCHANGED streamVars
  BY DEF ArrowWriteFails, ArrowFinish, OwnerAct
<1>4. VortexFinish => format = "vortex" /\ VortexStep
  BY DEF VortexFinish, JoinProducer, OwnerAct, VortexStep
<1>5. CASE /\ format \in {"arrow", "vortex"}
           /\ Abort \/ Drop \/ TaskOwner \/ Upload \/ UploadBreaks
           /\ UNCHANGED streamVars
  <2>1. OwnerAct
    BY <1>5 DEF OwnerAct
  <2> QED BY <1>5, <2>1, VortexCalls DEF ArrowStep, VortexStep
<1> QED BY <1>1, <1>2, <1>3, <1>4, <1>5 DEF StreamNext, ArrowStep, VortexStep, VortexFlushing

(* Every step of an Arrow output. *)
LEMMA ArrowKept ==
  ASSUME OwnerInv, ArrowInv, ArrowStep
  PROVE  ArrowInv'
<1>1. CASE OwnerAct /\ UNCHANGED streamVars
  BY <1>1, OwnerMoves, ArrowOwner
<1> QED BY <1>1, ArrowBatch, ArrowWrites DEF ArrowStep

(* Every step of a Vortex output. *)
LEMMA VortexKept ==
  ASSUME OwnerInv, VortexInv, VortexStep
  PROVE  VortexInv'
<1>1. CASE /\ OwnerAct /\ UNCHANGED streamVars
           /\ caller' \in {"writing", "flushing"} => caller' = caller
           /\ caller' = "finishing" => caller = "finishing" \/ (caller = "flushing" /\ ready = <<>>)
           /\ caller' = "completing" => caller \in {"completing", "finishing"}
  <2>1. OwnerStep
    BY <1>1, OwnerMoves
  <2> QED BY <1>1, <2>1, VortexOwner
<1> QED BY <1>1, VortexBatch, VortexSends, VortexDoesNotSend, VortexFlushes, VortexTakes, VortexStops
        DEF VortexStep, VortexWriter

(* The streams begin. *)
LEMMA StreamsBegin ==
  ASSUME TaskInit, StreamInit
  PROVE  ArrowInv /\ VortexInv
<1>1. /\ caller = "writing" /\ accepted = 0 /\ token = FALSE /\ producer = "starting"
      /\ channel = <<>> /\ held = <<>> /\ ready = <<>> /\ counted = 0
      /\ arrays = <<>> /\ footer = FALSE /\ at = "recv"
  BY DEF TaskInit, StreamInit
<1>2. RecordBatch \in Nat \ {0} /\ Edge(0, RecordBatch) = 0 /\ Upto(0, RecordBatch, 0) = 0
  BY StreamAssumption, EdgeZero DEF Upto
<1>3. Following(Edge(0, RecordBatch), <<>>, <<>>, <<>>, 0)
  <2>1. Following(0, Span(0, 0), Span(0, 0), <<>>, 0)
    <3>1. 0 \in Nat /\ 0 <= 0 /\ Chain(<<>>, 0, 0)
      BY ChainOfNothing
    <3> QED BY <3>1, FollowingWhole
  <2>2. Span(0, 0) = <<>>
    BY SpanOfNothing
  <2> QED BY <1>2, <2>1, <2>2
<1>4. Len(arrays) = 0 /\ Len(ready) = 0 /\ Len(held) = 0 /\ Len(arrays) + Len(ready) = 0 /\ Sent = 0
      /\ Sent + Len(ready) = 0
  BY <1>1 DEF Sent
<1>5. StreamTypes
  <2>1. channel \in Seq(Seq(Nat)) /\ ready \in Seq(Seq(Nat)) /\ arrays \in Seq(Seq(Nat))
    BY <1>1
  <2>2. held \in Seq(Nat) /\ counted \in Nat
    BY <1>1
  <2>3. footer \in BOOLEAN
    BY <1>1
  <2>4. at \in {"recv", "write", "last", "footer"}
    BY <1>1
  <2> QED BY <2>1, <2>2, <2>3, <2>4 DEF StreamTypes
<1>6. ArrowPlace
  BY <1>1 DEF ArrowPlace
<1>7. ArrowDone /\ VortexDone
  BY <1>1, <1>2, <1>4, PlaceNone DEF ArrowDone, VortexDone
<1>8. ArrowToDo
  BY <1>1, <1>2, <1>3, <1>4, PlaceNone DEF ArrowToDo, Full
<1>9. VortexToDo
  BY <1>1, <1>2, <1>3, <1>4, PlaceNone DEF VortexToDo, Full
<1> QED BY <1>5, <1>6, <1>7, <1>8, <1>9 DEF ArrowInv, VortexInv

(***************************************************************************)
(* Whole objects                                                           *)
(***************************************************************************)

(* The object has all of its rows and its footer. *)
Whole == Complete /\ accepted <= Edge(Len(Pieces), PieceRows) /\ RowsWritten = accepted

(* The invariant of a sink in any of the formats. *)
FormatInv ==
  /\ OwnerInv /\ Idle
  /\ format = "parquet" => PipeInv
  /\ format = "arrow" => ArrowInv
  /\ format = "vortex" => VortexInv
SinkInv == FormatInv /\ (upload \in {"completing", "published"} => Whole)

(* It holds at the beginning. *)
LEMMA FormatsBegin ==
  ASSUME Init
  PROVE  FormatInv
<1>1. TaskInit /\ ParquetInit /\ StreamInit
  BY DEF Init
<1>2. OwnerInv
  BY <1>1 DEF TaskInit, OwnerInv, Formats, Callers, Uploads, Before, Decided
<1>3. Idle
  BY <1>1 DEF ParquetInit, Idle
<1>4. PipeInv
  BY <1>1, PipeBegins
<1>5. ArrowInv /\ VortexInv
  BY <1>1, StreamsBegin
<1> QED BY <1>2, <1>3, <1>4, <1>5 DEF FormatInv

(* Every step keeps it. *)
LEMMA FormatsKept ==
  ASSUME FormatInv, [Next]_vars
  PROVE  FormatInv'
<1>1. CASE format = "parquet" /\ ParquetNext
  <2>1. OwnerInv' /\ PipeInv' /\ format' = format
    BY <1>1, PipeStep DEF FormatInv
  <2> QED BY <1>1, <2>1 DEF FormatInv, Idle
<1>2. CASE StreamNext /\ UNCHANGED pipelineVars
  <2>1. OwnerInv' /\ format' = format /\ format # "parquet"
    BY <1>2, StreamOwner DEF FormatInv
  <2>2. Idle'
    BY <1>2, <2>1 DEF FormatInv, Idle, pipelineVars, encVars, writeVars, inVars
  <2>3. CASE format = "arrow"
    <3>1. ArrowStep
      BY <1>2, <2>3, StreamSteps
    <3> QED BY <2>1, <2>2, <2>3, <3>1, ArrowKept DEF FormatInv
  <2>4. CASE format = "vortex"
    <3>1. VortexStep
      BY <1>2, <2>4, StreamSteps
    <3> QED BY <2>1, <2>2, <2>4, <3>1, VortexKept DEF FormatInv
  <2> QED BY <1>2, <2>3, <2>4, StreamSteps
<1>3. CASE UNCHANGED vars
  <2>1. UNCHANGED <<taskState, pipelineVars, streamVars>>
    BY <1>3 DEF vars
  <2> USE <2>1 DEF taskState, ownerVars
  <2>2. OwnerInv'
    BY DEF FormatInv, OwnerInv
  <2>3. OwnerStep
    BY DEF OwnerStep, Open, InputOpen, Unfinished, Produced
  <2>4. Idle'
    BY DEF FormatInv, Idle, pipelineVars, encVars, writeVars, inVars
  <2>5. format = "parquet" => PipeInv'
    <3> SUFFICES ASSUME format = "parquet" PROVE PipeInv'
      OBVIOUS
    <3>1. PipeInv
      BY DEF FormatInv
    <3>2. PlaceInv' /\ JobInv'
      <4>1. ing' = ing /\ enc' = enc /\ wri' = wri
        BY DEF ing, enc, wri, pipelineVars
      <4>2. PlaceInv'
        BY <3>1, <4>1 DEF PipeInv, PlaceInv, pipelineVars, encVars, writeVars, inVars, InputOpen, Unfinished
      <4>3. Fresh' = Fresh /\ Quiet' = Quiet
        BY <4>1 DEF Fresh, Quiet, Running, pipelineVars, encVars, writeVars, inVars
      <4> QED BY <3>1, <4>2, <4>3 DEF PipeInv, JobInv, Ended, Is, pipelineVars
    <3>3. FlowInv'
      <4>1. accepted \in Nat /\ Quieter
        BY DEF FormatInv, OwnerInv, Quieter, Open
      <4> QED BY <3>1, <4>1, FlowStays DEF PipeInv, pipelineVars, encVars, writeVars, inVars
    <3> QED BY <3>2, <3>3 DEF PipeInv
  <2>6. format = "arrow" => ArrowInv'
    BY <2>3, ArrowOwner DEF FormatInv
  <2>7. format = "vortex" => VortexInv'
    BY <2>3, VortexOwner DEF FormatInv
  <2> QED BY <2>2, <2>4, <2>5, <2>6, <2>7 DEF FormatInv
<1> QED BY <1>1, <1>2, <1>3 DEF Next

(* A sink whose producer has done its work is whole. *)
LEMMA FinishedWhole ==
  ASSUME FormatInv, caller = "finishing", producer \in {"ok", "cancelled"}
  PROVE  Whole
<1>0. /\ accepted \in Nat /\ format \in {"parquet", "arrow", "vortex"} /\ caller \in Trusting
      /\ GroupRows \in Nat /\ RecordBatch \in Nat
  BY SinkAssumption, StreamAssumption DEF FormatInv, OwnerInv, Formats, Trusting
<1>1. CASE format = "parquet"
  <2>1. PlaceInv /\ JobInv /\ FlowInv
    BY <1>1 DEF FormatInv, PipeInv
  <2>2. producer = "ok" /\ ~failed /\ joined = Stages /\ ~token
    BY <1>0, <2>1 DEF JobInv
  <2>3. ing = "ok" /\ enc = "ok" /\ wri = "ok"
    <3>1. \A s \in Stages : stage[s] = "ok"
      BY <2>1, <2>2 DEF JobInv, Ended, Is, Ends
    <3> QED BY <3>1 DEF Stages, ing, enc, wri
  <2>4. closed /\ group = <<>> /\ encoded = <<>>
    BY <2>1, <2>3 DEF PlaceInv, Ends
  <2>5. Len(file) \in Nat
    BY <2>1 DEF FlowInv, QueuesInv
  <2>6. Written = Len(file) /\ Encoded = Len(file)
    <3>1. Len(group) = 0 /\ Len(encoded) = 0
      BY <2>4
    <3> QED BY <2>5, <3>1 DEF Written, Encoded
  <2>7. accepted <= Edge(Len(file), GroupRows) /\ total = Upto(Len(file), GroupRows, accepted)
    BY <2>1, <2>3, <2>6 DEF FlowInv, EndInv, FileInv, Ends
  <2>8. Edge(Len(file), GroupRows) \in Nat
    BY <1>0, <2>5, EdgeType
  <2>9. total = accepted
    BY <1>0, <2>7, <2>8 DEF Upto
  <2>10. Len(Pieces) = Len(file)
    <3>1. file \in Seq(Group)
      BY <2>1 DEF FlowInv, QueuesInv
    <3>2. DOMAIN file = 1..Len(file)
      BY <3>1
    <3>3. Pieces = [i \in 1..Len(file) |-> file[i].rows]
      BY <1>1, <3>2 DEF Pieces
    <3> QED BY <2>5, <3>3
  <2> QED BY <1>1, <2>4, <2>7, <2>9, <2>10 DEF Whole, Complete, PieceRows, RowsWritten
<1>2. CASE format \in {"arrow", "vortex"}
  <2>1. /\ footer /\ accepted <= Full(Len(arrays)) /\ counted = Upto(Len(arrays), RecordBatch, accepted)
        /\ Len(arrays) \in Nat
    <3>1. CASE format = "arrow"
      BY <1>0, <3>1 DEF FormatInv, ArrowInv, ArrowPlace, ArrowDone, StreamTypes
    <3>2. CASE format = "vortex"
      BY <1>0, <3>2 DEF FormatInv, VortexInv, VortexDone, StreamTypes
    <3> QED BY <1>2, <3>1, <3>2
  <2>2. Full(Len(arrays)) \in Nat
    BY <1>0, <2>1, EdgeType DEF Full
  <2>3. counted = accepted
    BY <1>0, <2>1, <2>2 DEF Upto, Full
  <2> QED BY <1>2, <2>1, <2>3 DEF Whole, Complete, Pieces, PieceRows, RowsWritten, Full
<1> QED BY <1>0, <1>1, <1>2

Contents == <<format, accepted, file, closed, total, arrays, counted, footer>>

(* An object that is settled stays as it is. *)
LEMMA ObjectSettled ==
  ASSUME FormatInv, [Next]_vars, upload \in Decided
  PROVE  UNCHANGED Contents
<1>0. /\ producer \in {"ok", "cancelled"} /\ WriterOver /\ caller \in {"completing", "gone"}
  BY DEF FormatInv, OwnerInv, WriterOver, Over, Decided, Before, Callers
<1>1. CASE format = "parquet" /\ ParquetNext /\ UNCHANGED streamVars
  <2>1. PlaceInv /\ JobInv
    BY <1>1 DEF FormatInv, PipeInv
  <2>2. producer = "ok" /\ writing = "none" /\ ing \in Ends /\ enc \in Ends /\ wri \in Ends
    BY <1>0, <2>1 DEF JobInv, Fresh, Quiet, Ended, Stages, ing, enc, wri
  <2>3. CASE OwnerAct /\ UNCHANGED pipelineVars
    BY <1>1, <2>3, OwnerMoves
       DEF FormatInv, OwnerStep, Contents, pipelineVars, writeVars, streamVars
  <2>4. CASE Ingestion \/ AnalysisEnds \/ Encoder \/ EncodeTask
    BY <1>1, <2>4
       DEF Ingestion, IngestRecv, IngestEof, IngestFill, MakeGroup, IngestSend, IngestSendClosed,
           IngestFails, EndIngestion, AnalysisEnds, Encoder, EncoderRecv, EncoderNext, EncoderSend,
           EncoderSendClosed, EncoderEof, EndEncoder, EncodeTask, EncodeEnds,
           Contents, ownerVars, writeVars, streamVars
  <2>5. CASE Settle
    BY <1>1, <2>5 DEF Settle, Start, JoinStage, PipeEnds, Contents, ownerVars, writeVars, streamVars
  <2>6. ~Writer /\ ~WriteTask /\ ~StageCancelled /\ ~WriteBatch
    BY <2>2 DEF Writer, WriterRecv, WriterEof, WriteTask, WriteTaskOk, WriteTaskFails, StageCancelled,
                WriteBatch, Receiving
  <2> QED BY <1>1, <2>3, <2>4, <2>5, <2>6 DEF ParquetNext, OwnerAct, WriteFails, Finish
<1>2. CASE StreamNext /\ UNCHANGED pipelineVars
  <2>1. format' = format
    BY <1>2, StreamOwner DEF FormatInv
  <2>2. CASE OwnerAct /\ UNCHANGED streamVars
    BY <1>2, <2>1, <2>2, OwnerMoves
       DEF FormatInv, OwnerStep, Contents, pipelineVars, writeVars, streamVars
  <2>3. CASE VortexSendFails
    BY <1>0, <2>3 DEF VortexSendFails, CallerFails, CancelFirst
  <2>4. ~ArrowWriteBatch /\ ~ArrowWriter
    BY <1>0 DEF ArrowWriteBatch, ArrowWriter, ArrowCancelled, ArrowStart, ArrowRecv, ArrowCheck, ArrowWrite,
                ArrowEof, ArrowFooter, ArrowFails, WriterOver, Over
  <2>5. ~VortexWriteBatch /\ ~VortexSend /\ ~VortexFlush /\ ~VortexWriter
    BY <1>0 DEF VortexWriteBatch, VortexSend, VortexFlush, VortexWriter, VortexRecv, VortexFooter,
                VortexCancelled, VortexFails
  <2> QED BY <1>2, <2>2, <2>3, <2>4, <2>5, StreamSteps DEF ArrowStep, VortexStep
<1>3. CASE UNCHANGED vars
  BY <1>3 DEF vars, taskState, pipelineVars, streamVars, Contents, ownerVars, writeVars
<1> QED BY <1>1, <1>2, <1>3 DEF Next

(* What goes on beside the owner, as it sees it. *)
Beside ==
  /\ UNCHANGED <<format, report, upload, hadEnded>>
  /\ caller' = caller \/ (caller = "writing" /\ caller' = "flushing")
  /\ accepted' \in Nat /\ accepted <= accepted' /\ (accepted' # accepted => caller = "writing")
  /\ producer \in Over => producer' = producer

(* Every step is a call of the owner, which changes no contents, or none. *)
LEMMA SinkActs ==
  ASSUME FormatInv, [Next]_vars
  PROVE  (OwnerAct /\ UNCHANGED Contents) \/ Beside
<1>0. accepted \in Nat
  BY DEF FormatInv, OwnerInv
<1>1. CASE format = "parquet" /\ ParquetNext /\ UNCHANGED streamVars
  <2>1. PlaceInv /\ JobInv
    BY <1>1 DEF FormatInv, PipeInv
  <2>2. CASE OwnerAct /\ UNCHANGED pipelineVars
    BY <1>1, <2>2, OwnerMoves
       DEF FormatInv, OwnerStep, Contents, pipelineVars, writeVars, streamVars
  <2>3. CASE WriteBatch
    <3>1. PICK n \in BatchRows : accepted' = accepted + n
      BY <2>3 DEF WriteBatch
    <3>2. accepted' \in Nat /\ accepted <= accepted'
      BY <1>0, <3>1, TaskAssumption
    <3> QED BY <2>3, <3>2 DEF WriteBatch, Beside, taskVars
  <2>4. CASE StageAct
    <3>1. StageStep
      BY <2>1, <2>4, StageSteps
    <3> QED BY <1>0, <3>1 DEF StageStep, Beside, ownerVars, taskVars
  <2>5. CASE Settle
    <3>1. producer \in Over => producer' = producer
      BY <1>1, <2>1, <2>5, SettleSteps DEF FormatInv
    <3>2. UNCHANGED <<ownerVars, upload>>
      BY <2>5 DEF Settle, Start, JoinStage, PipeEnds
    <3> QED BY <1>0, <3>1, <3>2 DEF Beside, ownerVars
  <2> QED BY <1>1, <2>2, <2>3, <2>4, <2>5 DEF ParquetNext, StageAct, OwnerAct, WriteFails, Finish
<1>2. CASE StreamNext /\ UNCHANGED pipelineVars
  <2>1. format' = format
    BY <1>2, StreamOwner DEF FormatInv
  <2>2. CASE OwnerAct /\ UNCHANGED streamVars
    BY <1>2, <2>1, <2>2, OwnerMoves
       DEF FormatInv, OwnerStep, Contents, pipelineVars, writeVars, streamVars
  <2>3. CASE VortexSendFails
    <3>1. OwnerAct
      BY <2>3 DEF VortexSendFails, OwnerAct
    <3> QED BY <1>2, <2>1, <2>3, <3>1, OwnerMoves
            DEF FormatInv, OwnerStep, Contents, pipelineVars, writeVars, VortexSendFails
  <2>4. CASE ArrowWriteBatch \/ VortexWriteBatch
    <3>1. PICK n \in BatchRows : accepted' = accepted + n
      BY <2>4 DEF ArrowWriteBatch, VortexWriteBatch
    <3>2. accepted' \in Nat /\ accepted <= accepted'
      BY <1>0, <3>1, TaskAssumption
    <3> QED BY <2>4, <3>2 DEF ArrowWriteBatch, VortexWriteBatch, Beside
  <2>5. CASE VortexFlush
    BY <1>0, <2>5 DEF VortexFlush, Beside
  <2>6. CASE ArrowWriter \/ VortexWriter \/ VortexSend
    BY <1>0, <2>6
       DEF ArrowWriter, VortexWriter, VortexSend, Beside, ownerVars, ArrowCancelled, ArrowStart,
           ArrowRecv, ArrowCheck, ArrowWrite, ArrowEof, ArrowFooter, ArrowFails, VortexRecv, VortexFooter,
           VortexCancelled, VortexFails, WriterEnds, WriterOver, Over
  <2> QED BY <1>2, <2>2, <2>3, <2>4, <2>5, <2>6, StreamSteps DEF ArrowStep, VortexStep
<1>3. CASE UNCHANGED vars
  BY <1>0, <1>3 DEF vars, taskState, ownerVars, Beside
<1> QED BY <1>1, <1>2, <1>3 DEF Next

(* An object is only completed by the finish of a producer that has done its
   work. *)
LEMMA CompletedByFinish ==
  ASSUME FormatInv, [Next]_vars, upload' \in {"completing", "published"}
  PROVE  \/ upload \in {"completing", "published"}
         \/ caller = "finishing" /\ producer \in {"ok", "cancelled"} /\ UNCHANGED Contents
<1>1. CASE OwnerAct /\ UNCHANGED Contents
  BY <1>1, OwnerMoves DEF FormatInv, OwnerStep, Produced
<1>2. CASE Beside
  BY <1>2 DEF Beside
<1> QED BY <1>1, <1>2, SinkActs

(* Whole contents that stay are whole. *)
LEMMA WholeStays ==
  ASSUME Whole, UNCHANGED Contents
  PROVE  Whole'
<1>1. /\ Complete' = Complete /\ Pieces' = Pieces /\ PieceRows' = PieceRows
      /\ RowsWritten' = RowsWritten /\ accepted' = accepted
  BY DEF Contents, Complete, Pieces, PieceRows, RowsWritten
<1> QED BY <1>1 DEF Whole

(* The invariant of the sinks. *)
LEMMA SinkKept ==
  ASSUME SinkInv, [Next]_vars
  PROVE  SinkInv'
<1>1. FormatInv'
  BY FormatsKept DEF SinkInv
<1>2. ASSUME upload' \in {"completing", "published"} PROVE Whole'
  <2>1. CASE upload \in {"completing", "published"}
    <3>1. Whole /\ UNCHANGED Contents
      BY <2>1, ObjectSettled DEF SinkInv, Decided
    <3> QED BY <3>1, WholeStays
  <2>2. CASE caller = "finishing" /\ producer \in {"ok", "cancelled"} /\ UNCHANGED Contents
    <3>1. Whole
      BY <2>2, FinishedWhole DEF SinkInv
    <3> QED BY <2>2, <3>1, WholeStays
  <2> QED BY <1>2, <2>1, <2>2, CompletedByFinish DEF SinkInv
<1> QED BY <1>1, <1>2 DEF SinkInv

(* In every behaviour of a sink, in any of the formats, the rows that it has
   accepted are where the stages and queues say, and an object that is completed
   is whole. *)
THEOREM RowsAreFollowed == Spec => []SinkInv
<1>1. Init => SinkInv
  <2> SUFFICES ASSUME Init PROVE SinkInv
    OBVIOUS
  <2>1. upload = "open"
    BY DEF Init, TaskInit
  <2> QED BY <2>1, FormatsBegin DEF SinkInv
<1>2. SinkInv /\ [Next]_vars => SinkInv'
  BY SinkKept
<1> QED BY <1>1, <1>2, PTL DEF Spec

(* When the pipeline of a Parquet output has ended, also after a failure or a
   cancellation, none of its tasks is left on the encoding and the writing
   runtime. *)
THEOREM PipelineLeavesNothing == Spec => []NothingLeft
<1>1. SinkInv => NothingLeft
  <2> SUFFICES ASSUME SinkInv, producer \in {"ok", "err"} PROVE Quiet
    BY DEF NothingLeft
  <2>1. CASE format = "parquet"
    <3>1. Fresh \/ Quiet
      BY <2>1 DEF SinkInv, FormatInv, PipeInv, JobInv
    <3> QED BY <3>1 DEF Fresh, Quiet, Running
  <2>2. CASE format # "parquet"
    BY <2>2 DEF SinkInv, FormatInv, Idle, Quiet, Running
  <2> QED BY <2>1, <2>2
<1> QED BY <1>1, RowsAreFollowed, PTL

(* The statistics by which the encodings of a row group were chosen are those of
   its own rows. *)
THEOREM AnalysisIsOfItsGroup == Spec => []AnalysisMatches
<1>1. SinkInv => AnalysisMatches
  <2> SUFFICES ASSUME SinkInv, analyze, NEW i \in DOMAIN file PROVE file[i].stats = file[i].rows
    BY DEF AnalysisMatches
  <2>1. CASE format = "parquet"
    <3>1. file \in Seq(Group) /\ InPlace(file, 0, Groups(accepted, Open, analyze))
      BY <2>1 DEF SinkInv, FormatInv, PipeInv, FlowInv, QueuesInv, FileInv
    <3>2. i \in 1..Len(file)
      BY <3>1
    <3>3. <<file[i], 0 + i>> \in Groups(accepted, Open, analyze)
      BY <3>1, <3>2 DEF InPlace
    <3> QED BY <3>3 DEF Groups
  <2>2. CASE format # "parquet"
    BY <2>2 DEF SinkInv, FormatInv, Idle
  <2> QED BY <2>1, <2>2
<1> QED BY <1>1, RowsAreFollowed, PTL

(* The pieces of the file, in any of the formats, are those of the stream. *)
LEMMA PiecesInPlace ==
  ASSUME SinkInv
  PROVE  /\ PieceRows \in Nat \ {0} /\ accepted \in Nat
         /\ Pieces \in Seq(Seq(Nat)) /\ Content = FlattenSeq(Pieces)
         /\ \A i \in 1..Len(Pieces) : IsPiece(Pieces[i], i, PieceRows, accepted, Open)
<1>0. /\ accepted \in Nat /\ format \in {"parquet", "arrow", "vortex"} /\ PieceRows \in Nat \ {0}
  BY SinkAssumption, StreamAssumption DEF SinkInv, FormatInv, OwnerInv, Formats, PieceRows
<1>1. CASE format = "parquet"
  <2>1. file \in Seq(Group) /\ InPlace(file, 0, Groups(accepted, Open, analyze))
    BY <1>1 DEF SinkInv, FormatInv, PipeInv, FlowInv, QueuesInv, FileInv
  <2>2. DOMAIN file = 1..Len(file) /\ Len(file) \in Nat /\ \A i \in 1..Len(file) : file[i] \in Group
    BY <2>1
  <2>3. Pieces = [i \in 1..Len(file) |-> file[i].rows] /\ PieceRows = GroupRows
    BY <1>1, <2>2 DEF Pieces, PieceRows
  <2>4. Pieces \in Seq(Seq(Nat)) /\ Len(Pieces) = Len(file)
    <3>1. \A i \in 1..Len(file) : file[i].rows \in Seq(Nat)
      BY <2>2 DEF Group
    <3> QED BY <2>2, <2>3, <3>1
  <2>5. Content = FlattenSeq(Pieces)
    BY <1>1 DEF Content, Rows, Pieces
  <2>6. ASSUME NEW i \in 1..Len(Pieces) PROVE IsPiece(Pieces[i], i, PieceRows, accepted, Open)
    <3>1. <<file[i], 0 + i>> \in Groups(accepted, Open, analyze) /\ 0 + i = i
      BY <2>1, <2>4 DEF InPlace
    <3> QED BY <2>3, <2>4, <3>1 DEF Groups
  <2> QED BY <1>0, <2>4, <2>5, <2>6
<1>2. CASE format \in {"arrow", "vortex"}
  <2>1. arrays \in Seq(Seq(Nat)) /\ InPlace(arrays, 0, Arrays(accepted, Open))
    BY <1>2 DEF SinkInv, FormatInv, ArrowInv, VortexInv, StreamTypes, ArrowDone, VortexDone, HereArrays
  <2>2. Pieces = arrays /\ Content = FlattenSeq(Pieces) /\ PieceRows = RecordBatch
    BY <1>2 DEF Pieces, Content, PieceRows
  <2>3. ASSUME NEW i \in 1..Len(Pieces) PROVE IsPiece(Pieces[i], i, PieceRows, accepted, Open)
    <3>1. <<arrays[i], 0 + i>> \in Arrays(accepted, Open) /\ 0 + i = i
      BY <2>1, <2>2 DEF InPlace
    <3> QED BY <2>2, <3>1 DEF Arrays
  <2> QED BY <1>0, <2>1, <2>2, <2>3
<1> QED BY <1>0, <1>1, <1>2

(* And together they are a beginning of it. *)
LEMMA ContentIsSpan ==
  ASSUME SinkInv
  PROVE  /\ Content = Span(0, Upto(Len(Pieces), PieceRows, accepted))
         /\ Upto(Len(Pieces), PieceRows, accepted) \in Nat
         /\ Upto(Len(Pieces), PieceRows, accepted) <= accepted
<1> DEFINE ps == Pieces
           w == PieceRows
           n == accepted
           o == Open
<1>1. /\ w \in Nat \ {0} /\ n \in Nat /\ ps \in Seq(Seq(Nat)) /\ Content = FlattenSeq(ps)
      /\ \A i \in 1..Len(ps) : IsPiece(ps[i], i, w, n, o)
  BY PiecesInPlace
<1> HIDE DEF ps, w, n, o
<1>2. FlattenSeq(ps) = Span(0, Upto(Len(ps), w, n))
  BY <1>1, PiecesFlat
<1>3. Upto(Len(ps), w, n) \in Nat /\ Upto(Len(ps), w, n) <= n
  <2>1. Len(ps) \in Nat
    BY <1>1
  <2> QED BY <1>1, <2>1, UptoType
<1> QED BY <1>1, <1>2, <1>3 DEF ps, w, n

(* A stream of n rows. *)
LEMMA SpanIsStream ==
  ASSUME NEW n \in Nat
  PROVE  Span(0, n) = [i \in 1..n |-> i]
<1>1. n - 0 = n /\ \A i \in 1..n : 0 + i = i
  OBVIOUS
<1> QED BY <1>1 DEF Span

(* A whole object is the stream. *)
LEMMA WholeIsStream ==
  ASSUME SinkInv, Whole
  PROVE  Content = [i \in 1..accepted |-> i]
<1> DEFINE e == Edge(Len(Pieces), PieceRows)
<1>1. PieceRows \in Nat \ {0} /\ accepted \in Nat /\ Len(Pieces) \in Nat
  BY PiecesInPlace
<1>2. e \in Nat /\ accepted <= e
  BY <1>1, EdgeType DEF Whole
<1>3. Upto(Len(Pieces), PieceRows, accepted) = accepted
  BY <1>1, <1>2 DEF Upto
<1> QED BY <1>1, <1>3, ContentIsSpan, SpanIsStream

(* All pieces of a stream but the last are full, and none is empty. *)
LEMMA PiecesFull ==
  ASSUME NEW w \in Nat \ {0}, NEW n \in Nat, NEW open, NEW ps \in Seq(Seq(Nat)),
         \A i \in 1..Len(ps) : IsPiece(ps[i], i, w, n, open)
  PROVE  \A i \in 1..Len(ps) : (i < Len(ps) => Len(ps[i]) = w) /\ Len(ps[i]) \in 1..w
<1> SUFFICES ASSUME NEW i \in 1..Len(ps)
             PROVE  (i < Len(ps) => Len(ps[i]) = w) /\ Len(ps[i]) \in 1..w
  OBVIOUS
<1>1. PICK k \in Nat : k + 1 = i
  <2>1. i - 1 \in Nat /\ i - 1 + 1 = i
    OBVIOUS
  <2> QED BY <2>1
<1> DEFINE p == ps[i]
<1>2. IsPiece(p, k + 1, w, n, open)
  BY <1>1
<1> HIDE DEF p
<1>3. Len(p) \in 1..w /\ (Edge(k + 1, w) <= n => Len(p) = w)
  <2>1. k \in Nat
    BY <1>1
  <2>2. Len(p) \in 1..w /\ Upto(k, w, n) = Edge(k, w) /\ Upto(k + 1, w, n) = Upto(k, w, n) + Len(p)
    BY <1>2, <2>1, PieceLen
  <2>3. Edge(k, w) \in Nat /\ Edge(k + 1, w) = Edge(k, w) + w
    BY <2>1, EdgeType, EdgeNext
  <2> QED BY <2>2, <2>3 DEF Upto
<1>4. i < Len(ps) => Edge(k + 1, w) <= n
  <2> SUFFICES ASSUME i < Len(ps) PROVE Edge(i, w) <= n
    BY <1>1
  <2>1. i + 1 \in 1..Len(ps) /\ i + 1 - 1 = i /\ i \in Nat
    OBVIOUS
  <2>2. IsPiece(ps[i + 1], i + 1, w, n, open)
    BY <2>1
  <2>3. Edge(i + 1 - 1, w) < n
    BY <2>2 DEF IsPiece
  <2> DEFINE e == Edge(i, w)
  <2>4. e < n /\ e \in Nat
    BY <2>1, <2>3, EdgeType
  <2> HIDE DEF e
  <2>5. e <= n
    BY <2>4
  <2> QED BY <2>5 DEF e
<1> QED BY <1>3, <1>4 DEF p

(* The file holds the rows in the order of the stream, in row groups or record
   batches that are full but for the last, whatever the sizes of the batches and
   however the stages and tasks run; a success reports how many. *)
THEOREM RowsAreInOrder == Spec => []InOrder
<1>1. SinkInv => InOrder
  <2> SUFFICES ASSUME SinkInv PROVE InOrder
    OBVIOUS
  <2> DEFINE n == accepted
             m == Upto(Len(Pieces), PieceRows, accepted)
  <2>1. n \in Nat /\ m \in Nat /\ m <= n /\ Content = Span(0, m)
    BY PiecesInPlace, ContentIsSpan
  <2>2. IsPrefix(Content, [i \in 1..n |-> i])
    <3> HIDE DEF n, m
    <3>1. IsPrefix(Span(0, m), Span(0, n))
      BY <2>1, SpanPrefix
    <3>2. Span(0, n) = [i \in 1..n |-> i]
      BY <2>1, SpanIsStream
    <3> QED BY <2>1, <3>1, <3>2
  <2>3. \A i \in DOMAIN Pieces : /\ i < Len(Pieces) => Len(Pieces[i]) = PieceRows
                                 /\ Len(Pieces[i]) \in 1..PieceRows
    <3> DEFINE ps == Pieces
               w == PieceRows
               o == Open
    <3>1. /\ w \in Nat \ {0} /\ n \in Nat /\ ps \in Seq(Seq(Nat))
          /\ \A i \in 1..Len(ps) : IsPiece(ps[i], i, w, n, o)
      BY PiecesInPlace
    <3> HIDE DEF ps, w, o, n
    <3>2. \A i \in 1..Len(ps) : (i < Len(ps) => Len(ps[i]) = w) /\ Len(ps[i]) \in 1..w
      BY <3>1, PiecesFull
    <3> QED BY <3>1, <3>2 DEF ps, w
  <2>4. report = "ok" => RowsWritten = accepted
    BY DEF SinkInv, FormatInv, OwnerInv, Whole
  <2> QED BY <2>2, <2>3, <2>4 DEF InOrder
<1> QED BY <1>1, RowsAreFollowed, PTL

(* The footer of an Arrow file is not there before its sink is finished. *)
FooterInv == format = "arrow" /\ InputOpen => ~footer

(* Where an abort or drop of the sink finds the Arrow writer. *)
Cut == format = "arrow" /\ token /\ at \in {"recv", "write"} /\ ~footer

(* Only a writer that stands at its footer, after the end of the channel, writes it. *)
LEMMA FooterKept ==
  ASSUME SinkInv, FooterInv, [Next]_vars
  PROVE  FooterInv'
<1> SUFFICES ASSUME format' = "arrow", InputOpen' PROVE ~footer'
  BY DEF FooterInv
<1>1. OwnerInv /\ format' = format /\ (InputOpen' => InputOpen)
  <2>1. OwnerInv
    BY DEF SinkInv, FormatInv
  <2>2. (OwnerAct /\ UNCHANGED Contents) \/ Beside
    BY SinkActs DEF SinkInv
  <2> QED BY <2>1, <2>2, OwnerMoves
          DEF OwnerStep, Beside, InputOpen, Unfinished
<1>2. ArrowPlace /\ ~footer
  BY <1>1 DEF SinkInv, FormatInv, ArrowInv, FooterInv
<1>3. CASE UNCHANGED streamVars
  BY <1>2, <1>3 DEF streamVars
<1>4. CASE ArrowStep
  <2>1. ~ArrowFooter
    BY <1>1, <1>2 DEF ArrowFooter, ArrowPlace
  <2> QED BY <1>2, <1>4, <2>1
          DEF ArrowStep, ArrowWriteBatch, ArrowWriter, ArrowCancelled, ArrowStart, ArrowRecv,
              ArrowCheck, ArrowWrite, ArrowEof, ArrowFails, streamVars
<1>5. StreamNext \/ UNCHANGED streamVars
  BY <1>1 DEF Next, vars
<1> QED BY <1>1, <1>3, <1>4, <1>5, StreamSteps

(* A writer that was cut off stays so: it takes no batch and sees no end. *)
LEMMA CutStays ==
  ASSUME SinkInv, Cut, [Next]_vars
  PROVE  Cut'
<1>1. OwnerInv /\ format' = format
  <2>1. OwnerInv
    BY DEF SinkInv, FormatInv
  <2>2. (OwnerAct /\ UNCHANGED Contents) \/ Beside
    BY SinkActs DEF SinkInv
  <2> QED BY <2>1, <2>2, OwnerMoves DEF OwnerStep, Beside
<1>2. CASE OwnerAct /\ UNCHANGED streamVars
  BY <1>1, <1>2, OwnerMoves DEF Cut, OwnerStep, streamVars
<1>3. CASE ArrowWriteBatch
  BY <1>1, <1>3 DEF Cut, ArrowWriteBatch
<1>4. CASE ArrowWriter
  <2>1. ~ArrowStart /\ ~ArrowRecv /\ ~ArrowCheck /\ ~ArrowEof /\ ~ArrowFooter
    BY DEF Cut, ArrowStart, ArrowRecv, ArrowCheck, ArrowEof, ArrowFooter
  <2>2. CASE ArrowWrite
    BY <1>1, <2>2 DEF Cut, ArrowWrite, ownerVars
  <2>3. CASE ArrowCancelled \/ ArrowFails
    <3>1. \E how : WriterEnds(how) /\ footer' = footer
      BY <2>3 DEF ArrowCancelled, ArrowFails
    <3> QED BY <1>1, <3>1 DEF Cut, WriterEnds, ownerVars
  <2> QED BY <1>4, <2>1, <2>2, <2>3 DEF ArrowWriter
<1>5. CASE UNCHANGED vars
  BY <1>5 DEF Cut, vars, taskState, ownerVars, streamVars
<1>6. StreamNext \/ UNCHANGED vars
  BY DEF Next, Cut
<1> QED BY <1>2, <1>3, <1>4, <1>5, <1>6, StreamSteps DEF Cut, ArrowStep

(* An Arrow file whose sink was aborted or dropped never gets its footer, wherever
   its writer was between its looks at the token and what it then writes. *)
THEOREM AbortLeavesNoFooter == Spec => NoFooterAfterAbort
<1>1. Init => FooterInv
  BY DEF Init, StreamInit, FooterInv
<1>2. SinkInv /\ FooterInv /\ [Next]_vars => FooterInv'
  BY FooterKept
<1>3. SinkInv /\ FooterInv => (format = "arrow" /\ caller \in {"cancelling", "dropping"} => Cut)
  <2> SUFFICES ASSUME SinkInv, FooterInv, format = "arrow", caller \in {"cancelling", "dropping"}
               PROVE  Cut
    OBVIOUS
  <2>1. token /\ InputOpen
    BY DEF SinkInv, FormatInv, OwnerInv, InputOpen, First
  <2>2. ArrowPlace /\ StreamTypes
    BY DEF SinkInv, FormatInv, ArrowInv
  <2> QED BY <2>1, <2>2 DEF FooterInv, Cut, ArrowPlace, StreamTypes
<1>4. SinkInv /\ Cut /\ [Next]_vars => Cut'
  BY CutStays
<1>5. Cut => ~footer
  BY DEF Cut
<1> QED BY <1>1, <1>2, <1>3, <1>4, <1>5, RowsAreFollowed, PTL DEF Spec, NoFooterAfterAbort

(* What keeps the error of a producer that stopped by itself. *)
Kept == producer = "err" /\ report # "aborted" /\ (caller = "aborting" => hadEnded)

(* The error of a producer that stopped while the sink was written to is not
   reported as an abort. *)
THEOREM ErrorsAreKept == Spec => ErrorsKept
<1>1. SinkInv => (producer = "err" /\ Unfinished => Kept)
  BY DEF SinkInv, FormatInv, OwnerInv, Unfinished, Kept
<1>2. SinkInv /\ [Next]_vars => (Kept => Kept')
  <2> SUFFICES ASSUME SinkInv, [Next]_vars, Kept PROVE Kept'
    OBVIOUS
  <2>1. producer = "err" /\ report # "aborted" /\ (caller = "aborting" => hadEnded) /\ producer \in Over
    BY DEF Kept, Over
  <2>2. CASE Beside
    BY <2>1, <2>2 DEF Beside, Kept
  <2>3. CASE OwnerAct
    BY <2>1, <2>3
       DEF OwnerAct, JoinProducer, Abort, CancelFirst, CallerFails, Drop, TaskOwner, FinishJoined,
           CloseInput, IsFinished, Completed, Aborted, TaskError, Upload, UploadAborts,
           UploadCompletes, UploadBreaks, UploadSteps, ownerVars, Kept
  <2> QED BY <2>2, <2>3, SinkActs DEF SinkInv
<1>3. Kept => report # "aborted"
  BY DEF Kept
<1> QED BY <1>1, <1>2, <1>3, RowsAreFollowed, PTL DEF Spec, ErrorsKept

(***************************************************************************)
(* The sinks implement AtomicObject: what it sees of a step is one of its   *)
(* own, or nothing.                                                         *)
(***************************************************************************)
(* What AtomicObject sees of a sink. *)
Choice == IF upload \in {"completing", "published", "lost"} THEN "complete"
          ELSE IF caller \in {"aborting", "cleaning", "gone"} THEN "abort"
          ELSE "open"
Visible == IF upload # "published" THEN NoObject
           ELSE IF Complete THEN Content ELSE <<0>>

(* A step as AtomicObject sees it. *)
Accepts == /\ accepted < accepted' /\ Visible = NoObject /\ report = "none"
           /\ UNCHANGED <<Choice, Visible, report>>
Decides == /\ Choice = "open" /\ Choice' \in {"complete", "abort"}
           /\ UNCHANGED <<accepted, Visible, report>>
Publishes == /\ Choice = "complete" /\ report = "none" /\ Visible = NoObject
             /\ Visible' = [i \in 1..accepted |-> i]
             /\ UNCHANGED <<accepted, Choice, report>>
Reports == /\ report = "none" /\ report' \in {"ok", "aborted", "err"}
           /\ report' = "ok" => Visible # NoObject
           /\ report' = "aborted" => Visible = NoObject
           /\ UNCHANGED <<accepted, Choice, Visible>>

(* The steps of the owner: what they do to the decision, the upload and the
   report. *)
Stays == Choice' = Choice /\ report' = report /\ (upload' = "published" <=> upload = "published")
Chooses == /\ Choice = "open" /\ Choice' \in {"complete", "abort"}
           /\ report' = report /\ (upload' = "published" <=> upload = "published")
Completes == /\ Choice = "complete" /\ Choice' = Choice /\ report = "none" /\ report' = report
             /\ upload = "completing" /\ upload' = "published"
Reporting ==
  /\ Choice' = Choice /\ upload' = upload
  /\ report = "none" /\ report' \in {"ok", "aborted", "err"}
  /\ report' = "ok" => upload = "published"
  /\ report' = "aborted" => upload # "published"

(* Every call of the owner is one of these. *)
LEMMA OwnerSeen ==
  ASSUME OwnerInv, OwnerAct
  PROVE  Stays \/ Chooses \/ Completes \/ Reporting
<1> USE DEF OwnerInv, Stays, Chooses, Completes, Reporting, Choice, Before, Decided
<1>1. ASSUME NEW from \in {"writing", "flushing"}, JoinProducer(from) PROVE Stays
  BY <1>1 DEF JoinProducer
<1>2. CASE Abort \/ CancelFirst({"flushing"}, TRUE)
  BY <1>2 DEF Abort, CancelFirst
<1>3. CASE CallerFails
  BY <1>3 DEF CallerFails
<1>4. CASE Drop
  BY <1>4 DEF Drop, Unfinished, Callers
<1>5. CASE FinishJoined
  BY <1>5 DEF FinishJoined
<1>6. CASE CloseInput
  BY <1>6 DEF CloseInput
<1>7. CASE Completed
  BY <1>7 DEF Completed
<1>8. CASE Aborted
  BY <1>8 DEF Aborted
<1>9. CASE UploadAborts
  BY <1>9 DEF UploadAborts, UploadSteps, ownerVars
<1>10. CASE UploadCompletes
  BY <1>10 DEF UploadCompletes, UploadSteps, ownerVars
<1>11. CASE UploadBreaks
  BY <1>11 DEF UploadBreaks, UploadSteps, ownerVars
<1> QED BY <1>1, <1>2, <1>3, <1>4, <1>5, <1>6, <1>7, <1>8, <1>9, <1>10, <1>11
        DEF OwnerAct, TaskOwner, Upload

(* A published object is there, and it is the stream. *)
Published == /\ upload = "published" => Visible = [i \in 1..accepted |-> i]
             /\ Visible = NoObject <=> upload # "published"

(* It is so because it is whole. *)
LEMMA PublishedIsStream ==
  ASSUME SinkInv
  PROVE  Published
<1>1. accepted \in Nat
  BY DEF SinkInv, FormatInv, OwnerInv
<1>2. ASSUME upload = "published" PROVE Visible = [i \in 1..accepted |-> i]
  <2>1. Whole
    BY <1>2 DEF SinkInv
  <2>2. Content = [i \in 1..accepted |-> i] /\ Complete
    BY <2>1, WholeIsStream DEF Whole
  <2> QED BY <1>2, <2>2 DEF Visible
<1>3. [i \in 1..accepted |-> i] # NoObject
  <2> SUFFICES ASSUME [i \in 1..accepted |-> i] = NoObject PROVE FALSE
    OBVIOUS
  <2> DEFINE s == [i \in 1..accepted |-> i]
  <2>1. \A j \in 1..accepted : s[j] = j
    OBVIOUS
  <2>2. s \in Seq(Nat) /\ Len(s) = accepted
    BY <1>1
  <2>3. s = <<-1>>
    BY DEF NoObject
  <2> HIDE DEF s
  <2>4. Len(s) = 1 /\ s[1] = -1
    BY <2>3
  <2>5. 1 \in 1..accepted
    BY <1>1, <2>2, <2>4
  <2> QED BY <2>1, <2>4, <2>5
<1> QED BY <1>2, <1>3 DEF Visible, Published

(* Every step of a sink is one that AtomicObject takes, or a stutter. *)
LEMMA SinkSeen ==
  ASSUME SinkInv, Published, Published', [Next]_vars
  PROVE  \/ Accepts \/ Decides \/ Publishes \/ Reports
         \/ UNCHANGED <<accepted, Choice, Visible, report>>
<1>1. OwnerInv /\ FormatInv /\ accepted \in Nat
  BY DEF SinkInv, FormatInv, OwnerInv
<1>2. /\ Visible = NoObject <=> upload # "published"
      /\ Visible' = NoObject <=> upload' # "published"
      /\ upload = "published" => Visible = [i \in 1..accepted |-> i]
      /\ upload' = "published" => Visible' = [i \in 1..accepted' |-> i]
  BY DEF Published
<1>3. CASE OwnerAct /\ UNCHANGED Contents
  <2>1. accepted' = accepted
    BY <1>3 DEF Contents
  <2>2. (upload' = "published" <=> upload = "published") => Visible' = Visible
    BY <1>2, <2>1
  <2>3. Stays \/ Chooses \/ Completes \/ Reporting
    BY <1>1, <1>3, OwnerSeen
  <2> QED BY <1>2, <2>1, <2>2, <2>3
          DEF Stays, Chooses, Completes, Reporting, Decides, Publishes, Reports
<1>4. CASE Beside
  <2>1. /\ UNCHANGED <<report, upload>> /\ accepted <= accepted' /\ accepted' \in Nat
        /\ accepted' # accepted => caller = "writing"
        /\ caller' = caller \/ (caller = "writing" /\ caller' = "flushing")
    BY <1>4 DEF Beside
  <2>2. Choice' = Choice
    BY <2>1 DEF Choice
  <2>3. CASE accepted' = accepted
    <3>1. Visible' = Visible
      BY <1>2, <2>1, <2>3
    <3> QED BY <2>1, <2>2, <2>3, <3>1
  <2>4. CASE accepted' # accepted
    <3>1. upload # "published" /\ report = "none" /\ accepted < accepted'
      BY <1>1, <2>1, <2>4 DEF OwnerInv, Before
    <3> QED BY <1>2, <2>1, <2>2, <3>1 DEF Accepts
  <2> QED BY <2>3, <2>4
<1> QED BY <1>1, <1>3, <1>4, SinkActs

(* The steps of AtomicObject for its one upload. *)
LEMMA SeenIsAtomic ==
  ASSUME \/ Accepts \/ Decides \/ Publishes \/ Reports
         \/ UNCHANGED <<accepted, Choice, Visible, report>>
  PROVE  [AO!Next]_(AO!absvars)
<1>0. AO!Next <=> \E u \in {"sink"} : \/ AO!Accept(u) \/ AO!Decide(u) \/ AO!Publish(u) \/ AO!Settle(u)
                                       \/ AO!DecideAndSettle(u)
  BY DEF AO!Next
<1>1. CASE Accepts
  <2>1. AO!Accept("sink")
    BY <1>1 DEF Accepts, AO!Accept, Choice, Visible
  <2> QED BY <1>0, <2>1
<1>2. CASE Decides
  <2>1. AO!Decide("sink")
    BY <1>2 DEF Decides, AO!Decide, Choice, Visible
  <2> QED BY <1>0, <2>1
<1>3. CASE Publishes
  <2>1. AO!Publish("sink")
    BY <1>3 DEF Publishes, AO!Publish, AO!Stream, Choice, Visible
  <2> QED BY <1>0, <2>1
<1>4. CASE Reports
  <2>1. AO!Settle("sink")
    BY <1>4 DEF Reports, AO!Settle, Choice, Visible
  <2> QED BY <1>0, <2>1
<1>5. CASE UNCHANGED <<accepted, Choice, Visible, report>>
  BY <1>5 DEF AO!absvars, Choice, Visible
<1> QED BY <1>1, <1>2, <1>3, <1>4, <1>5

(* A sink keeps the promise of its upload for rows: its object appears at once,
   whole and in order, and never after an abort or for a producer that failed. *)
THEOREM SinkIsAtomic == Spec => ImplementsAtomicObject
<1>1. Init => AO!Init
  BY DEF Init, TaskInit, AO!Init
<1>2. SinkInv => Published
  BY PublishedIsStream
<1>3. SinkInv /\ Published /\ Published' /\ [Next]_vars => [AO!Next]_(AO!absvars)
  BY SinkSeen, SeenIsAtomic
<1> QED BY <1>1, <1>2, <1>3, RowsAreFollowed, PTL DEF Spec, ImplementsAtomicObject, AO!Spec

-----------------------------------------------------------------------------
(***************************************************************************)
(* The settings of a Parquet output                                        *)
(*                                                                         *)
(* The columns of a schema are unfolded until only leaves are left, and    *)
(* each leaf stays below its column.  A leaf that no other is taken for    *)
(* has the policy that is made for it, and this says of every row group    *)
(* what the flags say.                                                     *)
(***************************************************************************)

(* A sequence of anything is a list. *)
LEMMA ListIs ==
  ASSUME NEW S, NEW s \in Seq(S)
  PROVE  /\ IsList(s) /\ Len(s) \in Nat /\ DOMAIN s = 1..Len(s)
<1>1. DOMAIN s = 1..Len(s) /\ Len(s) \in Nat
  OBVIOUS
<1>2. \A i \in 1..Len(s) : s[i] \in ToSet(s)
  BY <1>1 DEF ToSet
<1>3. s \in Seq(ToSet(s))
  BY <1>1, <1>2
<1> QED BY <1>1, <1>3 DEF IsList

(* A list has its places in order. *)
LEMMA ListLen ==
  ASSUME NEW s, IsList(s)
  PROVE  Len(s) \in Nat /\ DOMAIN s = 1..Len(s)
BY DEF IsList

(* Two lists joined are one, which begins as the first does. *)
LEMMA ListJoin ==
  ASSUME NEW a, NEW b, IsList(a), IsList(b), Len(a) >= 1
  PROVE  /\ IsList(a \o b) /\ Len(a \o b) = Len(a) + Len(b)
         /\ (a \o b)[1] = a[1]
<1> DEFINE S == ToSet(a) \cup ToSet(b)
<1>1. a \in Seq(S) /\ b \in Seq(S)
  <2>1. a \in Seq(ToSet(a)) /\ b \in Seq(ToSet(b))
    BY DEF IsList
  <2> QED BY <2>1
<1> HIDE DEF S
<1>2. a \o b \in Seq(S) /\ Len(a \o b) = Len(a) + Len(b) /\ (a \o b)[1] = a[1]
  BY <1>1
<1> QED BY <1>2, ListIs

(* f[n] is what the columns are unfolded to in n steps. *)
Deeper(f, fields, n) == IF n = 0 THEN Columns(fields) ELSE Unfold(f[n - 1])
IsUnfolded(f, fields, depth) == f = [n \in 0..depth |-> Deeper(f, fields, n)]

(* The recursion that defines Unfolded has a solution. *)
LEMMA UnfoldedExists ==
  ASSUME NEW fields
  PROVE  \A depth \in Nat : \E f : IsUnfolded(f, fields, depth)
<1> DEFINE P == {d \in Nat : \E f : IsUnfolded(f, fields, d)}
<1>1. 0 \in P
  <2> DEFINE g == [n \in 0..0 |-> Columns(fields)]
  <2>1. \A n \in 0..0 : Deeper(g, fields, n) = Columns(fields)
    BY DEF Deeper
  <2>2. g = [n \in 0..0 |-> Deeper(g, fields, n)]
    <3> DEFINE h == [n \in 0..0 |-> Deeper(g, fields, n)]
    <3>1. g = [n \in 0..0 |-> Columns(fields)]
      OBVIOUS
    <3> HIDE DEF g
    <3> QED BY <2>1, <3>1, Zenon
  <2> HIDE DEF g
  <2> QED BY <2>2 DEF IsUnfolded
<1>2. ASSUME NEW d \in Nat, d \in P PROVE d + 1 \in P
  <2>1. PICK f : IsUnfolded(f, fields, d)
    BY <1>2
  <2> DEFINE g == [n \in 0..(d + 1) |-> Deeper(f, fields, n)]
  <2>2. \A n \in 0..d : f[n] = g[n]
    BY <2>1 DEF IsUnfolded
  <2> HIDE DEF g
  <2>3. \A n \in 0..(d + 1) : Deeper(f, fields, n) = Deeper(g, fields, n)
    <3>1. TAKE n \in 0..(d + 1)
    <3>2. n # 0 => n - 1 \in 0..d
      OBVIOUS
    <3>3. n # 0 => f[n - 1] = g[n - 1]
      BY <2>2, <3>2
    <3> QED BY <3>3, Zenon DEF Deeper
  <2>4. g = [n \in 0..(d + 1) |-> Deeper(f, fields, n)]
    BY DEF g
  <2>5. g = [n \in 0..(d + 1) |-> Deeper(g, fields, n)]
    BY <2>3, <2>4, Zenon
  <2>6. IsUnfolded(g, fields, d + 1)
    BY <2>5 DEF IsUnfolded
  <2> QED BY <2>6
<1>3. Nat \subseteq P
  <2> HIDE DEF P
  <2> QED BY <1>1, <1>2, Inductive
<1> QED BY <1>3

(* Each step of Unfolded unfolds the one before. *)
LEMMA UnfoldedRule ==
  ASSUME NEW fields, MaxDepth \in Nat
  PROVE  /\ Unfolded(fields)[0] = Columns(fields)
         /\ \A n \in Nat : n + 1 \in 0..MaxDepth =>
              Unfolded(fields)[n + 1] = Unfold(Unfolded(fields)[n])
<1>1. \E f : IsUnfolded(f, fields, MaxDepth)
  BY UnfoldedExists
<1> DEFINE F == CHOOSE f : IsUnfolded(f, fields, MaxDepth)
<1>2. IsUnfolded(F, fields, MaxDepth)
  BY <1>1
<1>3. Unfolded(fields) = F
  BY Zenon DEF Unfolded, IsUnfolded, Deeper
<1> HIDE DEF F
<1>4. PICK f : f = F /\ f = [n \in 0..MaxDepth |-> Deeper(f, fields, n)]
  BY <1>2 DEF IsUnfolded
<1>5. f[0] = Columns(fields)
  BY <1>4 DEF Deeper
<1>6. ASSUME NEW n \in Nat, n + 1 \in 0..MaxDepth PROVE f[n + 1] = Unfold(f[n])
  <2>1. PICK m : m = n + 1
    OBVIOUS
  <2>2. m # 0 /\ m - 1 = n
    BY <2>1
  <2>3. f[m] = Deeper(f, fields, m)
    BY <1>4, <1>6, <2>1
  <2>4. Deeper(f, fields, m) = Unfold(f[m - 1])
    BY <2>2, Zenon DEF Deeper
  <2> QED BY <2>1, <2>2, <2>3, <2>4
<1>7. Unfolded(fields) = f
  BY <1>3, <1>4
<1>8. \A n \in Nat : n + 1 \in 0..MaxDepth => f[n + 1] = Unfold(f[n])
  BY <1>6
<1> QED BY <1>5, <1>7, <1>8, Zenon

-----------------------------------------------------------------------------

(* An entry is below a column: its path begins with the name, and is longer
   unless its type is the column's, or a dictionary's values. *)
IsBelow(entry, fields, i) ==
  /\ entry.path[1] = fields[i].name
  /\ Len(entry.path) = 1 =>
       entry.type = fields[i].type \/ fields[i].type.kind = "Dictionary"
Placed(entry, fields) ==
  /\ IsList(entry.path) /\ Len(entry.path) >= 1
  /\ \E i \in DOMAIN fields : IsBelow(entry, fields, i)

(* A step inside keeps an entry below its column. *)
LEMMA StepInside ==
  ASSUME NEW fields, NEW entry, Placed(entry, fields), NEW steps, NEW type,
         IsList(steps), Len(steps) >= 1 \/ (steps = <<>> /\ entry.type.kind = "Dictionary")
  PROVE  Placed(Entry(entry.path \o steps, type), fields)
<1>1. IsList(entry.path) /\ Len(entry.path) >= 1 /\ Len(entry.path) \in Nat /\ Len(steps) \in Nat
  BY ListLen DEF Placed
<1>2. PICK path, e : path = entry.path \o steps /\ e = Entry(path, type)
  OBVIOUS
<1>3. /\ IsList(path) /\ Len(path) = Len(entry.path) + Len(steps)
      /\ path[1] = entry.path[1]
  BY <1>1, <1>2, ListJoin
<1>4. e.path = path /\ e.type = type
  BY <1>2 DEF Entry
<1>5. PICK i \in DOMAIN fields : IsBelow(entry, fields, i)
  BY DEF Placed
<1>6. IsBelow(e, fields, i)
  <2>1. e.path[1] = fields[i].name
    BY <1>3, <1>4, <1>5 DEF IsBelow
  <2>2. ASSUME Len(path) = 1 PROVE fields[i].type.kind = "Dictionary"
    <3>1. Len(entry.path) = 1 /\ ~(Len(steps) >= 1)
      <4>1. \A k, l \in Nat : k >= 1 /\ 1 = k + l => k = 1 /\ ~(l >= 1)
        OBVIOUS
      <4>2. 1 = Len(entry.path) + Len(steps)
        BY ONLY <1>3, <2>2
      <4> QED BY ONLY <1>1, <4>1, <4>2
    <3>2. entry.type.kind = "Dictionary"
      BY <3>1
    <3>3. entry.type = fields[i].type \/ fields[i].type.kind = "Dictionary"
      BY <1>5, <3>1 DEF IsBelow
    <3> QED BY <3>2, <3>3
  <2> QED BY <1>4, <2>1, <2>2 DEF IsBelow
<1>7. Len(path) >= 1
  BY <1>1, <1>3
<1> QED BY <1>2, <1>3, <1>4, <1>6, <1>7 DEF Placed

(* What is inside of an entry is a list, and below the same column. *)
LEMMA InsideKept ==
  ASSUME NEW fields, NEW entry, Placed(entry, fields),
         entry.type.kind = "Struct" => IsList(entry.type.inner)
  PROVE  /\ IsList(Inside(entry))
         /\ \A j \in 1..Len(Inside(entry)) : Placed(Inside(entry)[j], fields)
<1> DEFINE inner == entry.type.inner
           In(steps, i) == Entry(entry.path \o steps, inner[i].type)
           Good(s) == IsList(s) /\ \A j \in 1..Len(s) : Placed(s[j], fields)
<1>0. ASSUME NEW x, Placed(x, fields) PROVE Good(<<x>>)
  <2>1. PICK s : s = <<x>>
    OBVIOUS
  <2>2. s \in Seq({x}) /\ Len(s) = 1 /\ s[1] = x
    BY <2>1
  <2>3. IsList(s)
    BY <2>2, ListIs
  <2>4. \A j \in 1..1 : j = 1
    OBVIOUS
  <2>5. \A j \in 1..Len(s) : Placed(s[j], fields)
    BY <1>0, <2>2, <2>4
  <2> QED BY <2>1, <2>3, <2>5
<1>1. CASE entry.type.kind = "List"
  <2> DEFINE steps == <<<<"list">>, <<"element">>>>
  <2>1. IsList(steps) /\ Len(steps) >= 1
    <3>1. steps \in Seq({<<"list">>, <<"element">>}) /\ Len(steps) >= 1
      OBVIOUS
    <3> HIDE DEF steps
    <3> QED BY <3>1, ListIs
  <2>2. Placed(In(steps, 1), fields)
    <3> HIDE DEF steps
    <3> QED BY <2>1, StepInside
  <2>3. Inside(entry) = <<In(steps, 1)>>
    BY <1>1, Zenon DEF Inside
  <2> HIDE DEF In
  <2> QED BY <1>0, <2>2, <2>3
<1>2. CASE entry.type.kind = "Struct"
  <2>1. IsList(inner) /\ Len(inner) \in Nat /\ DOMAIN inner = 1..Len(inner)
    BY <1>2, ListLen
  <2>2. Inside(entry) = [i \in DOMAIN inner |-> In(<<inner[i].name>>, i)]
    BY <1>2 DEF Inside
  <2>3. ASSUME NEW i \in DOMAIN inner PROVE Placed(In(<<inner[i].name>>, i), fields)
    <3>1. PICK n : n = inner[i].name
      OBVIOUS
    <3>2. <<n>> \in Seq({n}) /\ Len(<<n>>) >= 1
      OBVIOUS
    <3>3. IsList(<<n>>)
      BY <3>2, ListIs
    <3>4. Placed(In(<<n>>, i), fields)
      BY <3>2, <3>3, StepInside
    <3> QED BY <3>1, <3>4
  <2> DEFINE one(i) == In(<<inner[i].name>>, i)
             S == {one(i) : i \in DOMAIN inner}
  <2>4. PICK s : s = [i \in DOMAIN inner |-> one(i)]
    OBVIOUS
  <2>5. s \in [1..Len(inner) -> S] /\ \A i \in 1..Len(inner) : s[i] = one(i)
    <3> HIDE DEF one, inner
    <3> QED BY <2>1, <2>4
  <2>6. \A i \in 1..Len(inner) : Placed(one(i), fields)
    BY <2>1, <2>3
  <2> HIDE DEF S, one, inner
  <2>7. s \in Seq(S) /\ Len(s) = Len(inner)
    BY <2>1, <2>5
  <2>8. Good(s)
    BY <2>5, <2>6, <2>7, ListIs
  <2>9. Inside(entry) = s
    BY <2>2, <2>4 DEF one, inner
  <2> QED BY <2>8, <2>9
<1>3. CASE entry.type.kind = "Map"
  <2> DEFINE k == <<<<"key_value">>, <<"key">>>>
             v == <<<<"key_value">>, <<"value">>>>
  <2>1. k \in Seq({<<"key_value">>, <<"key">>}) /\ Len(k) >= 1
    OBVIOUS
  <2>2. v \in Seq({<<"key_value">>, <<"value">>}) /\ Len(v) >= 1
    OBVIOUS
  <2>3. Inside(entry) = <<In(k, 1), In(v, 2)>>
    BY <1>3, Zenon DEF Inside
  <2> HIDE DEF k, v
  <2>4. IsList(k) /\ IsList(v)
    BY <2>1, <2>2, ListIs
  <2>5. PICK x, y : x = In(k, 1) /\ y = In(v, 2)
    OBVIOUS
  <2>6. Placed(x, fields) /\ Placed(y, fields)
    BY <2>1, <2>2, <2>4, <2>5, StepInside
  <2>7. PICK s : s = <<x, y>>
    OBVIOUS
  <2>8. s \in Seq({x, y}) /\ Len(s) = 2 /\ s[1] = x /\ s[2] = y
    BY <2>7
  <2>9. Good(s)
    <3>1. \A j \in 1..2 : j = 1 \/ j = 2
      OBVIOUS
    <3> QED BY <2>6, <2>8, <3>1, ListIs
  <2> QED BY <2>3, <2>5, <2>7, <2>9
<1>4. CASE entry.type.kind = "Dictionary"
  <2>1. PICK none : none = <<>>
    OBVIOUS
  <2>2. none \in Seq({})
    BY <2>1
  <2>3. IsList(none)
    BY <2>2, ListIs
  <2>4. Placed(In(none, 1), fields)
    BY <1>4, <2>1, <2>3, StepInside
  <2>5. Inside(entry) = <<In(none, 1)>>
    BY <1>4, <2>1, Zenon DEF Inside
  <2> HIDE DEF In
  <2> QED BY <1>0, <2>4, <2>5
<1>5. CASE entry.type.kind \notin Nested \cup {"Dictionary"}
  <2>1. Inside(entry) = <<entry>>
    BY <1>5 DEF Inside, Nested
  <2> QED BY <1>0, <2>1
<1> QED BY <1>1, <1>2, <1>3, <1>4, <1>5 DEF Nested

Entries(s, fields) == IsList(s) /\ \A j \in 1..Len(s) : Placed(s[j], fields)

(* Unfolding keeps every entry below a column. *)
LEMMA UnfoldKept ==
  ASSUME NEW fields, NEW s, Entries(s, fields),
         \A entry \in ToSet(s) : entry.type.kind = "Struct" => IsList(entry.type.inner)
  PROVE  Entries(Unfold(s), fields)
<1> DEFINE inside(i) == Inside(s[i])
           S == UNION {{inside(i)[j] : j \in 1..Len(inside(i))} : i \in DOMAIN s}
<1>1. Len(s) \in Nat /\ DOMAIN s = 1..Len(s)
  BY ListLen DEF Entries
<1>2. ASSUME NEW i \in 1..Len(s)
      PROVE  IsList(inside(i)) /\ \A j \in 1..Len(inside(i)) : Placed(inside(i)[j], fields)
  <2>1. s[i] \in ToSet(s)
    BY <1>1 DEF ToSet
  <2>2. Placed(s[i], fields) /\ (s[i].type.kind = "Struct" => IsList(s[i].type.inner))
    BY <2>1 DEF Entries
  <2> QED BY <2>2, InsideKept
<1>3. PICK ss : ss = [i \in DOMAIN s |-> inside(i)]
  OBVIOUS
<1>4. Unfold(s) = FlattenSeq(ss)
  BY <1>3 DEF Unfold
<1>5. \A x \in S : Placed(x, fields)
  <2> HIDE DEF inside
  <2> QED BY <1>1, <1>2
<1>6. ASSUME NEW i \in 1..Len(s) PROVE inside(i) \in Seq(S)
  <2>1. IsList(inside(i)) /\ Len(inside(i)) \in Nat /\ DOMAIN inside(i) = 1..Len(inside(i))
    BY <1>2, ListLen
  <2>2. inside(i) \in Seq(ToSet(inside(i)))
    BY <2>1 DEF IsList
  <2>3. \A j \in 1..Len(inside(i)) : inside(i)[j] \in S
    <3> HIDE DEF inside
    <3> QED BY <1>1
  <2> HIDE DEF inside, S
  <2> QED BY <2>1, <2>2, <2>3
<1>7. ss \in Seq(Seq(S))
  <2> HIDE DEF inside, S
  <2>1. ss \in [1..Len(s) -> Seq(S)]
    BY <1>1, <1>3, <1>6
  <2> QED BY <1>1, <2>1
<1> HIDE DEF S, inside
<1>8. FlattenSeq(ss) \in Seq(S)
  BY <1>7, FlattenKeeps
<1>9. IsList(FlattenSeq(ss)) /\ \A j \in 1..Len(FlattenSeq(ss)) : FlattenSeq(ss)[j] \in S
  BY <1>8, ListIs
<1> QED BY <1>4, <1>5, <1>9 DEF Entries

(* The columns are entries below themselves. *)
LEMMA ColumnsPlaced ==
  ASSUME NEW fields, IsList(fields)
  PROVE  Entries(Columns(fields), fields)
<1> DEFINE column(i) == Entry(<<fields[i].name>>, fields[i].type)
           S == {column(i) : i \in DOMAIN fields}
<1>1. Len(fields) \in Nat /\ DOMAIN fields = 1..Len(fields)
  BY ListLen
<1>2. ASSUME NEW i \in DOMAIN fields PROVE Placed(column(i), fields)
  <2>1. PICK path, e : path = <<fields[i].name>> /\ e = Entry(path, fields[i].type)
    OBVIOUS
  <2>2. path \in Seq({fields[i].name}) /\ Len(path) = 1 /\ path[1] = fields[i].name
    BY <2>1
  <2>3. IsList(path)
    BY <2>2, ListIs
  <2>4. e.path = path /\ e.type = fields[i].type
    BY <2>1 DEF Entry
  <2>5. IsBelow(e, fields, i)
    BY <2>2, <2>4 DEF IsBelow
  <2>6. Placed(e, fields)
    <3>0. IsList(e.path) /\ Len(e.path) = 1
      BY <2>2, <2>3, <2>4, Zenon
    <3>1. IsList(e.path) /\ Len(e.path) >= 1
      BY <3>0
    <3>2. \E k \in DOMAIN fields : IsBelow(e, fields, k)
      BY <2>5
    <3> QED BY <3>1, <3>2, Zenon DEF Placed
  <2> QED BY <2>1, <2>6
<1>3. PICK s : s = [i \in DOMAIN fields |-> column(i)]
  OBVIOUS
<1>4. s \in [1..Len(fields) -> S] /\ \A i \in DOMAIN fields : s[i] = column(i)
  <2> HIDE DEF column
  <2> QED BY <1>1, <1>3
<1>5. Columns(fields) = s
  BY <1>3 DEF Columns
<1> HIDE DEF S, column
<1>6. s \in Seq(S) /\ Len(s) = Len(fields)
  BY <1>1, <1>4
<1>7. IsList(s) /\ \A i \in 1..Len(s) : Placed(s[i], fields)
  BY <1>1, <1>2, <1>4, <1>6, ListIs
<1> QED BY <1>5, <1>7 DEF Entries

(* The leaves are a list of entries below the columns. *)
LEMMA LeavesPlaced ==
  ASSUME NEW fields, MaxDepth \in Nat, IsSchema(fields)
  PROVE  Entries(LeavesOf(fields), fields)
<1> DEFINE P == {n \in Nat : n <= MaxDepth => Entries(Unfolded(fields)[n], fields)}
<1>1. 0 \in P
  <2>1. IsList(fields)
    BY DEF IsSchema
  <2>2. Entries(Unfolded(fields)[0], fields)
    BY <2>1, ColumnsPlaced, UnfoldedRule
  <2> QED BY <2>2
<1>2. ASSUME NEW n \in Nat, n \in P PROVE n + 1 \in P
  <2> SUFFICES ASSUME n + 1 <= MaxDepth PROVE Entries(Unfolded(fields)[n + 1], fields)
    OBVIOUS
  <2>1. PICK s : s = Unfolded(fields)[n]
    OBVIOUS
  <2>2. Entries(s, fields)
    BY <1>2, <2>1
  <2>3. \A entry \in ToSet(s) : entry.type.kind = "Struct" => IsList(entry.type.inner)
    <3>1. n \in 0..MaxDepth
      OBVIOUS
    <3> HIDE DEF P
    <3> QED BY <2>1, <3>1 DEF IsSchema
  <2>4. Unfolded(fields)[n + 1] = Unfold(s)
    <3>1. n + 1 \in 0..MaxDepth
      OBVIOUS
    <3> HIDE DEF P
    <3> QED BY <2>1, <3>1, UnfoldedRule
  <2> HIDE DEF P
  <2> QED BY <2>2, <2>3, <2>4, UnfoldKept
<1>3. Nat \subseteq P
  <2> HIDE DEF P
  <2> QED BY <1>1, <1>2, Inductive
<1> QED BY <1>3 DEF LeavesOf

(* A leaf that no other is taken for has the policy that is made for it. *)
LEMMA PolicyIs ==
  ASSUME NEW fields, NEW leaf \in Leaves(fields), NEW o, MaxDepth \in Nat,
         IsSchema(fields), Nameable(leaf, fields)
  PROVE  /\ Policy(leaf, o, fields).dictionary = ResolveDictionary(leaf, o)
         /\ Policy(leaf, o, fields).bloom = ResolveBloom(leaf, o)
<1>1. PICK s : s = LeavesOf(fields)
  OBVIOUS
<1>2. Len(s) \in Nat /\ DOMAIN s = 1..Len(s)
  BY <1>1, LeavesPlaced, ListLen DEF Entries
<1>3. PICK I : I = {i \in 1..Len(s) : Joined(s[i]) = Joined(leaf)}
  OBVIOUS
<1>4. PICK k \in 1..Len(s) : s[k] = leaf
  BY <1>1, <1>2 DEF Leaves, ToSet
<1>5. I # {} /\ I \subseteq 1..Len(s)
  BY <1>3, <1>4
<1>6. Max(I) \in I
  BY <1>2, <1>5, GreatestOf
<1>7. SelectLastInSeq(LeavesOf(fields), LAMBDA other : Joined(other) = Joined(leaf)) = Max(I)
  BY <1>1, <1>3, <1>5, Zenon DEF SelectLastInSeq
<1>8. s[Max(I)] = leaf
  <2>1. Max(I) \in 1..Len(s) /\ Joined(s[Max(I)]) = Joined(leaf)
    BY <1>3, <1>6
  <2>2. s[Max(I)] \in Leaves(fields)
    BY <1>1, <1>2, <2>1 DEF Leaves, ToSet
  <2> QED BY <2>1, <2>2 DEF Nameable
<1>9. Policy(leaf, o, fields) =
        [dictionary |-> ResolveDictionary(leaf, o), bloom |-> ResolveBloom(leaf, o)]
  BY <1>1, <1>7, <1>8, Zenon DEF Policy
<1> QED BY <1>9

(* The flag that a filter is found by is the one in the options. *)
LEMMA FlagIs ==
  ASSUME NEW a, NEW o, NEW leaf, o = OptionsOf(a), IsList(a.bloomOn)
  PROVE  /\ SelectInSeq(o.bloomOn, LAMBDA f : Under(leaf, f.name)) = BloomFlag(leaf, a)
         /\ BloomFlag(leaf, a) \in 0..Len(a.bloomOn)
         /\ BloomFlag(leaf, a) # 0 =>
              o.bloomOn[BloomFlag(leaf, a)].config = Bloom(a.bloomOn[BloomFlag(leaf, a)].params)
<1>1. PICK s, n : s = a.bloomOn /\ n = Len(s)
  OBVIOUS
<1>2. n \in Nat /\ DOMAIN s = 1..n
  BY <1>1, ListLen
<1>3. PICK t : t = o.bloomOn
  OBVIOUS
<1>4. t = [i \in 1..n |-> [name |-> s[i].name, config |-> Bloom(s[i].params)]]
  BY <1>1, <1>2, <1>3 DEF OptionsOf
<1>5. Len(t) = n
  BY <1>2, <1>4
<1>6. \A i \in 1..n : t[i].name = s[i].name /\ t[i].config = Bloom(s[i].params)
  BY <1>4
<1>7. PICK I : I = {i \in 1..n : Under(leaf, s[i].name)}
  OBVIOUS
<1>8. I = {i \in 1..Len(t) : Under(leaf, t[i].name)}
  BY <1>5, <1>6, <1>7
<1>9. BloomFlag(leaf, a) = IF I # {} THEN Min(I) ELSE 0
  BY <1>1, <1>7, Zenon DEF BloomFlag, SelectInSeq
<1>10. SelectInSeq(o.bloomOn, LAMBDA f : Under(leaf, f.name)) = IF I # {} THEN Min(I) ELSE 0
  BY <1>3, <1>8, Zenon DEF SelectInSeq
<1>11. I # {} => Min(I) \in I
  BY <1>2, <1>7, LeastOf
<1>12. I \subseteq 1..n
  BY <1>7
<1>13. BloomFlag(leaf, a) \in 0..n
  <2>1. CASE I # {}
    <3>1. BloomFlag(leaf, a) \in 1..n
      BY <1>9, <1>11, <1>12, <2>1
    <3> QED BY <1>2, <3>1
  <2>2. CASE I = {}
    <3>1. BloomFlag(leaf, a) = 0
      BY <1>9, <2>2
    <3> QED BY <1>2, <3>1
  <2> QED BY <2>1, <2>2
<1>14. BloomFlag(leaf, a) # 0 => BloomFlag(leaf, a) \in 1..n
  BY <1>2, <1>13
<1> QED BY <1>1, <1>3, <1>6, <1>9, <1>10, <1>13, <1>14

(* Of the flags for a column's encoding one is the last. *)
LEMMA LastFlagIs ==
  ASSUME NEW o, NEW leaf, NEW i \in DOMAIN o.encodings, IsList(o.encodings),
         IsColumn(leaf, o.encodings[i].name)
  PROVE  /\ LastFlag(leaf, o) \in i..Len(o.encodings)
         /\ IsColumn(leaf, o.encodings[LastFlag(leaf, o)].name)
         /\ LastFlag(leaf, o) > 0
<1>1. PICK s, n : s = o.encodings /\ n = Len(s)
  OBVIOUS
<1>2. n \in Nat /\ DOMAIN s = 1..n
  BY <1>1, ListLen
<1>3. PICK I : I = {j \in 1..n : IsColumn(leaf, s[j].name)}
  OBVIOUS
<1>4. i \in I /\ I \subseteq 1..n
  BY <1>1, <1>2, <1>3
<1>5. Max(I) \in I /\ i <= Max(I)
  BY <1>2, <1>4, GreatestOf
<1>6. LastFlag(leaf, o) = Max(I)
  <2>1. I # {}
    BY <1>4
  <2> QED BY <1>1, <1>3, <2>1, Zenon DEF LastFlag, SelectLastInSeq
<1>7. Max(I) \in 1..n /\ i \in 1..n
  BY <1>4, <1>5
<1> QED BY <1>1, <1>2, <1>3, <1>5, <1>6, <1>7

(* The settings of a leaf in a row group. *)
LEMMA RowGroupIs ==
  ASSUME NEW o, NEW fields, NEW results, NEW rows, NEW leaf \in Leaves(fields)
  PROVE  LET written == RowGroup(o, fields, results, rows)
         IN  /\ DOMAIN written = Leaves(fields)
             /\ written[leaf].dictionary = UsesDictionary(leaf, o, fields, results, rows)
             /\ written[leaf].bloom = BloomOf(leaf, o, fields, results, rows)
             /\ written[leaf].encoding = EncodingOf(leaf, o, fields)
BY DEF RowGroup

(* What the flags say of a leaf is what its row groups get. *)
LEMMA DictionaryFlags ==
  ASSUME NEW a, NEW o, o = OptionsOf(a), NEW fields, NEW leaf \in Leaves(fields),
         NEW results, NEW rows, MaxDepth \in Nat, IsSchema(fields), Nameable(leaf, fields)
  PROVE  LET written == RowGroup(o, fields, results, rows)
         IN  /\ UnderAny(leaf, a.dictOff) => ~written[leaf].dictionary
             /\ \/ ~DictionaryEligible(leaf.type) \/ UnderAny(leaf, a.dictOff)
                \/ ~UnderAny(leaf, InMode(a.dictOn, "always"))
                \/ written[leaf].dictionary
<1>1. Policy(leaf, o, fields).dictionary = ResolveDictionary(leaf, o)
  BY PolicyIs
<1>2. PICK written : written = RowGroup(o, fields, results, rows)
  OBVIOUS
<1>3. written[leaf].dictionary = UsesDictionary(leaf, o, fields, results, rows)
  BY <1>2, RowGroupIs
<1>4. o.dictOff = a.dictOff /\ o.always = InMode(a.dictOn, "always")
  BY DEF OptionsOf
<1>5. ASSUME UnderAny(leaf, a.dictOff) PROVE ~written[leaf].dictionary
  <2>1. ResolveDictionary(leaf, o) \in {"not eligible", "disabled"}
    BY <1>4, <1>5 DEF ResolveDictionary
  <2>2. ~UsesDictionary(leaf, o, fields, results, rows)
    BY <1>1, <2>1 DEF UsesDictionary
  <2> QED BY <1>3, <2>2
<1>6. ASSUME DictionaryEligible(leaf.type), ~UnderAny(leaf, a.dictOff),
             UnderAny(leaf, InMode(a.dictOn, "always"))
      PROVE  written[leaf].dictionary
  <2>1. ResolveDictionary(leaf, o) = "always"
    BY <1>4, <1>6 DEF ResolveDictionary
  <2>2. UsesDictionary(leaf, o, fields, results, rows)
    BY <1>1, <2>1 DEF UsesDictionary
  <2> QED BY <1>3, <2>2
<1> QED BY <1>2, <1>5, <1>6

(* A filter of the flag that is found. *)
LEMMA FlaggedBloom ==
  ASSUME NEW a, NEW o, o = OptionsOf(a), NEW leaf, IsList(a.bloomOn),
         BloomFlag(leaf, a) # 0, BloomEligible(leaf.type), ~UnderAny(leaf, a.bloomOff),
         FlaggedNdv(leaf, a) # NoNdv \/ Analyzable(leaf.type)
  PROVE  \E config : /\ ResolveBloom(leaf, o) = <<config>>
                     /\ config.ndv = FlaggedNdv(leaf, a)
                     /\ config = [fpp |-> config.fpp, ndv |-> config.ndv]
<1>1. PICK n : n = BloomFlag(leaf, a)
  OBVIOUS
<1>2. PICK config : config = Bloom(a.bloomOn[n].params)
  OBVIOUS
<1>3. o.bloomOn[n].config = config /\ n > 0
  <2>1. Len(a.bloomOn) \in Nat
    BY ListLen
  <2>2. n \in 0..Len(a.bloomOn) /\ n # 0 /\ o.bloomOn[n].config = config
    BY <1>1, <1>2, FlagIs
  <2> QED BY <2>1, <2>2
<1>4. config.ndv = FlaggedNdv(leaf, a) /\ config = [fpp |-> config.fpp, ndv |-> config.ndv]
  <2>1. FlaggedNdv(leaf, a) = ParamOr(a.bloomOn[n].params, "ndv", NoNdv)
    BY <1>1 DEF FlaggedNdv
  <2> QED BY <1>2, <2>1 DEF Bloom
<1>5. o.bloomOff = a.bloomOff
  BY DEF OptionsOf
<1>6. SelectInSeq(o.bloomOn, LAMBDA f : Under(leaf, f.name)) = n
  BY <1>1, FlagIs
<1>7. ~(config.ndv = NoNdv /\ ~Analyzable(leaf.type))
  BY <1>4
<1>8. ResolveBloom(leaf, o) = <<config>>
  BY <1>3, <1>5, <1>6, <1>7, Zenon DEF ResolveBloom
<1> QED BY <1>4, <1>8

(* Filters are off where they are switched off. *)
LEMMA BloomOff ==
  ASSUME NEW a, NEW o, o = OptionsOf(a), NEW fields, NEW leaf \in Leaves(fields),
         NEW results, NEW rows, MaxDepth \in Nat, IsSchema(fields), Nameable(leaf, fields),
         UnderAny(leaf, a.bloomOff)
  PROVE  RowGroup(o, fields, results, rows)[leaf].bloom = Nothing
<1>1. Policy(leaf, o, fields).bloom = ResolveBloom(leaf, o)
  BY PolicyIs
<1>2. o.bloomOff = a.bloomOff
  BY DEF OptionsOf
<1>3. ResolveBloom(leaf, o) = Nothing
  BY <1>2, Zenon DEF ResolveBloom
<1>4. BloomOf(leaf, o, fields, results, rows) = Nothing
  BY <1>1, <1>3, Zenon DEF BloomOf
<1> QED BY <1>4, RowGroupIs

(* They are there, and of the size that is given, where one is. *)
LEMMA BloomSized ==
  ASSUME NEW a, NEW o, o = OptionsOf(a), NEW fields, NEW leaf \in Leaves(fields),
         NEW results, NEW rows, MaxDepth \in Nat, IsSchema(fields), Nameable(leaf, fields),
         IsList(a.bloomOn), BloomEligible(leaf.type), ~UnderAny(leaf, a.bloomOff),
         FlaggedNdv(leaf, a) # NoNdv
  PROVE  RowGroup(o, fields, results, rows)[leaf].bloom[1].ndv = FlaggedNdv(leaf, a)
<1>1. Policy(leaf, o, fields).bloom = ResolveBloom(leaf, o)
  BY PolicyIs
<1>2. BloomFlag(leaf, a) # 0
  BY DEF FlaggedNdv
<1>3. PICK config : ResolveBloom(leaf, o) = <<config>> /\ config.ndv = FlaggedNdv(leaf, a)
  BY <1>2, FlaggedBloom
<1>4. PICK bloom : bloom = Policy(leaf, o, fields).bloom
  OBVIOUS
<1>5. bloom = <<config>> /\ bloom # Nothing /\ bloom[1].ndv = FlaggedNdv(leaf, a)
  <2>1. bloom = <<config>>
    BY <1>1, <1>3, <1>4, Zenon
  <2> QED BY ONLY <1>3, <2>1 DEF Nothing
<1>6. BloomApplies(leaf, o, fields, results, rows)
  BY <1>4, <1>5, Zenon DEF BloomApplies
<1>7. BloomOf(leaf, o, fields, results, rows) = bloom
  BY <1>4, <1>5, <1>6, Zenon DEF BloomOf
<1>8. RowGroup(o, fields, results, rows)[leaf].bloom = BloomOf(leaf, o, fields, results, rows)
  BY RowGroupIs
<1> QED BY <1>5, <1>7, <1>8

(* The encoding of a column is one of its flags, none of which was given later
   than the last. *)
LEMMA EncodingIsFlagged ==
  ASSUME NEW a, NEW o, o = OptionsOf(a), NEW fields, NEW leaf \in Leaves(fields),
         NEW results, NEW rows, IsList(a.encodings),
         NEW i \in DOMAIN a.encodings, IsColumn(leaf, a.encodings[i].name)
  PROVE  \E j \in i..Len(a.encodings) :
           /\ IsColumn(leaf, a.encodings[j].name)
           /\ RowGroup(o, fields, results, rows)[leaf].encoding = a.encodings[j].encoding
<1>1. o.encodings = a.encodings
  BY DEF OptionsOf
<1>2. PICK j : j = LastFlag(leaf, o)
  OBVIOUS
<1>3. j \in i..Len(a.encodings) /\ IsColumn(leaf, a.encodings[j].name) /\ j > 0
  BY <1>1, <1>2, LastFlagIs
<1>4. EncodingOf(leaf, o, fields) = a.encodings[j].encoding
  <2>1. j # 0
    BY <1>3
  <2> QED BY <1>1, <1>2, <1>3, <2>1 DEF EncodingOf
<1>5. RowGroup(o, fields, results, rows)[leaf].encoding = EncodingOf(leaf, o, fields)
  BY RowGroupIs
<1> QED BY <1>3, <1>4, <1>5

(* A parameter that is not given has its default. *)
LEMMA NotGiven ==
  ASSUME NEW key, NEW default
  PROVE  ParamOr(<<>>, key, default) = default
<1>1. PICK s : s = <<>>
  OBVIOUS
<1>2. Len(s) = 0
  BY <1>1
<1>3. PICK I : I = {i \in 1..Len(s) : s[i].key = key}
  OBVIOUS
<1>4. I = {}
  BY <1>2, <1>3
<1>5. SelectInSeq(s, LAMBDA p : p.key = key) = 0
  BY <1>3, <1>4, Zenon DEF SelectInSeq
<1> QED BY <1>1, <1>5, Zenon DEF ParamOr

(* A column that has a filter without a size has it from its own flag or from
   that of all columns. *)
LEMMA UnsizedBloom ==
  ASSUME NEW a, NEW o, o = OptionsOf(a), NEW leaf, IsList(a.bloomOn),
         TopAnalyzable(leaf), BloomEligible(leaf.type), ~UnderAny(leaf, a.bloomOff),
         Unsized(leaf, a)
  PROVE  \E config : /\ ResolveBloom(leaf, o) = <<config>>
                     /\ config.ndv = NoNdv
                     /\ config = [fpp |-> config.fpp, ndv |-> config.ndv]
<1>1. BloomFlag(leaf, a) \in Nat
  <2>1. Len(a.bloomOn) \in Nat
    BY ListLen
  <2>2. BloomFlag(leaf, a) \in 0..Len(a.bloomOn)
    BY FlagIs
  <2> QED BY <2>1, <2>2
<1>2. CASE BloomFlag(leaf, a) # 0
  <2>1. FlaggedNdv(leaf, a) = NoNdv
    BY <1>1, <1>2 DEF Unsized
  <2> QED BY <1>2, <2>1, FlaggedBloom DEF TopAnalyzable
<1>3. CASE BloomFlag(leaf, a) = 0
  <2>1. /\ ~a.bloomAllOff
        /\ a.bloomAll # Nothing => ParamOr(a.bloomAll[1], "ndv", NoNdv) = NoNdv
    BY <1>3 DEF Unsized
  <2>2. PICK params : /\ AllBlooms(a) = <<Bloom(params)>>
                      /\ ParamOr(params, "ndv", NoNdv) = NoNdv
    <3>1. CASE a.bloomAll # Nothing
      BY <2>1, <3>1, Zenon DEF AllBlooms
    <3>2. CASE a.bloomAll = Nothing
      <4>1. AllBlooms(a) = <<Bloom(<<>>)>>
        BY <2>1, <3>2, Zenon DEF AllBlooms
      <4> QED BY <4>1, NotGiven
    <3> QED BY <3>1, <3>2
  <2>3. PICK config : config = Bloom(params)
    OBVIOUS
  <2>4. config.ndv = NoNdv /\ config = [fpp |-> config.fpp, ndv |-> config.ndv]
    BY <2>2, <2>3 DEF Bloom
  <2>5. o.bloomOff = a.bloomOff /\ o.bloomAll = <<config>>
    BY <2>2, <2>3 DEF OptionsOf
  <2>6. SelectInSeq(o.bloomOn, LAMBDA f : Under(leaf, f.name)) = 0
    BY <1>3, FlagIs
  <2>7. ResolveBloom(leaf, o) = o.bloomAll
    <3>1. ~(0 > 0)
      OBVIOUS
    <3> QED BY <2>5, <2>6, <3>1, Zenon DEF ResolveBloom
  <2> QED BY <2>4, <2>5, <2>7
<1> QED BY <1>2, <1>3

(* The column of a leaf at the top is the first of its name, and is analysed as
   the leaf is. *)
LEMMA ColumnOf ==
  ASSUME NEW fields, NEW leaf \in Leaves(fields), MaxDepth \in Nat, IsSchema(fields),
         Nameable(leaf, fields), TopAnalyzable(leaf)
  PROVE  /\ Joined(leaf) = leaf.path[1]
         /\ <<Head(Joined(leaf))>> = leaf.path[1]
         /\ TypeNamed(fields, leaf.path[1]) # Nothing
         /\ Analyzable(TypeNamed(fields, leaf.path[1])[1])
<1>1. Placed(leaf, fields)
  <2>1. PICK s : s = LeavesOf(fields)
    OBVIOUS
  <2>2. Entries(s, fields)
    BY <2>1, LeavesPlaced
  <2>3. DOMAIN s = 1..Len(s)
    BY <2>2, ListLen DEF Entries
  <2>4. PICK k \in 1..Len(s) : s[k] = leaf
    BY <2>1, <2>3 DEF Leaves, ToSet
  <2> QED BY <2>2, <2>4 DEF Entries
<1>2. PICK path, name : path = leaf.path /\ name = path[1]
  OBVIOUS
<1>3. Len(path) = 1 /\ IsList(path)
  BY <1>1, <1>2 DEF TopAnalyzable, Placed
<1>4. PICK i \in DOMAIN fields : /\ fields[i].name = name
                                 /\ \/ leaf.type = fields[i].type
                                    \/ fields[i].type.kind = "Dictionary"
  <2>1. PICK i \in DOMAIN fields : IsBelow(leaf, fields, i)
    BY <1>1 DEF Placed
  <2> QED BY <1>2, <1>3, <2>1 DEF IsBelow
<1>5. IsList(name) /\ Len(name) = 1
  <2>1. DOMAIN path = 1..1
    BY <1>3, ListLen
  <2>2. 1 \in DOMAIN path
    BY <2>1
  <2>3. Len(name) = 1
    BY <1>2, <2>2 DEF Nameable
  <2> QED BY <1>4, <2>3 DEF IsSchema
<1>6. Joined(leaf) = name
  <2>1. path = <<name>>
    <3>1. path \in Seq(ToSet(path)) /\ Len(path) = 1
      BY <1>3 DEF IsList
    <3> QED BY <1>2, <3>1
  <2>2. Joined(leaf) = FlattenSeq(<<name>>)
    BY <1>2, <2>1 DEF Joined
  <2> QED BY <2>2, FlattenOne
<1>7. <<Head(name)>> = name
  <2>1. name \in Seq(ToSet(name)) /\ Len(name) = 1
    BY <1>5 DEF IsList
  <2> QED BY <2>1
<1>8. FieldAt(fields, name) = i
  <2>1. Len(fields) \in Nat /\ DOMAIN fields = 1..Len(fields)
    BY ListLen DEF IsSchema
  <2>2. PICK I : I = {j \in 1..Len(fields) : fields[j].name = name}
    OBVIOUS
  <2>3. I = {i}
    BY <1>4, <2>1, <2>2 DEF IsSchema
  <2>4. Min(I) = i
    <3>1. Min(I) \in I
      BY <2>1, <2>3, LeastOf
    <3> QED BY <2>3, <3>1
  <2>5. I # {}
    BY <2>3
  <2> QED BY <2>2, <2>4, <2>5, Zenon DEF FieldAt, SelectInSeq
<1>9. TypeNamed(fields, name) = <<fields[i].type>>
  <2>1. i # 0
    <3>1. Len(fields) \in Nat /\ DOMAIN fields = 1..Len(fields)
      BY ListLen DEF IsSchema
    <3> QED BY <3>1
  <2> QED BY <1>8, <2>1, Zenon DEF TypeNamed
<1>10. Analyzable(fields[i].type)
  BY <1>4 DEF TopAnalyzable, Analyzable, Nested
<1>11. TypeNamed(fields, name) # Nothing /\ Analyzable(TypeNamed(fields, name)[1])
  <2>1. PICK type : type = fields[i].type
    OBVIOUS
  <2>2. <<type>> # Nothing /\ <<type>>[1] = type
    BY DEF Nothing
  <2> QED BY <1>9, <1>10, <2>1, <2>2
<1> QED BY <1>2, <1>6, <1>7, <1>11

(* A filter without a size is there where the dictionary is, and is made for
   the distinct values. *)
LEMMA UnsizedFollows ==
  ASSUME NEW a, NEW o, o = OptionsOf(a), NEW fields, NEW leaf \in Leaves(fields),
         NEW results, NEW rows, DOMAIN results = Analysed(o, fields),
         MaxDepth \in Nat, IsSchema(fields), Nameable(leaf, fields), IsList(a.bloomOn),
         TopAnalyzable(leaf), BloomEligible(leaf.type), ~UnderAny(leaf, a.bloomOff),
         Unsized(leaf, a)
  PROVE  LET written == RowGroup(o, fields, results, rows)
         IN  /\ (written[leaf].bloom # Nothing) = written[leaf].dictionary
             /\ written[leaf].dictionary =>
                  written[leaf].bloom[1].ndv = results[leaf.path[1]].distinct
<1>1. PICK written : written = RowGroup(o, fields, results, rows)
  OBVIOUS
<1>2. /\ written[leaf].dictionary = UsesDictionary(leaf, o, fields, results, rows)
      /\ written[leaf].bloom = BloomOf(leaf, o, fields, results, rows)
  BY <1>1, RowGroupIs
<1>3. PICK config : /\ ResolveBloom(leaf, o) = <<config>>
                    /\ config.ndv = NoNdv
                    /\ config = [fpp |-> config.fpp, ndv |-> config.ndv]
  BY UnsizedBloom
<1>4. PICK bloom : bloom = Policy(leaf, o, fields).bloom
  OBVIOUS
<1>5. bloom = <<config>> /\ bloom # Nothing /\ bloom[1] = config
  BY <1>3, <1>4, PolicyIs DEF Nothing
<1>6. PICK name : name = leaf.path[1]
  OBVIOUS
<1>7. Joined(leaf) = name
  BY <1>6, ColumnOf
<1>8. name \in DOMAIN results
  <2>1. WantsAnalysis(Policy(leaf, o, fields))
    BY <1>3, <1>4, <1>5, Zenon DEF WantsAnalysis
  <2>2. name \in NeedingAnalysis(o, fields)
    <3>1. name = <<Head(Joined(leaf))>>
      BY <1>6, ColumnOf
    <3> QED BY <2>1, <3>1 DEF NeedingAnalysis
  <2>3. TypeNamed(fields, name) # Nothing /\ Analyzable(TypeNamed(fields, name)[1])
    BY <1>6, ColumnOf
  <2> QED BY <2>2, <2>3, Zenon DEF Analysed
<1>9. BloomApplies(leaf, o, fields, results, rows)
        <=> UsesDictionary(leaf, o, fields, results, rows)
  BY <1>3, <1>4, <1>5, Zenon DEF BloomApplies
<1>10. PICK sized : sized = [config EXCEPT !.ndv = results[name].distinct]
  OBVIOUS
<1>11. sized.ndv = results[name].distinct
  BY <1>3, <1>10
<1>12. CASE UsesDictionary(leaf, o, fields, results, rows)
  <2>1. BloomOf(leaf, o, fields, results, rows) = <<sized>>
    BY <1>3, <1>4, <1>5, <1>7, <1>8, <1>9, <1>10, <1>12, Zenon DEF BloomOf
  <2>2. written[leaf].bloom # Nothing /\ written[leaf].bloom[1] = sized
    BY <1>2, <2>1 DEF Nothing
  <2> QED BY <1>1, <1>2, <1>6, <1>11, <1>12, <2>2
<1>13. CASE ~UsesDictionary(leaf, o, fields, results, rows)
  <2>1. BloomOf(leaf, o, fields, results, rows) = Nothing
    BY <1>4, <1>9, <1>13, Zenon DEF BloomOf
  <2>2. written[leaf].dictionary = FALSE
    <3>1. UsesDictionary(leaf, o, fields, results, rows) = FALSE
      BY <1>13 DEF UsesDictionary
    <3> QED BY <1>2, <3>1
  <2>3. (written[leaf].bloom # Nothing) = FALSE
    BY <1>2, <2>1
  <2> QED BY <1>1, <2>2, <2>3
<1> QED BY <1>12, <1>13

(* The file is written with the options of a command that was accepted, for one
   of the schemas. *)
SettingsInv ==
  /\ phase \in {"args", "bound", "open"} => args \in Commands
  /\ phase \in {"bound", "open"} => options = <<OptionsOf(args)>>
  /\ phase = "open" => schema \in Schemas

(* Binding, creating a file and starting its pipeline keep it. *)
LEMMA SettingsKept ==
  ASSUME SettingsInv, [SettingsNext \/ TakeSettings]_settings
  PROVE  SettingsInv'
<1>1. CASE Bind
  BY <1>1 DEF Bind, SettingsInv
<1>2. CASE Create
  BY <1>2 DEF Create, SettingsInv
<1>3. CASE TakeSettings
  BY <1>3 DEF TakeSettings, SettingsInv
<1>4. CASE UNCHANGED settings
  BY <1>4 DEF settings, SettingsInv
<1> QED BY <1>1, <1>2, <1>3, <1>4 DEF SettingsNext

(* With such settings, the row groups of a leaf are as the flags over it say. *)
LEMMA FlagsFollow == ParquetSettingsAssumption /\ SettingsInv => FlagsHold
<1> SUFFICES ASSUME ParquetSettingsAssumption, SettingsInv, phase = "open",
                    NEW written \in RowGroupsOf(options[1], schema),
                    NEW leaf \in DOMAIN written, Nameable(leaf, schema)
             PROVE  /\ UnderAny(leaf, args.dictOff) => ~written[leaf].dictionary
                    /\ \/ ~UnderAny(leaf, args.bloomOff) \/ BloomFlag(leaf, args) > 0
                       \/ written[leaf].bloom = Nothing
                    /\ \/ ~DictionaryEligible(leaf.type) \/ UnderAny(leaf, args.dictOff)
                       \/ ~UnderAny(leaf, InMode(args.dictOn, "always"))
                       \/ written[leaf].dictionary
                    /\ \/ ~BloomEligible(leaf.type) \/ UnderAny(leaf, args.bloomOff)
                       \/ FlaggedNdv(leaf, args) = NoNdv
                       \/ written[leaf].bloom[1].ndv = FlaggedNdv(leaf, args)
                    /\ \A i \in DOMAIN args.encodings :
                         \/ ~IsColumn(leaf, args.encodings[i].name)
                         \/ \E j \in i..Len(args.encodings) :
                              /\ IsColumn(leaf, args.encodings[j].name)
                              /\ written[leaf].encoding = args.encodings[j].encoding
  BY DEF FlagsHold
<1>1. PICK o : o = options[1] /\ o = OptionsOf(args)
  BY DEF SettingsInv
<1>2. /\ IsSchema(schema) /\ MaxDepth \in Nat
      /\ IsList(args.bloomOn) /\ IsList(args.encodings)
  BY DEF SettingsInv, ParquetSettingsAssumption
<1>3. PICK results, rows : written = RowGroup(o, schema, results, rows)
  BY <1>1 DEF RowGroupsOf
<1>4. leaf \in Leaves(schema)
  BY <1>3 DEF RowGroup
<1>5. /\ UnderAny(leaf, args.dictOff) => ~written[leaf].dictionary
      /\ \/ ~DictionaryEligible(leaf.type) \/ UnderAny(leaf, args.dictOff)
         \/ ~UnderAny(leaf, InMode(args.dictOn, "always"))
         \/ written[leaf].dictionary
  BY <1>1, <1>2, <1>3, <1>4, DictionaryFlags
<1>6. /\ \/ ~UnderAny(leaf, args.bloomOff) \/ BloomFlag(leaf, args) > 0
         \/ written[leaf].bloom = Nothing
      /\ \/ ~BloomEligible(leaf.type) \/ UnderAny(leaf, args.bloomOff)
         \/ FlaggedNdv(leaf, args) = NoNdv
         \/ written[leaf].bloom[1].ndv = FlaggedNdv(leaf, args)
  <2>1. ASSUME UnderAny(leaf, args.bloomOff) PROVE written[leaf].bloom = Nothing
    BY <1>1, <1>2, <1>3, <1>4, <2>1, BloomOff
  <2>2. ASSUME BloomEligible(leaf.type), ~UnderAny(leaf, args.bloomOff),
               FlaggedNdv(leaf, args) # NoNdv
        PROVE  written[leaf].bloom[1].ndv = FlaggedNdv(leaf, args)
    BY <1>1, <1>2, <1>3, <1>4, <2>2, BloomSized
  <2> QED BY <2>1, <2>2
<1>7. ASSUME NEW i \in DOMAIN args.encodings, IsColumn(leaf, args.encodings[i].name)
      PROVE  \E j \in i..Len(args.encodings) :
               /\ IsColumn(leaf, args.encodings[j].name)
               /\ written[leaf].encoding = args.encodings[j].encoding
  BY <1>1, <1>2, <1>3, <1>4, <1>7, EncodingIsFlagged
<1> QED BY <1>5, <1>6, <1>7

(* And a filter without a size is where its dictionary is. *)
LEMMA BloomFollows == ParquetSettingsAssumption /\ SettingsInv => BloomFollowsDictionary
<1> SUFFICES ASSUME ParquetSettingsAssumption, SettingsInv, phase = "open",
                    NEW results \in [Analysed(options[1], schema) -> Analyses],
                    NEW rows \in RowCounts,
                    NEW leaf \in DOMAIN RowGroup(options[1], schema, results, rows),
                    Nameable(leaf, schema), TopAnalyzable(leaf), BloomEligible(leaf.type),
                    Unsized(leaf, args), ~UnderAny(leaf, args.bloomOff)
             PROVE  LET written == RowGroup(options[1], schema, results, rows)
                    IN  /\ (written[leaf].bloom # Nothing) = written[leaf].dictionary
                        /\ written[leaf].dictionary =>
                             written[leaf].bloom[1].ndv = results[leaf.path[1]].distinct
  BY DEF BloomFollowsDictionary
<1>1. PICK o : o = options[1] /\ o = OptionsOf(args)
  BY DEF SettingsInv
<1>2. IsSchema(schema) /\ MaxDepth \in Nat /\ IsList(args.bloomOn)
  BY DEF SettingsInv, ParquetSettingsAssumption
<1>3. leaf \in Leaves(schema)
  BY DEF RowGroup
<1>4. DOMAIN results = Analysed(o, schema)
  BY <1>1
<1> QED BY <1>1, <1>2, <1>3, <1>4, UnsizedFollows

(* The settings of a command are always such. *)
LEMMA SettingsAlways == SettingsSpec => []SettingsInv
<1>1. SettingsInit => SettingsInv
  BY DEF SettingsInit, SettingsInv
<1>2. SettingsInv /\ [SettingsNext \/ TakeSettings]_settings => SettingsInv'
  BY SettingsKept
<1> QED BY <1>1, <1>2, PTL DEF SettingsSpec

(* Whatever the flags, the schemas and what the analysis finds, a column is
   written as the flags over it say, through parsing, binding, policies and row
   groups. *)
THEOREM FlagsReachColumns == SettingsSpec => []FlagsHold
<1>1. SettingsInv => FlagsHold
  BY FlagsFollow, ParquetSettingsAssumption
<1> QED BY <1>1, SettingsAlways, PTL

(* A filter without a size is where the dictionary is, for all settings. *)
THEOREM FiltersFollowDictionaries == SettingsSpec => []BloomFollowsDictionary
<1>1. SettingsInv => BloomFollowsDictionary
  BY BloomFollows, ParquetSettingsAssumption
<1> QED BY <1>1, SettingsAlways, PTL

=============================================================================

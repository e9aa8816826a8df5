----------------------------- MODULE UploadTask -----------------------------
(***************************************************************************)
(* ObjectUploadTask (silk-chiffon-storage, src/upload/task.rs): the owner  *)
(* of one output object, which couples the task that encodes it, its       *)
(* producer, to the upload of its bytes.  The sinks of all formats are     *)
(* built on it: ParquetSink and StreamSinks are two kinds of producer.     *)
(*                                                                         *)
(* The upload is external here: ObjectUpload shows that it publishes what  *)
(* was written, or nothing.                                                *)
(***************************************************************************)
EXTENDS Integers, Sequences

CONSTANTS BatchRows, \* the sizes of the batches
          MaxRows    \* bound on the rows of the stream

ASSUME TaskAssumption == BatchRows \subseteq Nat \ {0} /\ MaxRows \in Nat

VARIABLES
  format,   \* the format of the sink, which never changes
  caller,   \* the owner of the sink: see Callers
  accepted, \* rows of the batches that write_batch accepted
  token,    \* the cancellation token of the task
  producer, \* the task that encodes: see Producers
  hadEnded, \* was_finished: it had ended when abort looked
  primary,  \* the abort follows a failure, which finish returns
  upload,   \* the object's upload: see Uploads
  report    \* what the sink's finish or abort returned

ownerVars == <<format, caller, accepted, hadEnded, primary, report>>

Formats == {"parquet", "arrow", "vortex"}
Callers == {"writing", "failed", "flushing", "finishing", "completing",
            "cleaning", "cancelling", "aborting", "dropping", "gone"}
Over == {"ok", "cancelled", "err", "panicked"}
Uploads == {"open", "broken", "completing", "published", "lost", "aborted"}

TaskInit ==
  /\ format \in Formats
  /\ caller = "writing" /\ accepted = 0 /\ token = FALSE /\ report = "none"
  /\ hadEnded = FALSE /\ primary = FALSE
  /\ producer = "starting" /\ upload = "open"

-----------------------------------------------------------------------------
(* The calls of the owner *)

(* What abort and drop do first: a closed channel looks like the end of the
   stream, so the cancellation is published before the sender is dropped.
   Faulty variant: the other way round. *)
SenderFirst == "sender"
First == "token"

(* The sender lives until finish, abort or drop takes it.  Faulty variant:
   finish keeps it. *)
Unfinished == caller \in {"writing", "failed", "flushing"}
InputOpenAtFinish == Unfinished \/ caller = "finishing"
InputOpen ==
  Unfinished \/ (caller \in {"cancelling", "dropping"} /\ First = "token")

(* write_batch fails, and its caller stops writing. *)
CallerFails ==
  /\ caller = "writing"
  /\ caller' = "failed"
  /\ UNCHANGED <<format, accepted, hadEnded, primary, report, token, producer,
                 upload>>

(* The sink is finished: it drops its sender and joins the producer. *)
JoinProducer(from) ==
  /\ caller = from
  /\ caller' = "finishing"
  /\ UNCHANGED <<format, accepted, hadEnded, primary, report, token, producer,
                 upload>>

(* ObjectUploadTask::finish has joined the producer: complete the upload, or
   abort it and return the producer's error.  Faulty variant: the result is
   not looked at. *)
ProducedAny == producer \in Over
Produced == producer \in {"ok", "cancelled"}

FinishJoined ==
  /\ caller = "finishing" /\ producer \in Over
  /\ IF Produced
     THEN /\ caller' = "completing"
          /\ upload' = IF upload = "open" THEN "completing" ELSE "lost"
     ELSE caller' = "cleaning" /\ UNCHANGED upload
  /\ UNCHANGED <<format, accepted, hadEnded, primary, report, token, producer>>

(* complete or the cleanup returns.  A complete that fails may have published
   the object. *)
Completed ==
  /\ \/ /\ caller = "completing" /\ upload = "published"
        /\ report' = IF producer = "cancelled" THEN "err" ELSE "ok"
     \/ caller = "completing" /\ upload \in {"lost", "published"}
        /\ report' = "err"
     \/ caller = "cleaning" /\ upload = "aborted" /\ report' = "err"
  /\ caller' = "gone"
  /\ UNCHANGED <<format, accepted, hadEnded, primary, token, producer, upload>>

(* The sink's abort begins. *)
CancelFirst(from, failure) ==
  /\ caller \in from
  /\ caller' = "cancelling"
  /\ token' = (token \/ First = "token")
  /\ primary' = failure
  /\ UNCHANGED <<format, accepted, hadEnded, report, producer, upload>>

Abort == CancelFirst({"writing", "failed"}, FALSE)

(* The sink, or the future of its finish or abort, is dropped. *)
Drop ==
  /\ caller \notin {"gone", "cancelling", "dropping"}
  /\ IF Unfinished
     THEN caller' = "dropping" /\ token' = (token \/ First = "token")
     ELSE caller' = "gone" /\ token' = TRUE
  /\ UNCHANGED <<format, accepted, hadEnded, primary, report, producer, upload>>

(* Faulty variant: the producer's error is never asked for. *)
NeverEnded == FALSE
IsFinished == producer \in Over

(* Then the sender is dropped, the ObjectUploadTask's abort asks whether the
   producer has ended, and it cancels again, as its drop does. *)
CloseInput ==
  /\ caller \in {"cancelling", "dropping"}
  /\ IF caller = "cancelling"
     THEN caller' = "aborting" /\ hadEnded' = IsFinished
     ELSE caller' = "gone" /\ UNCHANGED hadEnded
  /\ token' = TRUE
  /\ UNCHANGED <<format, accepted, primary, report, producer, upload>>

(* task_error_after_cancel: what a producer that was told to stop reports is
   no error, unless it had ended before or panicked. *)
TaskError == producer = "panicked" \/ (producer = "err" /\ hadEnded)

(* The producer and the upload are joined together.  The upload's abort fails
   with its cleanup. *)
Aborted ==
  /\ caller = "aborting" /\ producer \in Over /\ upload = "aborted"
  /\ caller' = "gone"
  /\ report' \in IF TaskError \/ primary THEN {"err"} ELSE {"aborted", "err"}
  /\ UNCHANGED <<format, accepted, hadEnded, primary, token, producer, upload>>

-----------------------------------------------------------------------------
(* The upload *)

UploadSteps(change) ==
  /\ change
  /\ UNCHANGED <<ownerVars, token, producer>>

UploadBreaks == UploadSteps(upload = "open" /\ upload' = "broken")

UploadAborts == UploadSteps(
  /\ caller \in {"aborting", "cleaning", "gone"}
  /\ upload \in {"open", "broken"}
  /\ upload' = "aborted")

UploadCompletes == UploadSteps(
  upload = "completing" /\ upload' \in {"published", "lost"})

(* What goes on by itself once the owner has decided. *)
TaskOwner == FinishJoined \/ CloseInput \/ Completed \/ Aborted
Upload == UploadAborts \/ UploadCompletes
=============================================================================

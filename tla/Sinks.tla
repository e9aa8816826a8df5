-------------------------------- MODULE Sinks --------------------------------
(***************************************************************************)
(* One output object of a command, in any of the formats: what its sink    *)
(* promises is the same, and what its writers do to keep it is not.  A     *)
(* sink has one producer; the other one's variables keep their initial     *)
(* values.                                                                 *)
(***************************************************************************)
EXTENDS ParquetSink, StreamSinks

taskState == <<ownerVars, token, producer, upload>>
vars == <<taskState, pipelineVars, streamVars>>

Init == TaskInit /\ ParquetInit /\ StreamInit

Next == \/ format = "parquet" /\ ParquetNext /\ UNCHANGED streamVars
        \/ StreamNext /\ UNCHANGED pipelineVars

Spec == Init /\ [][Next]_vars

(* What goes on by itself: the runtimes poll what is ready, the codecs' and the
   store's calls return, and a flush goes on once the writer takes a batch.
   Nothing makes the owner of the sink go on. *)
Runs ==
  \/ /\ format = "parquet" /\ UNCHANGED streamVars
     /\ \/ Ingestion \/ AnalysisEnds \/ Encoder \/ EncodeTask
        \/ Writer \/ WriteTask \/ StageCancelled \/ Settle
  \/ ArrowWriter /\ UNCHANGED pipelineVars
  \/ (VortexWriter \/ VortexFlushing) /\ UNCHANGED pipelineVars
  \/ (TaskOwner \/ Upload) /\ UNCHANGED <<pipelineVars, streamVars>>

(* The process does not stop while some task can run.  This is enough, although
   it favours no task: a task that runs does so finitely often. *)
FairSpec == Spec /\ WF_vars(Runs)

-----------------------------------------------------------------------------
(* Properties *)

(* What is in the object: its rows in order, and its row groups or record
   batches. *)
Content == IF format = "parquet" THEN Rows(file) ELSE FlattenSeq(arrays)
Pieces == IF format = "parquet" THEN [i \in DOMAIN file |-> file[i].rows]
                                ELSE arrays
PieceRows == IF format = "parquet" THEN GroupRows ELSE RecordBatch
Complete == closed \/ footer
RowsWritten == IF format = "parquet" THEN total ELSE counted

(* The file holds the rows in the order of the stream, in row groups or record
   batches that are full but for the last, although batches are cut and put
   together at their boundaries and row groups are encoded concurrently; a
   success reports their number. *)
InOrder ==
  /\ IsPrefix(Content, [i \in 1..accepted |-> i])
  /\ \A i \in DOMAIN Pieces : /\ i < Len(Pieces) => Len(Pieces[i]) = PieceRows
                              /\ Len(Pieces[i]) \in 1..PieceRows
  /\ report = "ok" => RowsWritten = accepted

(* An error that stopped the producer by itself is not lost by the abort that
   follows it, although the abort takes the error of a producer that was still
   running for the consequence of its own cancellation. *)
ErrorsKept ==
  []((producer = "err" /\ Unfinished) => [](report # "aborted"))

(* The sink keeps the promise of its upload for rows: the object appears at
   once, whole and with its footer, and never after an abort or for a producer
   that failed. *)
NoObject == <<-1>>
AO == INSTANCE AtomicObject WITH
  Uploads <- {"sink"},
  accepted <- [u \in {"sink"} |-> accepted],
  decision <- [u \in {"sink"} |->
    IF upload \in {"completing", "published", "lost"} THEN "complete"
    ELSE IF caller \in {"aborting", "cleaning", "gone"} THEN "abort"
    ELSE "open"],
  object <- [u \in {"sink"} |-> IF upload # "published" THEN NoObject
                                ELSE IF Complete THEN Content ELSE <<0>>],
  outcome <- [u \in {"sink"} |-> report]

ImplementsAtomicObject == AO!Spec

(* A sink whose owner finishes, aborts or drops it is settled, and a stage that
   fails ends the pipeline although its owner neither writes nor gives up. *)
GivenUp == caller \notin {"writing", "failed"}
Settles ==
  (GivenUp \/ \E s \in Stages : Is(s, "err")) ~>
    /\ producer \in Over /\ Quiet
    /\ GivenUp => caller = "gone" /\ upload # "open"
=============================================================================

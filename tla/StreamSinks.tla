----------------------------- MODULE StreamSinks -----------------------------
(***************************************************************************)
(* The sinks of one writer behind one queue: Arrow (silk-chiffon-format-   *)
(* arrow, src/output/mod.rs), whose writer is a blocking thread that       *)
(* coalesces the batches itself and looks at the token between its writes, *)
(* and Vortex (silk-chiffon-format-vortex, src/output.rs), whose sink      *)
(* coalesces and whose writer is a future that is dropped when the token   *)
(* is set.  The writer is the producer of UploadTask.                      *)
(*                                                                         *)
(* A row is its number in the stream; the codecs, which write a record     *)
(* batch or a footer, may fail or panic.                                   *)
(***************************************************************************)
EXTENDS UploadTask, SequencesExt

CONSTANTS RecordBatch, \* the record batch size
          QueueDepth   \* the capacity of the channel

ASSUME StreamAssumption ==
  RecordBatch \in Nat \ {0} /\ QueueDepth \in Nat \ {0}

VARIABLES
  channel,   \* the queue between the sink and its writer
  held,      \* the rows in the coalescer
  ready,     \* the batches it has completed
  counted,   \* rows_written
  arrays,    \* the record batches in the object's bytes
  footer,    \* the footer has been written
  at,        \* where the Arrow writer stands: "recv", "write", "last", "footer"
  checked    \* it has looked at the token and goes on to write there

streamVars == <<channel, held, ready, counted, arrays, footer, at, checked>>

WriterOver == producer \in Over

StreamInit ==
  /\ channel = <<>> /\ held = <<>> /\ ready = <<>> /\ counted = 0
  /\ arrays = <<>> /\ footer = FALSE /\ at = "recv" /\ checked = FALSE

(* BatchCoalescer: the full batches of the rows, and what is left. *)
FullBatches(rows) ==
  [i \in 1..(Len(rows) \div RecordBatch) |->
     SubSeq(rows, (i - 1) * RecordBatch + 1, i * RecordBatch)]
Left(rows) == SubSeq(rows, Len(FullBatches(rows)) * RecordBatch + 1, Len(rows))

Push(rows) ==
  /\ ready' = FullBatches(held \o rows)
  /\ held' = Left(held \o rows)

(* finish_buffered_batch.  Faulty variant: only full batches are written. *)
NoBuffered == <<>>
Buffered == IF held = <<>> THEN <<>> ELSE <<held>>

(* The writer ends, and with it the receiver. *)
WriterEnds(how) ==
  /\ producer' = how
  /\ channel' = <<>> /\ checked' = FALSE
  /\ UNCHANGED <<ownerVars, token, upload, held, ready, counted, at>>

WriteNext ==
  /\ arrays' = Append(arrays, Head(ready))
  /\ ready' = Tail(ready)
  /\ counted' = counted + Len(Head(ready))

-----------------------------------------------------------------------------
(* Arrow *)

ArrowWriteBatch ==
  /\ format = "arrow" /\ caller = "writing"
  /\ ~WriterOver /\ Len(channel) < QueueDepth
  /\ \E n \in BatchRows :
       /\ accepted + n <= MaxRows
       /\ channel' = Append(channel, [i \in 1..n |-> accepted + i])
       /\ accepted' = accepted + n
  /\ UNCHANGED <<format, caller, report, hadEnded, primary, token, producer,
                 upload, held, ready, counted, arrays, footer, at, checked>>

ArrowWriteFails ==
  /\ format = "arrow" /\ WriterOver
  /\ CallerFails
  /\ UNCHANGED streamVars

ArrowFinish ==
  format = "arrow" /\ JoinProducer("writing") /\ UNCHANGED streamVars

(* The writer sees the token: Ok(WriteOutcome::Cancelled). *)
ArrowCancelled ==
  /\ format = "arrow" /\ ~WriterOver /\ token /\ ~checked
  /\ producer = "starting" \/ at # "recv" \/ channel # <<>> \/ ~InputOpen
  /\ WriterEnds("cancelled")
  /\ UNCHANGED <<arrays, footer>>

ArrowStart ==
  /\ format = "arrow" /\ producer = "starting" /\ ~token
  /\ producer' = "running"
  /\ UNCHANGED <<ownerVars, token, upload, streamVars>>

ArrowRecv ==
  /\ format = "arrow" /\ producer = "running" /\ at = "recv"
  /\ channel # <<>> /\ ~token
  /\ Push(Head(channel))
  /\ channel' = Tail(channel)
  /\ at' = IF ready' = <<>> THEN "recv" ELSE "write"
  /\ UNCHANGED <<ownerVars, token, producer, upload, counted, arrays, footer,
                 checked>>

(* It looks at the token before a batch or the footer, which it writes on its own
   thread: the token may be set in between. *)
ArrowCheck ==
  /\ format = "arrow" /\ producer = "running" /\ at # "recv"
  /\ ~token /\ ~checked
  /\ checked' = TRUE
  /\ UNCHANGED <<ownerVars, token, producer, upload, channel, held, ready,
                 counted, arrays, footer, at>>

ArrowWrite ==
  /\ format = "arrow" /\ producer = "running" /\ checked
  /\ at \in {"write", "last"} /\ ready # <<>>
  /\ WriteNext
  /\ checked' = FALSE
  /\ at' = IF at = "last" THEN "footer"
           ELSE IF ready' = <<>> THEN "recv" ELSE "write"
  /\ UNCHANGED <<ownerVars, token, producer, upload, channel, held, footer>>

(* The end of the channel. *)
ArrowEof ==
  /\ format = "arrow" /\ producer = "running" /\ at = "recv"
  /\ channel = <<>> /\ ~InputOpen /\ ~token
  /\ ready' = Buffered /\ held' = <<>>
  /\ at' = IF ready' = <<>> THEN "footer" ELSE "last"
  /\ UNCHANGED <<ownerVars, token, producer, upload, channel, counted, arrays,
                 footer, checked>>

(* writer.finish.  The last bytes need the upload. *)
ArrowFooter ==
  /\ format = "arrow" /\ producer = "running" /\ at = "footer" /\ checked
  /\ upload = "open"
  /\ footer' = TRUE
  /\ WriterEnds("ok") /\ UNCHANGED arrays

(* The codec or the upload's writer fails, or the thread panics. *)
ArrowFails ==
  /\ format = "arrow" /\ ~WriterOver
  /\ producer = "starting" \/ at # "recv" \/ channel # <<>> \/ ~InputOpen
  /\ \E how \in {"err", "panicked"} : WriterEnds(how)
  /\ UNCHANGED <<arrays, footer>>

-----------------------------------------------------------------------------
(* Vortex *)

VortexWriteBatch ==
  /\ format = "vortex" /\ caller = "writing" /\ ready = <<>>
  /\ \E n \in BatchRows :
       /\ accepted + n <= MaxRows
       /\ Push([i \in 1..n |-> accepted + i])
       /\ accepted' = accepted + n
  /\ UNCHANGED <<format, caller, report, hadEnded, primary, token, producer,
                 upload, channel, counted, arrays, footer, at, checked>>

(* flush_completed_batches, in write_batch or finish. *)
VortexSend ==
  /\ format = "vortex" /\ caller \in {"writing", "flushing"} /\ ready # <<>>
  /\ ~WriterOver /\ Len(channel) < QueueDepth
  /\ channel' = Append(channel, Head(ready))
  /\ ready' = Tail(ready)
  /\ counted' = counted + Len(Head(ready))
  /\ UNCHANGED <<ownerVars, token, producer, upload, held, arrays, footer, at,
                 checked>>

(* The writer has gone, or a batch does not convert: write_batch fails, and
   finish aborts and returns that failure. *)
VortexSendFails ==
  /\ format = "vortex" /\ ready # <<>>
  /\ CallerFails \/ CancelFirst({"flushing"}, TRUE)
  /\ ready' = Tail(ready)
  /\ UNCHANGED <<channel, held, counted, arrays, footer, at, checked>>

VortexFlush ==
  /\ format = "vortex" /\ caller = "writing" /\ ready = <<>>
  /\ caller' = "flushing"
  /\ ready' = Buffered /\ held' = <<>>
  /\ UNCHANGED <<format, accepted, report, hadEnded, primary, token, producer,
                 upload, channel, counted, arrays, footer, at, checked>>

VortexFinish ==
  /\ format = "vortex" /\ ready = <<>>
  /\ JoinProducer("flushing")
  /\ UNCHANGED streamVars

(* write_file takes the next array. *)
VortexRecv ==
  /\ format = "vortex" /\ ~WriterOver /\ channel # <<>>
  /\ arrays' = Append(arrays, Head(channel))
  /\ channel' = Tail(channel)
  /\ producer' = "running"
  /\ UNCHANGED <<ownerVars, token, upload, held, ready, counted, footer, at,
                 checked>>

VortexFooter ==
  /\ format = "vortex" /\ ~WriterOver /\ channel = <<>> /\ ~InputOpen
  /\ upload = "open"
  /\ footer' = TRUE
  /\ WriterEnds("ok") /\ UNCHANGED arrays

VortexFails ==
  /\ format = "vortex" /\ ~WriterOver
  /\ \E how \in {"err", "panicked"} : WriterEnds(how)
  /\ UNCHANGED <<arrays, footer>>

(* run_until_cancelled drops the future at an await; what it has written
   stays in the upload, which is never completed then. *)
VortexCancelled ==
  /\ format = "vortex" /\ ~WriterOver /\ token
  /\ WriterEnds("err")
  /\ UNCHANGED <<arrays, footer>>

-----------------------------------------------------------------------------

ArrowWriter == \/ ArrowCancelled \/ ArrowStart \/ ArrowRecv \/ ArrowCheck
               \/ ArrowWrite \/ ArrowEof \/ ArrowFooter \/ ArrowFails
VortexWriter == VortexRecv \/ VortexFooter \/ VortexCancelled \/ VortexFails
VortexFlushing == VortexSend \/ VortexSendFails \/ VortexFinish

StreamNext ==
  \/ ArrowWriteBatch \/ ArrowWriteFails \/ ArrowFinish \/ ArrowWriter
  \/ VortexWriteBatch \/ VortexFlushing \/ VortexFlush \/ VortexWriter
  \/ /\ format \in {"arrow", "vortex"}
     /\ Abort \/ Drop \/ TaskOwner \/ Upload \/ UploadBreaks
     /\ UNCHANGED streamVars

(* An abort or drop of the sink does not look like the end of the stream to an
   Arrow writer, wherever it was between its looks at the token: it never writes
   the footer, though it may still write the batch before which it had looked.
   (A future of finish that is dropped while the writer is at its footer may leave
   one, which is never published; and Vortex polls its writer before the token.) *)
NoFooterAfterAbort ==
  []((format = "arrow" /\ caller \in {"cancelling", "dropping"}) => []~footer)
=============================================================================

---------------------------- MODULE ObjectUpload ----------------------------
(***************************************************************************)
(* The storage-owned upload of one object (silk-chiffon-storage,           *)
(* src/upload.rs), for several uploads of one command that share the       *)
(* command-wide part permits.                                              *)
(*                                                                         *)
(* The caller is a format sink.  It starts the worker by taking the        *)
(* writer, sends chunks through a bounded channel, and then completes,     *)
(* aborts or drops the upload.  The worker buffers up to one part, turns   *)
(* to a multipart upload beyond that, keeps part requests in flight in a   *)
(* JoinSet under the permits, and settles the object.  The store is        *)
(* external: it may fail any call, and a failed call may have taken        *)
(* effect.                                                                 *)
(*                                                                         *)
(* A byte is its number in the order the channel accepted it: the          *)
(* contents of buffers and objects are sequences of those numbers.         *)
(***************************************************************************)
EXTENDS Integers, Sequences, FiniteSets

CONSTANTS Uploads,      \* the uploads of one command
          PartSize,     \* ObjectUploadSettings::part_size
          MaxParts,     \* ObjectUploadSettings::max_in_flight_parts
          MaxChunk,     \* the longest chunk a producer sends
          MaxBytes,     \* MaxBytes[u]: bound on the bytes sent to u
          NoObject      \* "nothing is visible at the target"

ASSUME UploadAssumption ==
  /\ PartSize \in Nat \ {0}
  /\ MaxParts \in Nat \ {0}
  /\ MaxChunk \in Nat \ {0}
  /\ MaxBytes \in [Uploads -> Nat]

ASSUME NoObjectAssumption == NoObject \notin Seq(Nat)

VARIABLES
  writer,    \* writer[u]: the producer's sender: "none", "open", "closed"
  caller,    \* caller[u]: where the owner of the upload is
  report,    \* report[u]: what complete or abort returned
  sent,      \* sent[u]: number of bytes the channel accepted
  chan,      \* chan[u]: chunks in the mpsc channel
  terminal,  \* terminal[u]: the oneshot: "unsent", "Complete", "Abort"
  cancelled, \* cancelled[u]: the CancellationToken
  pc,        \* pc[u]: where run_upload stands
  stage,     \* stage[u]: "select", "drain" or "join": who called the write
  buffer,    \* buffer[u]: UploadWorker::buffer
  bytes,     \* bytes[u]: what the current write has still to buffer
  partial,   \* partial[u]: MultipartState::buffer
  result,    \* result[u]: the task's result, set before its cleanup
  flying,    \* flying[u]: parts whose request is in flight
  landed,    \* landed[u]: part tasks done without error, not joined
  broken,    \* broken[u]: part tasks done with an error, not joined
  started,   \* started[u]: parts handed to put_part
  handed,    \* handed[u]: their bytes, in the order of the calls
  multipart, \* multipart[u]: the store's side of the multipart upload
  object,    \* object[u]: what the store shows at the target
  permits    \* free permits of the command-wide part semaphore

callerVars == <<writer, caller, report>>
linkVars   == <<sent, chan, terminal, cancelled>>
workVars   == <<pc, stage, buffer, bytes, partial, result>>
partVars   == <<flying, landed, broken, started, handed, permits>>
storeVars  == <<multipart, object>>
vars == <<callerVars, linkVars, workVars, partVars, storeVars>>

-----------------------------------------------------------------------------
(* Helpers *)

(* The bytes lo..hi of the stream. *)
Bytes(lo, hi) == [i \in 1..(hi - lo + 1) |-> lo + i - 1]

(* mpsc::channel(1) holds one chunk and one more for its only sender. *)
ChannelSlots == 2

(* The receiver lives until the task returns; Complete closes it. *)
ChannelOpen(u) == pc[u] # "done" /\ stage[u] = "select"

(* The JoinSet holds every part task that has not been joined. *)
TasksLen(u) == Cardinality(flying[u]) + landed[u] + broken[u]

(* Faulty variant: the token is never watched. *)
SeesNoCancel(u) == FALSE

(* start_part, used while completing, does not watch the token. *)
SeesCancel(u) == cancelled[u] /\ stage[u] # "join"

(* The part semaphore.  Faulty variant: no permit returns. *)
Acquire == permits > 0 /\ permits' = permits - 1
ReleaseNone == UNCHANGED permits
Release == permits' = permits + 1

(* The caller's side of the upload is still in its hands. *)
Holding(u) == caller[u] = "holding"

Goto(u, where) == pc' = [pc EXCEPT ![u] = where]

(* abort_multipart, to return r once the cleanup has succeeded: the part tasks
   are shut down first; without a multipart upload there is nothing to do. *)
Cleanup(u, r) ==
  /\ Goto(u, IF multipart[u] = "none" THEN "done" ELSE "shutdown")
  /\ result' = [result EXCEPT ![u] = r]

(* UploadWorker::complete and the start of MultipartState::complete: one put
   of the buffer, or the tail part, or the joining of the part tasks. *)
Complete(u) ==
  /\ stage' = [stage EXCEPT ![u] = "join"]
  /\ Goto(u, IF multipart[u] = "none" THEN "put"
             ELSE IF partial[u] # <<>> THEN "part" ELSE "joinall")

Init ==
  /\ writer = [u \in Uploads |-> "none"]
  /\ caller = [u \in Uploads |-> "holding"]
  /\ report = [u \in Uploads |-> "none"]
  /\ sent = [u \in Uploads |-> 0]
  /\ chan = [u \in Uploads |-> <<>>]
  /\ terminal = [u \in Uploads |-> "unsent"]
  /\ cancelled = [u \in Uploads |-> FALSE]
  /\ pc = [u \in Uploads |-> "idle"]
  /\ stage = [u \in Uploads |-> "select"]
  /\ buffer = [u \in Uploads |-> <<>>]
  /\ bytes = [u \in Uploads |-> <<>>]
  /\ partial = [u \in Uploads |-> <<>>]
  /\ result = [u \in Uploads |-> "none"]
  /\ flying = [u \in Uploads |-> {}]
  /\ landed = [u \in Uploads |-> 0]
  /\ broken = [u \in Uploads |-> 0]
  /\ started = [u \in Uploads |-> 0]
  /\ handed = [u \in Uploads |-> <<>>]
  /\ multipart = [u \in Uploads |-> "none"]
  /\ object = [u \in Uploads |-> NoObject]
  /\ permits = MaxParts

-----------------------------------------------------------------------------
(* The caller *)

(* write, blocking_writer or writer: the first one starts the worker. *)
StartWorker(u) ==
  /\ Holding(u) /\ writer[u] = "none"
  /\ writer' = [writer EXCEPT ![u] = "open"]
  /\ Goto(u, "select")
  /\ UNCHANGED <<caller, report, linkVars, stage, buffer, bytes, partial,
                 result, partVars, storeVars>>

(* The producer's send of one chunk returns: the channel had room. *)
Send(u) ==
  /\ writer[u] = "open" /\ ChannelOpen(u)
  /\ Len(chan[u]) < ChannelSlots
  /\ \E n \in 1..MaxChunk :
       /\ sent[u] + n <= MaxBytes[u]
       /\ chan' = [chan EXCEPT ![u] = Append(@, Bytes(sent[u] + 1, sent[u] + n))]
       /\ sent' = [sent EXCEPT ![u] = @ + n]
  /\ UNCHANGED <<callerVars, terminal, cancelled, workVars, partVars, storeVars>>

(* The producer drops its writer. *)
CloseWriter(u) ==
  /\ writer[u] = "open"
  /\ writer' = [writer EXCEPT ![u] = "closed"]
  /\ UNCHANGED <<caller, report, linkVars, workVars, partVars, storeVars>>

(* complete and abort drop the direct writer of ObjectUpload::write; a writer
   that was taken by a codec stays with it. *)
DropDirectWriter(u) ==
  \/ UNCHANGED writer
  \/ /\ writer[u] = "open"
     /\ writer' = [writer EXCEPT ![u] = "closed"]

(* The terminal action reaches the worker only while the task lives. *)
SendTerminal(u, action) ==
  terminal' = IF pc[u] = "done" THEN terminal
              ELSE [terminal EXCEPT ![u] = action]

(* ObjectUpload::complete: with no worker task the caller itself runs
   UploadWorker::complete. *)
CallComplete(u) ==
  /\ Holding(u)
  /\ caller' = [caller EXCEPT ![u] = "completing"]
  /\ IF writer[u] = "none"
     THEN Complete(u) /\ UNCHANGED <<writer, terminal>>
     ELSE /\ DropDirectWriter(u) /\ SendTerminal(u, "Complete")
          /\ UNCHANGED <<pc, stage>>
  /\ UNCHANGED <<report, sent, chan, cancelled, buffer, bytes, partial, result,
                 partVars, storeVars>>

(* ObjectUpload::abort and drop without a task: nothing was created. *)
AbandonIdle(u, to, r) ==
  /\ Holding(u) /\ writer[u] = "none"
  /\ caller' = [caller EXCEPT ![u] = to]
  /\ report' = [report EXCEPT ![u] = r]
  /\ Goto(u, "done")
  /\ result' = [result EXCEPT ![u] = "aborted"]
  /\ UNCHANGED <<writer, linkVars, stage, buffer, bytes, partial, partVars,
                 storeVars>>

AbortIdle(u) == AbandonIdle(u, "returned", "ok")
DropIdle(u)  == AbandonIdle(u, "gone", "none")

(* ActiveUpload::abort and request_abort set the token first ... *)
Cancel(u, to) ==
  /\ Holding(u) /\ writer[u] # "none"
  /\ caller' = [caller EXCEPT ![u] = to]
  /\ cancelled' = [cancelled EXCEPT ![u] = TRUE]
  /\ DropDirectWriter(u)
  /\ UNCHANGED <<report, sent, chan, terminal, workVars, partVars, storeVars>>

CallAbort(u) == Cancel(u, "cancelling")
Drop(u)      == Cancel(u, "dropping")

(* ... and then send the action; the worker runs between the two. *)
SendAbort(u) ==
  /\ caller[u] \in {"cancelling", "dropping"}
  /\ SendTerminal(u, "Abort")
  /\ caller' = [caller EXCEPT
                  ![u] = IF @ = "cancelling" THEN "aborting" ELSE "gone"]
  /\ UNCHANGED <<writer, report, sent, chan, cancelled, workVars, partVars,
                 storeVars>>

(* ActiveUpload::join has returned: complete and abort report. *)
Return(u) ==
  /\ caller[u] \in {"completing", "aborting"} /\ pc[u] = "done"
  /\ report' = [report EXCEPT ![u] =
       CASE result[u] = "err" -> "err"
         [] caller[u] = "completing" ->
              IF result[u] = "ok" THEN "ok" ELSE "err"
         [] OTHER -> IF terminal[u] = "unsent" THEN "err" ELSE "ok"]
  /\ caller' = [caller EXCEPT ![u] = "returned"]
  /\ UNCHANGED <<writer, linkVars, workVars, partVars, storeVars>>

(* The future of complete or abort is dropped.  A spawned task goes on; work
   that the caller ran itself stops where it is. *)
Forget(u) ==
  /\ caller[u] \in {"completing", "aborting"}
  /\ caller' = [caller EXCEPT ![u] = "gone"]
  /\ IF writer[u] = "none" /\ pc[u] # "done"
     THEN Goto(u, "done") /\ result' = [result EXCEPT ![u] = "err"]
     ELSE UNCHANGED <<pc, result>>
  /\ UNCHANGED <<writer, report, linkVars, stage, buffer, bytes, partial,
                 partVars, storeVars>>

-----------------------------------------------------------------------------
(* run_upload: the select loop, biased towards the terminal action *)

(* UploadWorker::write of the chunk at the head of the channel, up to its
   first await; s is the loop it came from. *)
Write(u, s) ==
  LET chunk == Head(chan[u]) IN
  /\ chan[u] # <<>>
  /\ chan' = [chan EXCEPT ![u] = Tail(@)]
  /\ IF cancelled[u]
     THEN Cleanup(u, "aborted") /\ UNCHANGED <<buffer, bytes>>
     ELSE /\ UNCHANGED result
          /\ IF multipart[u] = "none"
                  /\ Len(buffer[u]) + Len(chunk) < PartSize
             THEN /\ buffer' = [buffer EXCEPT ![u] = @ \o chunk]
                  /\ Goto(u, s) /\ UNCHANGED bytes
             ELSE /\ bytes' = [bytes EXCEPT ![u] = chunk]
                  /\ Goto(u, IF multipart[u] = "none" THEN "create" ELSE "fill")
                  /\ UNCHANGED buffer

SelectTerminal(u) ==
  /\ pc[u] = "select" /\ terminal[u] # "unsent"
  /\ IF terminal[u] = "Abort"
     THEN Cleanup(u, "aborted") /\ UNCHANGED stage
     ELSE /\ Goto(u, "drain") /\ UNCHANGED result
          /\ stage' = [stage EXCEPT ![u] = "drain"]
  /\ UNCHANGED <<callerVars, linkVars, buffer, bytes, partial, partVars,
                 storeVars>>

SelectChunk(u) ==
  /\ pc[u] = "select" /\ terminal[u] = "unsent"
  /\ Write(u, "select")
  /\ UNCHANGED <<callerVars, sent, terminal, cancelled, stage, partial,
                 partVars, storeVars>>

(* The channel has ended: only the terminal action is awaited.
   Faulty variant: the end of the channel is taken for a completion. *)
CompleteAtEnd(u) == Complete(u)
AwaitAtEnd(u) == Goto(u, "await") /\ UNCHANGED stage

SelectEnd(u) ==
  /\ pc[u] = "select" /\ terminal[u] = "unsent"
  /\ writer[u] = "closed" /\ chan[u] = <<>>
  /\ AwaitAtEnd(u)
  /\ UNCHANGED <<callerVars, linkVars, buffer, bytes, partial, result,
                 partVars, storeVars>>

AwaitTerminal(u) ==
  /\ pc[u] = "await" /\ terminal[u] # "unsent"
  /\ IF terminal[u] = "Abort"
     THEN Cleanup(u, "aborted") /\ UNCHANGED stage
     ELSE Complete(u) /\ UNCHANGED result
  /\ UNCHANGED <<callerVars, linkVars, buffer, bytes, partial, partVars,
                 storeVars>>

(* Complete: the closed channel is drained before the object is completed. *)
DrainChunk(u) ==
  /\ pc[u] = "drain"
  /\ Write(u, "drain")
  /\ UNCHANGED <<callerVars, sent, terminal, cancelled, stage, partial,
                 partVars, storeVars>>

(* The chunks left in the channel are written first. *)
Drained(u) == chan[u] = <<>>

DrainEnd(u) ==
  /\ pc[u] = "drain" /\ Drained(u)
  /\ Complete(u)
  /\ UNCHANGED <<callerVars, linkVars, buffer, bytes, partial, result, partVars,
                 storeVars>>

-----------------------------------------------------------------------------
(* UploadWorker::write and MultipartState::write *)

(* put_multipart cannot be cancelled; without a handle there is no cleanup. *)
CreateMultipart(u) ==
  /\ pc[u] = "create"
  /\ \/ /\ multipart' = [multipart EXCEPT ![u] = "open"]
        /\ IF cancelled[u]
           THEN /\ Goto(u, "shutdown")
                /\ result' = [result EXCEPT ![u] = "aborted"]
                /\ UNCHANGED <<buffer, bytes>>
           ELSE /\ Goto(u, "fill") /\ UNCHANGED result
                /\ bytes' = [bytes EXCEPT ![u] = buffer[u] \o @]
                /\ buffer' = [buffer EXCEPT ![u] = <<>>]
     \/ /\ Goto(u, "done")
        /\ result' = [result EXCEPT ![u] = "err"]
        /\ UNCHANGED <<multipart, buffer, bytes>>
  /\ UNCHANGED <<callerVars, linkVars, stage, partial, partVars, object>>

(* What fits of the bytes, and whether that fills the partial buffer.  Faulty
   variant: all bytes are taken. *)
FitsAll(u) == Len(bytes[u])
Fits(u) == LET room == PartSize - Len(partial[u])
           IN  IF Len(bytes[u]) < room THEN Len(bytes[u]) ELSE room
(* Faulty variant: the end of a chunk ends the part. *)
FillsAny(u) == Fits(u) > 0
Fills(u) == Fits(u) = PartSize - Len(partial[u])

(* One round of the loop: move what fits, start a part when it is full. *)
Fill(u) ==
  /\ pc[u] = "fill"
  /\ IF cancelled[u]
     THEN Cleanup(u, "aborted") /\ UNCHANGED <<bytes, partial>>
     ELSE /\ partial' = [partial EXCEPT ![u] = @ \o SubSeq(bytes[u], 1, Fits(u))]
          /\ bytes' = [bytes EXCEPT ![u] = SubSeq(@, Fits(u) + 1, Len(@))]
          /\ Goto(u, IF Fills(u) THEN "part" ELSE stage[u])
          /\ UNCHANGED result
  /\ UNCHANGED <<callerVars, linkVars, stage, buffer, partVars, storeVars>>

(* start_part_or_cancel stops waiting, for a task or a permit, on the token. *)
StopWaiting(u) ==
  /\ pc[u] = "part" /\ SeesCancel(u)
  /\ Cleanup(u, "aborted")
  /\ UNCHANGED <<callerVars, linkVars, stage, buffer, bytes, partial, partVars,
                 storeVars>>

(* join_one takes any finished task: one without error ... *)
JoinOk(u) ==
  /\ landed[u] > 0
  /\ landed' = [landed EXCEPT ![u] = @ - 1]
  /\ UNCHANGED <<pc, result, broken>>

(* ... or one with an error, which ends the write or the completion. *)
JoinErr(u) ==
  /\ broken[u] > 0
  /\ broken' = [broken EXCEPT ![u] = @ - 1]
  /\ Cleanup(u, "err")
  /\ UNCHANGED landed

JoinOne(u) ==
  /\ \/ pc[u] = "part" /\ ~SeesCancel(u) /\ TasksLen(u) >= MaxParts
     \/ pc[u] = "joinall"
  /\ JoinOk(u) \/ JoinErr(u)
  /\ UNCHANGED <<callerVars, linkVars, stage, buffer, bytes, partial, flying,
                 started, handed, permits, storeVars>>

(* start_part, start_part_or_cancel: tasks.len() is below the limit and a
   permit is acquired, ... *)
AcquirePermit(u) ==
  /\ pc[u] = "part" /\ ~SeesCancel(u)
  /\ TasksLen(u) < MaxParts
  /\ Acquire
  /\ Goto(u, "granted")
  /\ UNCHANGED <<callerVars, linkVars, stage, buffer, bytes, partial, result,
                 flying, landed, broken, started, handed, storeVars>>

(* ... the token is looked at for the last time, which drops the permit if it
   has been set while the permit was being acquired, ... *)
WatchToken(u) ==
  /\ pc[u] = "granted"
  /\ IF SeesCancel(u)
     THEN Release /\ Cleanup(u, "aborted")
     ELSE Goto(u, "spawn") /\ UNCHANGED <<permits, result>>
  /\ UNCHANGED <<callerVars, linkVars, stage, buffer, bytes, partial, flying,
                 landed, broken, started, handed, storeVars>>

(* ... and spawn_part hands the partial buffer to put_part, although another
   thread may have set the token in between. *)
SpawnPart(u) ==
  /\ pc[u] = "spawn"
  /\ started' = [started EXCEPT ![u] = @ + 1]
  /\ flying' = [flying EXCEPT ![u] = @ \cup {started[u] + 1}]
  /\ handed' = [handed EXCEPT ![u] = @ \o partial[u]]
  /\ partial' = [partial EXCEPT ![u] = <<>>]
  /\ Goto(u, IF stage[u] = "join" THEN "joinall"
             ELSE IF bytes[u] = <<>> THEN stage[u] ELSE "fill")
  /\ UNCHANGED <<callerVars, linkVars, stage, buffer, bytes, result, landed,
                 broken, permits, storeVars>>

-----------------------------------------------------------------------------
(* Part tasks: the permit is held until the request is over *)

PartLands(u, p) ==
  /\ p \in flying[u]
  /\ flying' = [flying EXCEPT ![u] = @ \ {p}]
  /\ Release
  /\ \/ landed' = [landed EXCEPT ![u] = @ + 1] /\ UNCHANGED broken
     \/ broken' = [broken EXCEPT ![u] = @ + 1] /\ UNCHANGED landed
  /\ UNCHANGED <<callerVars, linkVars, workVars, started, handed, storeVars>>

(* JoinSet::shutdown aborts the tasks; each releases its permit as it goes. *)
PartKilled(u, p) ==
  /\ p \in flying[u] /\ pc[u] = "shutdown"
  /\ flying' = [flying EXCEPT ![u] = @ \ {p}]
  /\ Release
  /\ UNCHANGED <<callerVars, linkVars, workVars, landed, broken, started,
                 handed, storeVars>>

-----------------------------------------------------------------------------
(* UploadWorker::complete and UploadWorker::abort *)

(* Every task is joined: MultipartUpload::complete is called. *)
AllJoined(u) ==
  /\ pc[u] = "joinall" /\ TasksLen(u) = 0
  /\ Goto(u, "finish")
  /\ UNCHANGED <<callerVars, linkVars, stage, buffer, bytes, partial, result,
                 partVars, storeVars>>

(* The store applies the put of the buffer or the completion of the parts. *)
StoreApplies(u) ==
  /\ object[u] = NoObject
  /\ \/ /\ pc[u] = "put"
        /\ object' = [object EXCEPT ![u] = buffer[u]]
        /\ UNCHANGED multipart
     \/ /\ pc[u] = "finish" /\ multipart[u] = "open"
        /\ object' = [object EXCEPT ![u] = handed[u]]
        /\ multipart' = [multipart EXCEPT ![u] = "completed"]
  /\ UNCHANGED <<callerVars, linkVars, workVars, partVars>>

StoreAnswersOk(u) ==
  /\ pc[u] \in {"put", "finish"} /\ object[u] # NoObject
  /\ Goto(u, "done")
  /\ result' = [result EXCEPT ![u] = "ok"]
  /\ UNCHANGED <<callerVars, linkVars, stage, buffer, bytes, partial, partVars,
                 storeVars>>

(* An error may follow an effect; a failed completion is cleaned up. *)
StoreAnswersErr(u) ==
  /\ \/ /\ pc[u] = "put"
        /\ Goto(u, "done") /\ result' = [result EXCEPT ![u] = "err"]
     \/ pc[u] = "finish" /\ Cleanup(u, "err")
  /\ UNCHANGED <<callerVars, linkVars, stage, buffer, bytes, partial, partVars,
                 storeVars>>

(* JoinSet::shutdown awaits the tasks.  Faulty variants: it only tells them,
   or it waits for the ended tasks to be joined by somebody. *)
TasksTold(u) == TRUE
TasksJoined(u) == TasksLen(u) = 0
TasksGone(u) == flying[u] = {}

(* abort_multipart: shutdown has returned, MultipartUpload::abort is called. *)
ShutdownEnd(u) ==
  /\ pc[u] = "shutdown" /\ TasksGone(u)
  /\ landed' = [landed EXCEPT ![u] = 0]
  /\ broken' = [broken EXCEPT ![u] = 0]
  /\ Goto(u, "discard")
  /\ UNCHANGED <<callerVars, linkVars, stage, buffer, bytes, partial, result,
                 flying, started, handed, permits, storeVars>>

StoreDiscards(u) ==
  /\ pc[u] = "discard" /\ multipart[u] = "open"
  /\ multipart' = [multipart EXCEPT ![u] = "aborted"]
  /\ UNCHANGED <<callerVars, linkVars, workVars, partVars, object>>

(* MultipartUpload::abort returned; its error becomes the task's.
   Faulty variant: the error is swallowed. *)
SwallowCleanup(u) == UNCHANGED result
ReportCleanup(u) ==
  \/ multipart[u] = "aborted" /\ UNCHANGED result
  \/ result' = [result EXCEPT ![u] = "err"]

AbortAnswered(u) ==
  /\ pc[u] = "discard"
  /\ Goto(u, "done")
  /\ ReportCleanup(u)
  /\ UNCHANGED <<callerVars, linkVars, stage, buffer, bytes, partial, partVars,
                 storeVars>>

-----------------------------------------------------------------------------
(* Next-state relation and specification *)

CallerStep(u) ==
  \/ StartWorker(u) \/ Send(u) \/ CloseWriter(u) \/ CallComplete(u)
  \/ AbortIdle(u) \/ DropIdle(u) \/ CallAbort(u) \/ Drop(u) \/ SendAbort(u)
  \/ Return(u) \/ Forget(u)

WorkerStep(u) ==
  \/ SelectTerminal(u) \/ SelectChunk(u) \/ SelectEnd(u) \/ AwaitTerminal(u)
  \/ DrainChunk(u) \/ DrainEnd(u) \/ Fill(u) \/ StopWaiting(u) \/ JoinOne(u)
  \/ AcquirePermit(u) \/ WatchToken(u) \/ SpawnPart(u) \/ AllJoined(u)
  \/ ShutdownEnd(u)

StoreStep(u) ==
  \/ CreateMultipart(u) \/ StoreApplies(u) \/ StoreAnswersOk(u)
  \/ StoreAnswersErr(u) \/ StoreDiscards(u) \/ AbortAnswered(u)
  \/ \E p \in flying[u] : PartLands(u, p) \/ PartKilled(u, p)

Next == \E u \in Uploads : CallerStep(u) \/ WorkerStep(u) \/ StoreStep(u)

Spec == Init /\ [][Next]_vars

(* The runtime polls every task that can run, the retrying store answers every
   request, and nothing sits between setting the token and sending Abort.
   When the producer sends, closes, completes, aborts or drops is left open. *)
Fairness ==
  \A u \in Uploads :
    /\ WF_vars(WorkerStep(u))
    /\ WF_vars(StoreStep(u))
    /\ WF_vars(SendAbort(u))
    /\ WF_vars(Return(u))

FairSpec == Spec /\ Fairness

-----------------------------------------------------------------------------
(* Properties *)

Locations == {"idle", "select", "await", "drain", "create", "fill", "part",
              "granted", "spawn", "put", "joinall", "finish", "shutdown",
              "discard", "done"}
Results == {"none", "ok", "aborted", "err"}

(* The types of the variables. *)
TypeOK ==
  /\ writer \in [Uploads -> {"none", "open", "closed"}]
  /\ caller \in [Uploads -> {"holding", "completing", "cancelling", "dropping",
                             "aborting", "gone", "returned"}]
  /\ report \in [Uploads -> {"none", "ok", "err"}]
  /\ sent \in [Uploads -> Nat]
  /\ chan \in [Uploads -> Seq(Seq(Nat))]
  /\ terminal \in [Uploads -> {"unsent", "Complete", "Abort"}]
  /\ cancelled \in [Uploads -> BOOLEAN]
  /\ pc \in [Uploads -> Locations]
  /\ stage \in [Uploads -> {"select", "drain", "join"}]
  /\ buffer \in [Uploads -> Seq(Nat)]
  /\ bytes \in [Uploads -> Seq(Nat)]
  /\ partial \in [Uploads -> Seq(Nat)]
  /\ result \in [Uploads -> Results]
  /\ flying \in [Uploads -> SUBSET Nat]
  /\ landed \in [Uploads -> Nat]
  /\ broken \in [Uploads -> Nat]
  /\ started \in [Uploads -> Nat]
  /\ handed \in [Uploads -> Seq(Nat)]
  /\ multipart \in [Uploads -> {"none", "open", "completed", "aborted"}]
  /\ object \in [Uploads -> Seq(Nat) \cup {NoObject}]
  /\ permits \in Nat

(* The bytes an upload holds outside its part requests are bounded, however
   long its stream and however slow the store: the channel by its two slots,
   the adaptive buffer and the partial part by the part size. *)
MemoryBound == \A u \in Uploads :
  /\ Len(chan[u]) <= ChannelSlots
  /\ Len(buffer[u]) < PartSize
  /\ Len(partial[u]) <= PartSize

(* Every part has exactly the part size and no part is empty, but the tail
   that completing hands over may be shorter: chunks below, at and above what
   is left of a part are cut at the same places. *)
PartsAreFull == \A u \in Uploads :
  LET whole == started[u] * PartSize IN
  IF stage[u] = "join" /\ started[u] > 0
  THEN Len(handed[u]) \in (whole - PartSize + 1)..whole
  ELSE Len(handed[u]) = whole

(* The part requests in flight, and the workers that hold a permit for one. *)
InFlight == UNION {{u} \X flying[u] : u \in Uploads}
Starting == {u \in Uploads : pc[u] \in {"granted", "spawn"}}

(* The command-wide limit: every part request in flight, of any upload, holds
   a permit, and a permit is neither lost nor created, whichever way the part
   ends (finished, failed, shut down, never started because the token was set
   while its permit was acquired) and whatever happens to its upload. *)
PermitsConserved ==
  /\ permits + Cardinality(InFlight) + Cardinality(Starting) = MaxParts
  /\ \A u \in Uploads : TasksLen(u) <= MaxParts

(* The multipart upload is completed or aborted only when none of its part
   requests is in flight, and the task never ends with one. *)
QuietStore == \A u \in Uploads :
  pc[u] \in {"finish", "discard", "done"} => flying[u] = {}

(* complete returns Ok only for a durable object, abort only when nothing is
   visible and no multipart upload is left behind; a multipart upload that is
   left behind is always in the task's error. *)
ReportMatchesStore == \A u \in Uploads :
  /\ result[u] = "ok" => object[u] # NoObject /\ multipart[u] # "open"
  /\ report[u] = "ok" /\ result[u] # "ok" => object[u] = NoObject
  /\ pc[u] = "done" /\ multipart[u] = "open" => result[u] = "err"

(* Once the token is set, no permit is acquired, and no part request starts
   but that of a worker that has already looked at the token for the last
   time; a worker that has acquired a permit and not yet looked gives the
   permit back. *)
NoPartAfterCancel ==
  [][\A u \in Uploads : cancelled[u] /\ pc[u] # "spawn" =>
       /\ pc'[u] # "spawn" /\ started'[u] = started[u]
       /\ pc'[u] = "granted" => pc[u] = "granted"]_vars

(* Every upload that is completed, aborted or dropped settles, and stays so,
   even when the other uploads of the command, with which it shares the permits
   for its parts and for which it may have to wait while it holds some, keep
   their writers open for ever. *)
Settles == <>[](\A u \in Uploads : ~Holding(u) => pc[u] = "done")

(* "Cancels in-flight work and awaits multipart cleanup": abort fails only
   when the task failed. *)
AbortFailsOnlyWithTask == \A u \in Uploads :
  cancelled[u] /\ report[u] = "err" => result[u] = "err"

(* The upload implements the atomic object its caller is promised. *)
Decision(u) ==
  IF cancelled[u] \/ (caller[u] \in {"returned", "gone"} /\ result[u] = "aborted")
  THEN "abort"
  ELSE IF caller[u] = "holding" THEN "open" ELSE "complete"

Atomic == INSTANCE AtomicObject WITH
  accepted <- sent,
  decision <- [u \in Uploads |-> Decision(u)],
  outcome <- [u \in Uploads |-> IF pc[u] = "done" THEN result[u] ELSE "none"]

ImplementsAtomicObject == Atomic!Spec
=============================================================================

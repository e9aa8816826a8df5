------------------------------ MODULE ReadRows ------------------------------
(***************************************************************************)
(* The partitions of one BigQuery scan (silk-chiffon-input-bigquery,       *)
(* src/read_stream.rs with src/retry/): each reads its server stream on    *)
(* demand, admits every response to the shared memory pool, decodes it on  *)
(* a blocking thread under a command-wide decode permit, and advances its  *)
(* accepted offset before the batch is handed out.  A broken, failed or    *)
(* silent RPC is reopened at the accepted offset, after a jittered delay   *)
(* that fits the retry budget; every other failure is terminal.            *)
(*                                                                         *)
(* The server, the clock and the consumer are external.  The server sends  *)
(* the rows of a stream in order from the offset it was asked for, and     *)
(* ends an RPC normally only after the last row.  Time is the monotonic    *)
(* clock, so the checks against a clock that goes back are left out, as    *)
(* are the u32 attempt counter and the i64 offset at their limits.         *)
(***************************************************************************)
EXTENDS RowPayload, RetryPolicy, FiniteSets

CONSTANTS Streams,     \* the partitions
          Rows,        \* Rows[s]: number of rows of the server's stream s
          Replies,     \* Replies[c]: the responses of a server asked for codec c
          Failures,    \* the failures of an RPC
          Decoders,    \* CommandResources::decode_permits
          PoolSize,    \* DataFusion's memory pool
          Idle,        \* read_idle_timeout, also the attempt timeout
          Window,      \* read_retry_window
          Session,     \* the session's conservative deadline
          Margin,      \* SESSION_EXPIRY_SAFETY_MARGIN
          Initial, Maximum, \* BackoffPolicy: initial and maximum delay
          Num, Den,    \* BackoffPolicy: the multiplier
          Sustained,   \* SUSTAINED_ACCEPTED_PROGRESS
          MaxFailures, \* bound on the failure streak the server causes
          MaxTime      \* bound on the clock

ASSUME ReadRowsAssumption ==
  /\ IsFiniteSet(Streams) /\ Rows \in [Streams -> Nat]
  /\ Decoders \in Nat \ {0}
  /\ PoolSize \in Nat
  /\ {Idle, Window, Initial, Den, Sustained} \subseteq Nat \ {0}
  /\ {Session, Margin, Maximum, Num, MaxFailures, MaxTime} \subseteq Nat
  /\ Initial <= Maximum /\ Den <= Num

(* The server may compress the buffers only if it was asked to.  LZ4 frames may
   be longer than they declare, but Arrow decodes no more of another codec than
   the buffer declares. *)
ASSUME RepliesAssumption ==
  \A c \in DOMAIN Replies : \A r \in Replies[c] :
    /\ r # Absent
    /\ r.rows # Absent =>
         LET m == r.rows.message
         IN /\ r.rows.bytes \in Nat
            /\ r.declared \in Int \cup {Absent}
            /\ m # Avro =>
                 /\ m.rows \in Nat
                 /\ c.wire = "none" => m.codec = "none"
                 /\ m.codec # "none" => {BuffersBytes(m), DecodedBytes(m)} \subseteq Nat
                 /\ m.codec \notin {"none", "lz4"} => DecodedBytes(m) <= BuffersBytes(m)

NoRpc == -1      \* current = None
NoProgress == -1 \* accepted_progress_started = None

VARIABLES
  time,      \* the monotonic clock
  pc,        \* pc[s]: where next_batch stands, or how the stream ended
  start,     \* start[s]: when the partition was executed
  current,   \* current[s]: rows the server has sent or skipped on this RPC
  codec,     \* the compressions the command asks for
  response,  \* response[s]: the response in hand, or Absent
  until,     \* until[s]: when the pending timeout or sleep is over
  offset,    \* offset[s]: accepted_offset
  delivered, \* delivered[s]: the rows handed to the consumer
  streak,    \* streak[s]: failure_streak
  progress,  \* progress[s]: accepted_progress_started
  reserved,  \* reserved[s]: the partition's memory reservation
  permits,   \* free decode permits
  orphans    \* blocking decodes whose partition was dropped

waitVars   == <<start, current, until>>
rowVars    == <<codec, response, offset, delivered>>
retryVars  == <<streak, progress>>
sharedVars == <<reserved, permits, orphans>>
vars == <<time, pc, waitVars, rowVars, retryVars, sharedVars>>

-----------------------------------------------------------------------------
(* Helpers *)

Least(a, b) == IF a < b THEN a ELSE b
Most(a, b) == IF a < b THEN b ELSE a

(* RetryBudget::effective_deadline and is_session_limited. *)
SessionDeadline == Session - Margin
Deadline(s) == Least(start[s] + Window, SessionDeadline)
SessionLimited(s) == SessionDeadline <= start[s] + Window

(* BackoffPolicy::delay_cap. *)
DelayCap[n \in Nat] ==
  IF n <= 1 THEN Initial ELSE Least(Maximum, (DelayCap[n - 1] * Num) \div Den)

(* The sizes that are admitted: the serialized response, then the bound on
   what it needs to be decoded. *)
Admitted(s) == IF response[s] = Absent THEN 0 ELSE Serialized(response[s])
Bound(s) == IF response[s] = Absent THEN 0 ELSE UpperBound(response[s])
RowsIn(r) == IF r.rows = Absent THEN 0 ELSE r.rows.message.rows

Live == {"idle", "open", "message", "permit", "prepare", "decode", "sleep"}
Decoding == {"prepare", "decode"}

(* The sum of all reservations: each byte of each is counted. *)
PoolUsed == Cardinality(UNION {{s} \X (1..reserved[s]) : s \in Streams})

(* MemoryReservation::try_resize to size bytes. *)
Fits(s, size) == PoolUsed - reserved[s] + size <= PoolSize
Resize(s, size) == reserved' = [reserved EXCEPT ![s] = size]

(* The permit is dropped with the scope of decode.  Faulty variant: it is
   not. *)
LeakPermit(s) == UNCHANGED permits
DropPermit(s) ==
  permits' = IF pc[s] \in Decoding THEN permits + 1 ELSE permits

Goto(s, where) == pc' = [pc EXCEPT ![s] = where]

(* The stream returns an error: its state is dropped. *)
Fail(s) == Goto(s, "failed") /\ Resize(s, 0)

(* wait_timeout, then the timed wait.  Past the deadline both callers fail. *)
Await(s, where, held) ==
  /\ reserved' = [reserved EXCEPT ![s] = IF time > Deadline(s) THEN 0 ELSE held]
  /\ IF time > Deadline(s)
     THEN Goto(s, "failed") /\ UNCHANGED until
     ELSE /\ Goto(s, where)
          /\ until' = [until EXCEPT ![s] = Least(Deadline(s), time + Idle)]

(* RetryBudget::plan_retry: the time left for a delay. *)
Available(s) == Deadline(s) - Idle - time

(* RetryDecision::delay: a server's minimum is kept or refused, a backoff is
   cut. *)
Delays(s, server, n) ==
  IF server = NoDelay THEN {Least(d, Available(s)) : d \in 0..DelayCap[n]}
  ELSE {Most(server, d) : d \in 0..DelayCap[n]}

(* retry_or_fail for a failure that may be retried. *)
Retry(s, server) ==
  LET sustained == progress[s] # NoProgress /\ time - progress[s] >= Sustained
      kept == IF sustained THEN 0 ELSE streak[s]
  IN  IF time >= Deadline(s) \/ Available(s) < 0
      THEN Fail(s) /\ UNCHANGED <<current, until, retryVars>>
      ELSE \E d \in Delays(s, server, kept + 1) :
             IF d > Available(s)
             THEN Fail(s) /\ UNCHANGED <<current, until, retryVars>>
             ELSE /\ Goto(s, "sleep")
                  /\ until' = [until EXCEPT ![s] = time + d]
                  /\ current' = [current EXCEPT ![s] = NoRpc]
                  /\ streak' = [streak EXCEPT ![s] = kept + 1]
                  /\ progress' = [progress EXCEPT
                                    ![s] = IF kept = 0 THEN NoProgress ELSE @]
                  /\ UNCHANGED reserved

Init ==
  /\ time = 0
  /\ pc = [s \in Streams |-> "planned"]
  /\ start = [s \in Streams |-> 0]
  /\ current = [s \in Streams |-> NoRpc]
  /\ codec \in {c \in DOMAIN Replies : Askable(c)}
  /\ response = [s \in Streams |-> Absent]
  /\ until = [s \in Streams |-> 0]
  /\ offset = [s \in Streams |-> 0]
  /\ delivered = [s \in Streams |-> <<>>]
  /\ streak = [s \in Streams |-> 0]
  /\ progress = [s \in Streams |-> NoProgress]
  /\ reserved = [s \in Streams |-> 0]
  /\ permits = Decoders
  /\ orphans = 0

-----------------------------------------------------------------------------
(* The consumer *)

(* read_rows_stream: the retry budget starts with the partition. *)
Execute(s) ==
  /\ pc[s] = "planned"
  /\ start' = [start EXCEPT ![s] = time]
  /\ Goto(s, IF SessionDeadline < time THEN "failed" ELSE "idle")
  /\ UNCHANGED <<time, current, until, rowVars, retryVars, sharedVars>>

(* The memory of the last batch is held until the next poll. *)
Poll(s) ==
  /\ pc[s] = "idle"
  /\ response' = [response EXCEPT ![s] = Absent]
  /\ Await(s, IF current[s] = NoRpc THEN "open" ELSE "message", 0)
  /\ UNCHANGED <<time, start, current, codec, offset, delivered, retryVars, permits,
                 orphans>>

(* The consumer goes away.  A blocking decode cannot be stopped: it runs on,
   while its permit and its memory are given back. *)
Drop(s) ==
  /\ pc[s] \in Live
  /\ Goto(s, "dropped")
  /\ Resize(s, 0)
  /\ DropPermit(s)
  /\ orphans' = IF pc[s] \in Decoding THEN orphans + 1 ELSE orphans
  /\ response' = [response EXCEPT ![s] = Absent]
  /\ UNCHANGED <<time, waitVars, codec, offset, delivered, retryVars>>

OrphanEnds ==
  /\ orphans > 0
  /\ orphans' = orphans - 1
  /\ UNCHANGED <<time, pc, waitVars, rowVars, retryVars, reserved, permits>>

-----------------------------------------------------------------------------
(* The RPC *)

(* open sends the accepted offset.  Faulty variant: it starts over. *)
RequestStart(s) == 0
RequestOffset(s) == offset[s]

OpenOk(s) ==
  /\ pc[s] = "open"
  /\ current' = [current EXCEPT ![s] = RequestOffset(s)]
  /\ Await(s, "message", reserved[s])
  /\ UNCHANGED <<time, start, rowVars, retryVars, permits, orphans>>

(* A status or a transport failure that classify_read_rows retries. *)
RpcFails(s) ==
  /\ pc[s] \in {"open", "message"}
  /\ streak[s] < MaxFailures
  /\ \E f \in Failures : Retried(f) /\ Retry(s, ServerDelay(f))
  /\ UNCHANGED <<time, start, rowVars, permits, orphans>>

(* A permanent failure: lost session, storage error, malformed details. *)
RpcRefused(s) ==
  /\ pc[s] \in {"open", "message"}
  /\ \E f \in Failures : ~Retried(f)
  /\ Fail(s)
  /\ UNCHANGED <<time, waitVars, rowVars, retryVars, permits, orphans>>

(* The timeout fires: at the session's deadline that is the end of it. *)
SilenceRetries(s) ==
  IF SessionLimited(s) /\ until[s] = Deadline(s)
  THEN Fail(s) /\ UNCHANGED <<current, until, retryVars>>
  ELSE Retry(s, NoDelay)

Timeout(s) ==
  /\ pc[s] \in {"open", "message"}
  /\ time >= until[s]
  /\ SilenceRetries(s)
  /\ UNCHANGED <<time, start, rowVars, permits, orphans>>

Wake(s) ==
  /\ pc[s] = "sleep" /\ time >= until[s]
  /\ Await(s, "open", reserved[s])
  /\ UNCHANGED <<time, start, current, rowVars, retryVars, permits, orphans>>

(* Ok(None): the server has ended the RPC. *)
StreamEnds(s) ==
  /\ pc[s] = "message" /\ current[s] = Rows[s]
  /\ Goto(s, "ended") /\ Resize(s, 0)
  /\ UNCHANGED <<time, waitVars, rowVars, retryVars, permits, orphans>>

(* A response, of the next rows or of none, is admitted to the pool. *)
Response(s) ==
  /\ pc[s] = "message"
  /\ \E r \in Replies[codec] :
       /\ current[s] + RowsIn(r) <= Rows[s]
       /\ current' = [current EXCEPT ![s] = @ + RowsIn(r)]
       /\ IF Fits(s, Serialized(r))
          THEN /\ Goto(s, "permit") /\ Resize(s, Serialized(r))
               /\ response' = [response EXCEPT ![s] = r]
          ELSE Fail(s) /\ UNCHANGED response
  /\ UNCHANGED <<time, start, until, codec, offset, delivered, retryVars, permits,
                 orphans>>

-----------------------------------------------------------------------------
(* Decoding *)

TakePermit == permits > 0 /\ permits' = permits - 1

AcquirePermit(s) ==
  /\ pc[s] = "permit"
  /\ TakePermit
  /\ Goto(s, "prepare")
  /\ UNCHANGED <<time, waitVars, rowVars, retryVars, reserved, orphans>>

(* The size of the decoded rows.  Faulty variant: the serialized size is
   kept. *)
KeepSerialized(s) == UNCHANGED reserved
AdmitDecoded(s) == Resize(s, Bound(s))

(* The envelope is read: a response without rows is passed over, one whose
   decoded rows do not fit the pool or that is invalid ends the stream. *)
Prepared(s) ==
  /\ pc[s] = "prepare"
  /\ LET r == response[s] IN
     \/ /\ EnvelopeValid(codec.response, r) /\ WithoutRows(r)
        /\ DropPermit(s)
        /\ Await(s, "message", 0)
        /\ response' = [response EXCEPT ![s] = Absent]
     \/ /\ EnvelopeValid(codec.response, r) /\ ~WithoutRows(r)
        /\ BoundKnown(r) /\ Fits(s, Bound(s))
        /\ Goto(s, "decode") /\ AdmitDecoded(s)
        /\ UNCHANGED <<until, permits, response>>
     \/ /\ Fail(s) /\ DropPermit(s) /\ UNCHANGED until
        /\ response' = [response EXCEPT ![s] = Absent]
  /\ UNCHANGED <<time, start, current, codec, offset, delivered, retryVars, orphans>>

(* accept: the offset moves with the rows that are handed out. *)
Accept(s) ==
  /\ pc[s] = "decode" /\ Decodes(response[s])
  /\ LET rows == response[s].count IN
       /\ offset' = [offset EXCEPT ![s] = @ + rows]
       /\ delivered' = [delivered EXCEPT
            ![s] = @ \o [i \in 1..rows |-> current[s] - rows + i]]
       /\ progress' = [progress EXCEPT
            ![s] = IF rows > 0 /\ @ = NoProgress THEN time ELSE @]
  /\ Goto(s, "idle") /\ DropPermit(s)
  /\ UNCHANGED <<time, waitVars, codec, response, streak, reserved, orphans>>

(* The rows do not decode, or do not match the schema, or the offset
   overflows. *)
Reject(s) ==
  /\ pc[s] = "decode"
  /\ Fail(s) /\ DropPermit(s)
  /\ response' = [response EXCEPT ![s] = Absent]
  /\ UNCHANGED <<time, waitVars, codec, offset, delivered, retryVars, orphans>>

Tick ==
  /\ time < MaxTime
  /\ time' = time + 1
  /\ UNCHANGED <<pc, waitVars, rowVars, retryVars, sharedVars>>

-----------------------------------------------------------------------------
(* Next-state relation and specification *)

Consumer(s) == Execute(s) \/ Poll(s) \/ Drop(s)

Server(s) == OpenOk(s) \/ RpcFails(s) \/ RpcRefused(s) \/ StreamEnds(s) \/ Response(s)

Decode(s) == Prepared(s) \/ Accept(s) \/ Reject(s)

Next ==
  \/ \E s \in Streams :
       Consumer(s) \/ Server(s) \/ Timeout(s) \/ Wake(s) \/ AcquirePermit(s) \/ Decode(s)
  \/ OrphanEnds \/ Tick

Spec == Init /\ [][Next]_vars

(* Time passes, timers fire, blocking decodes return and the permits are
   granted first come, first served.  Nothing is asked of the server. *)
Fairness ==
  /\ WF_vars(Tick)
  /\ \A s \in Streams :
       /\ WF_vars(Timeout(s)) /\ WF_vars(Wake(s)) /\ WF_vars(Decode(s))
       /\ SF_vars(AcquirePermit(s))

FairSpec == Spec /\ Fairness

-----------------------------------------------------------------------------
(* Properties *)

(* What the command's partitions share is accounted for, however a partition
   ends.  The pool covers the serialized response while it waits and is
   prepared, from the decode until the next poll whatever memory the decode
   takes however the response is compressed, nothing once the partition is over,
   and is never exceeded; no permit is lost or created. *)
ResourcesCovered ==
  /\ permits + Cardinality({s \in Streams : pc[s] \in Decoding}) = Decoders
  /\ PoolUsed <= PoolSize
  /\ \A s \in Streams :
       /\ pc[s] \in {"permit", "prepare"} => reserved[s] = Admitted(s)
       /\ pc[s] \in {"decode", "idle"} /\ response[s] # Absent =>
            reserved[s] >= Peak(response[s])
       /\ pc[s] \notin {"permit", "prepare", "decode", "idle"} => reserved[s] = 0

(* Every poll is answered, by a batch, the end or an error, although the
   server may stay silent, refuse, or send responses without rows for ever. *)
PollAnswered == \A s \in Streams :
  pc[s] \in Live \ {"idle"} ~> pc[s] \notin Live \ {"idle"}

(* "a command-shared decode limit": no more decodes run than it allows. *)
DecodesBounded ==
  orphans + Cardinality({s \in Streams : pc[s] \in Decoding}) <= Decoders

(* A partition implements the exactly-once stream of its rows. *)
Rowwise == INSTANCE RowStream WITH
  outcome <- [s \in Streams |->
    IF pc[s] \in {"ended", "failed", "dropped"} THEN pc[s] ELSE "open"]

ImplementsRowStream == Rowwise!Spec
=============================================================================

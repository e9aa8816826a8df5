--------------------------- MODULE ReadRowsProofs ---------------------------
(***************************************************************************)
(* Theorems about ReadRows, for any partitions, server, pool and number of *)
(* decode permits.                                                         *)
(*                                                                         *)
(* Every action but the clock's and an orphan's is a step of one           *)
(* partition.  What it does to that partition's place, response and        *)
(* reservation, and to the shared permits, is summed up in Moves; that     *)
(* such a step keeps the invariant is proved once.  What it is to the      *)
(* consumer, a step of RowStream, is shown of the same steps with the      *)
(* offsets (RowsInv).                                                      *)
(***************************************************************************)
EXTENDS ReadRows, DataLemmas

Places == Live \cup {"planned", "ended", "failed", "dropped"}

(* The types that the proofs need. *)
Domains ==
  /\ pc \in [Streams -> Places]
  /\ reserved \in [Streams -> Nat]
  /\ response \in [Streams -> Replies[codec] \cup {Absent}]
  /\ codec \in DOMAIN Replies /\ Askable(codec)
  /\ permits \in Nat

(* What partition s has reserved is what its place calls for. *)
CoveredAt(s) ==
  /\ pc[s] \in {"permit", "prepare"} => reserved[s] = Admitted(s)
  /\ pc[s] \in {"decode", "idle"} /\ response[s] # Absent =>
       reserved[s] >= Peak(response[s])
  /\ pc[s] \notin {"permit", "prepare", "decode", "idle"} => reserved[s] = 0

ReadInv ==
  /\ Domains
  /\ permits + Cardinality({s \in Streams : pc[s] \in Decoding}) = Decoders
  /\ IsFiniteSet(Cells(Streams, reserved)) /\ PoolUsed <= PoolSize
  /\ \A s \in Streams : CoveredAt(s) /\ (pc[s] = "planned" => response[s] = Absent)

-----------------------------------------------------------------------------
(* Responses *)

(* The bound is known once the envelope and the message are, and it covers the
   decode, in whichever way the response is compressed. *)
LEMMA BoundCovers ==
  ASSUME NEW c \in DOMAIN Replies, Askable(c), NEW r \in Replies[c],
         EnvelopeValid(c.response, r), ~WithoutRows(r), BoundKnown(r)
  PROVE  UpperBound(r) \in Nat /\ UpperBound(r) >= Peak(r)
<1> DEFINE m == r.rows.message
<1>1. /\ r.rows # Absent /\ m # Avro
      /\ r.rows.bytes \in Nat /\ r.declared \in Int \cup {Absent}
      /\ c.wire = "none" => m.codec = "none"
      /\ m.codec # "none" => BuffersBytes(m) \in Nat /\ DecodedBytes(m) \in Nat
      /\ m.codec \notin {"none", "lz4"} => DecodedBytes(m) <= BuffersBytes(m)
  BY RepliesAssumption DEF EnvelopeValid, WithoutRows
<1>2. CASE Compressed(r)
  <2>1. r.declared \in Nat /\ c.response = "lz4"
    BY <1>1, <1>2 DEF Compressed, EnvelopeValid, CompressionValid
  <2>2. m.codec = "none"
    BY <1>1, <2>1 DEF Askable
  <2>3. UpperBound(r) = r.rows.bytes + r.declared
    BY <1>1, <1>2 DEF UpperBound, Additional
  <2>4. Peak(r) = r.rows.bytes + r.declared + 0
    BY <1>2, <2>2 DEF Peak
  <2> QED BY <1>1, <2>1, <2>3, <2>4
<1>3. CASE ~Compressed(r) /\ m.codec = "none"
  <2>1. UpperBound(r) = r.rows.bytes + 0
    BY <1>1, <1>3 DEF UpperBound, Additional
  <2>2. Peak(r) = r.rows.bytes + 0 + 0
    BY <1>3 DEF Peak
  <2> QED BY <1>1, <2>1, <2>2
<1>4. CASE ~Compressed(r) /\ m.codec # "none"
  <2>1. UpperBound(r) = r.rows.bytes + BuffersBytes(m)
    BY <1>1, <1>4 DEF UpperBound, Additional
  <2>2. Peak(r) = r.rows.bytes + 0 + DecodedBytes(m)
    BY <1>4 DEF Peak
  <2>3. DecodedBytes(m) <= BuffersBytes(m)
    <3>1. CASE m.codec = "lz4"
      <4>1. \A i \in DOMAIN m.buffers : m.buffers[i].decoded = DecodedLength(m, m.buffers[i])
        <5>1. \A b \in Range(m.buffers) : BufferValid(m, b)
          BY <1>4 DEF BoundKnown, BuffersValid
        <5> QED BY <3>1, <5>1 DEF Range, BufferValid, DecodedLength
      <4>2. [i \in DOMAIN m.buffers |-> m.buffers[i].decoded]
              = [i \in DOMAIN m.buffers |-> DecodedLength(m, m.buffers[i])]
        BY <4>1
      <4>3. DecodedBytes(m) = BuffersBytes(m)
        BY <4>2 DEF DecodedBytes, BuffersBytes
      <4> QED BY <1>1, <1>4, <4>3
    <3>2. CASE m.codec # "lz4"
      BY <1>1, <1>4, <3>2
    <3> QED BY <3>1, <3>2
  <2> QED BY <1>1, <1>4, <2>1, <2>2, <2>3
<1> QED BY <1>2, <1>3, <1>4

-----------------------------------------------------------------------------
(* One partition's step *)

(* The step of s: what it does to s, what it leaves to the others, and what it
   takes from and gives to all of them. *)
Others(s) == \A d \in Streams \ {s} :
  pc'[d] = pc[d] /\ reserved'[d] = reserved[d] /\ response'[d] = response[d]

Moves(s) ==
  /\ Domains' /\ Others(s)
  /\ CoveredAt(s)' /\ (pc'[s] = "planned" => response'[s] = Absent)
  /\ reserved'[s] <= reserved[s] \/ Fits(s, reserved'[s])
  /\ permits' = permits + (IF pc[s] \in Decoding THEN 1 ELSE 0)
                        - (IF pc'[s] \in Decoding THEN 1 ELSE 0)

(* Every such step keeps the invariant. *)
LEMMA MovesKeep ==
  ASSUME ReadInv, NEW s \in Streams, Moves(s)
  PROVE  ReadInv'
<1>1. Domains /\ Domains' /\ s \in Streams /\ Others(s)
  BY DEF ReadInv, Moves
<1>2. permits' + Cardinality({d \in Streams : pc'[d] \in Decoding}) = Decoders
  <2> DEFINE old == {d \in Streams : pc[d] \in Decoding}
             new == {d \in Streams : pc'[d] \in Decoding}
  <2>1. IsFiniteSet(old) /\ IsFiniteSet(new)
    <3>1. IsFiniteSet(Streams) /\ old \in SUBSET Streams /\ new \in SUBSET Streams
      BY ReadRowsAssumption
    <3> QED BY <3>1, FS_Subset
  <2>2. Cardinality(old) \in Nat /\ Cardinality(new) \in Nat
    BY <2>1, FS_CardinalityType
  <2>3. permits + Cardinality(old) = Decoders /\ permits \in Nat /\ permits' \in Nat
    BY <1>1 DEF ReadInv, Domains
  <2>4. permits' = permits + (IF pc[s] \in Decoding THEN 1 ELSE 0)
                           - (IF pc'[s] \in Decoding THEN 1 ELSE 0)
    BY DEF Moves
  <2>5. CASE pc[s] \in Decoding /\ pc'[s] \notin Decoding
    <3>1. new = old \ {s} /\ s \in old
      BY <1>1, <2>5 DEF Others
    <3>2. Cardinality(new) = Cardinality(old) - 1
      <4> HIDE DEF old, new
      <4> QED BY <2>1, <3>1, FS_RemoveElement
    <3> QED BY <2>2, <2>3, <2>4, <2>5, <3>2
  <2>6. CASE pc[s] \notin Decoding /\ pc'[s] \in Decoding
    <3>1. new = old \cup {s} /\ s \notin old
      BY <1>1, <2>6 DEF Others
    <3>2. Cardinality(new) = Cardinality(old) + 1
      <4> HIDE DEF old, new
      <4> QED BY <2>1, <3>1, FS_AddElement
    <3> QED BY <2>2, <2>3, <2>4, <2>6, <3>2
  <2>7. CASE pc[s] \in Decoding <=> pc'[s] \in Decoding
    <3>1. new = old
      BY <1>1, <2>7 DEF Others
    <3>2. permits' = permits
      <4>1. CASE pc[s] \in Decoding /\ pc'[s] \in Decoding
        BY <2>3, <2>4, <4>1
      <4>2. CASE pc[s] \notin Decoding /\ pc'[s] \notin Decoding
        BY <2>3, <2>4, <4>2
      <4> QED BY <2>7, <4>1, <4>2
    <3> QED BY <2>3, <3>1, <3>2
  <2> QED BY <2>5, <2>6, <2>7
<1>3. IsFiniteSet(Cells(Streams, reserved')) /\ PoolUsed' <= PoolSize
  <2>1. /\ PoolUsed = Cardinality(Cells(Streams, reserved))
        /\ PoolUsed' = Cardinality(Cells(Streams, reserved'))
    BY DEF PoolUsed, Cells, Row
  <2>2. Resized(Streams, reserved, reserved', s) /\ IsFiniteSet(Cells(Streams, reserved))
    BY <1>1 DEF Resized, Others, Domains, ReadInv
  <2>3. /\ IsFiniteSet(Cells(Streams, reserved'))
        /\ Cardinality(Cells(Streams, reserved'))
             = Cardinality(Cells(Streams, reserved)) - reserved[s] + reserved'[s]
    BY <2>2, CellsResized
  <2>4. PoolUsed \in Nat /\ PoolUsed <= PoolSize
    BY <2>1, <2>2, FS_CardinalityType DEF ReadInv
  <2>5. reserved[s] \in Nat /\ reserved'[s] \in Nat /\ PoolSize \in Nat
    BY <2>2, ReadRowsAssumption DEF Resized
  <2>6. reserved'[s] <= reserved[s] \/ PoolUsed - reserved[s] + reserved'[s] <= PoolSize
    BY DEF Moves, Fits
  <2>7. PoolUsed' = PoolUsed - reserved[s] + reserved'[s]
    BY <2>1, <2>3
  <2> QED BY <2>3, <2>4, <2>5, <2>6, <2>7
<1>4. ASSUME NEW d \in Streams
      PROVE  CoveredAt(d)' /\ (pc'[d] = "planned" => response'[d] = Absent)
  <2>1. CASE d = s
    BY <2>1 DEF Moves
  <2>2. CASE d # s
    <3>1. CoveredAt(d) /\ (pc[d] = "planned" => response[d] = Absent)
      BY DEF ReadInv
    <3>2. pc'[d] = pc[d] /\ reserved'[d] = reserved[d] /\ response'[d] = response[d]
      BY <1>1, <2>2 DEF Others
    <3> QED BY <3>1, <3>2 DEF CoveredAt, Admitted
  <2> QED BY <2>1, <2>2
<1> QED BY <1>1, <1>2, <1>3, <1>4 DEF ReadInv

-----------------------------------------------------------------------------
(* What the helpers of the actions do *)

(* The partition's place, reservation and response become what they become, and
   no other partition's do. *)
LEMMA Changes ==
  ASSUME Domains, NEW s \in Streams, NEW p \in Places, NEW n \in Nat,
         NEW r \in Replies[codec] \cup {Absent}, codec' = codec, permits' \in Nat,
         pc' = [pc EXCEPT ![s] = p],
         reserved' = [reserved EXCEPT ![s] = n],
         response' = [response EXCEPT ![s] = r]
  PROVE  /\ Domains' /\ Others(s)
         /\ pc'[s] = p /\ reserved'[s] = n /\ response'[s] = r
BY DEF Domains, Others

(* A partition that keeps its response leaves none behind that is not its own. *)
LEMMA KeepsResponse ==
  ASSUME Domains, NEW s \in Streams, UNCHANGED response
  PROVE  /\ response' = [response EXCEPT ![s] = response[s]]
         /\ response[s] \in Replies[codec] \cup {Absent}
BY DEF Domains

(* Likewise for its reservation. *)
LEMMA KeepsReserved ==
  ASSUME Domains, NEW s \in Streams, UNCHANGED reserved
  PROVE  /\ reserved' = [reserved EXCEPT ![s] = reserved[s]]
         /\ reserved[s] \in Nat
BY DEF Domains

(* A timed wait begins, or the deadline has passed. *)
LEMMA Awaits ==
  ASSUME NEW s \in Streams, NEW where \in {"open", "message"}, NEW held,
         Await(s, where, held)
  PROVE  \E p \in {where, "failed"} :
           /\ pc' = [pc EXCEPT ![s] = p]
           /\ reserved' = [reserved EXCEPT ![s] = IF p = "failed" THEN 0 ELSE held]
<1>1. CASE time > Deadline(s)
  BY <1>1 DEF Await, Goto
<1>2. CASE ~(time > Deadline(s))
  BY <1>2 DEF Await, Goto
<1> QED BY <1>1, <1>2

(* A failure that may be retried leads to a delay or is the end. *)
LEMMA Retries ==
  ASSUME Domains, NEW s \in Streams, NEW server, Retry(s, server)
  PROVE  \E p \in {"sleep", "failed"} :
           /\ pc' = [pc EXCEPT ![s] = p]
           /\ reserved' = [reserved EXCEPT ![s] = IF p = "failed" THEN 0 ELSE reserved[s]]
<1>1. Fail(s) \/ (Goto(s, "sleep") /\ UNCHANGED reserved)
  BY DEF Retry
<1> QED BY <1>1, KeepsReserved DEF Fail, Goto, Resize

(* Places at which nothing is reserved and no permit is held. *)
Bare == {"open", "message", "sleep", "ended", "failed", "dropped"}

(* A step to such a place, of a partition without a permit. *)
LEMMA BareMoves ==
  ASSUME ReadInv, NEW s \in Streams, pc[s] \in Bare \cup {"planned", "permit", "idle"}, NEW p \in Bare,
         pc' = [pc EXCEPT ![s] = p], reserved' = [reserved EXCEPT ![s] = 0],
         NEW r \in {response[s], Absent}, response' = [response EXCEPT ![s] = r],
         UNCHANGED <<codec, permits>>
  PROVE  Moves(s)
<1>1. /\ Domains /\ codec' = codec /\ permits' \in Nat /\ p \in Places /\ permits' = permits
      /\ r \in Replies[codec] \cup {Absent} /\ 0 \in Nat /\ reserved[s] \in Nat
  BY DEF ReadInv, Domains, Bare, Places, Live
<1>2. /\ Domains' /\ Others(s)
      /\ pc'[s] = p /\ reserved'[s] = 0 /\ response'[s] = r
  BY <1>1, Changes
<1>3. CoveredAt(s)' /\ pc'[s] # "planned"
  BY <1>2 DEF CoveredAt, Bare
<1>4. pc[s] \notin Decoding /\ pc'[s] \notin Decoding
  BY <1>2 DEF Decoding, Bare
<1>5. permits' = permits + (IF pc[s] \in Decoding THEN 1 ELSE 0)
                        - (IF pc'[s] \in Decoding THEN 1 ELSE 0)
  <2>1. permits \in Nat
    BY <1>1 DEF Domains
  <2> QED BY <1>1, <1>4, <2>1
<1> QED BY <1>1, <1>2, <1>3, <1>5 DEF Moves

-----------------------------------------------------------------------------
(* The actions *)

(* Polls, answers and failures of the RPC, sleeps, and the end. *)
LEMMA RpcMoves ==
  ASSUME ReadInv, NEW s \in Streams,
         \/ Poll(s) \/ OpenOk(s) \/ RpcFails(s) \/ RpcRefused(s) \/ StreamEnds(s)
         \/ Timeout(s) \/ Wake(s)
  PROVE  Moves(s)
<1>1. /\ Domains /\ reserved \in [Streams -> Nat]
      /\ pc[s] \in {"open", "message", "sleep"} => reserved[s] = 0
  BY DEF ReadInv, Domains, CoveredAt
<1>2. CASE Poll(s)
  <2>1. PICK p \in {"open", "message", "failed"} :
          pc' = [pc EXCEPT ![s] = p] /\ reserved' = [reserved EXCEPT ![s] = 0]
    <3>1. CASE current[s] = NoRpc
      <4>1. Await(s, "open", 0)
        BY <1>2, <3>1 DEF Poll
      <4> QED BY <4>1, Awaits
    <3>2. CASE current[s] # NoRpc
      <4>1. Await(s, "message", 0)
        BY <1>2, <3>2 DEF Poll
      <4> QED BY <4>1, Awaits
    <3> QED BY <3>1, <3>2
  <2>2. /\ response' = [response EXCEPT ![s] = Absent] /\ UNCHANGED <<codec, permits>>
        /\ pc[s] \in Bare \cup {"planned", "permit", "idle"} /\ p \in Bare
    BY <1>2, <2>1 DEF Poll, Bare
  <2> QED BY <2>1, <2>2, BareMoves
<1>3. CASE \/ OpenOk(s) \/ RpcFails(s) \/ RpcRefused(s) \/ StreamEnds(s)
           \/ Timeout(s) \/ Wake(s)
  <2>1. pc[s] \in {"open", "message", "sleep"} /\ UNCHANGED <<codec, permits, response>>
    BY <1>3 DEF OpenOk, RpcFails, RpcRefused, StreamEnds, Timeout, Wake, rowVars
  <2>2. PICK p \in {"open", "message", "sleep", "ended", "failed"} :
          pc' = [pc EXCEPT ![s] = p] /\ reserved' = [reserved EXCEPT ![s] = 0]
    <3>1. CASE OpenOk(s)
      <4>1. Await(s, "message", reserved[s])
        BY <3>1 DEF OpenOk
      <4> QED BY <1>1, <2>1, <4>1, Awaits
    <3>2. CASE RpcFails(s)
      <4>1. PICK f \in Failures : Retry(s, ServerDelay(f))
        BY <3>2 DEF RpcFails
      <4> QED BY <1>1, <2>1, <4>1, Retries
    <3>3. CASE RpcRefused(s)
      BY <3>3 DEF RpcRefused, Fail, Goto, Resize
    <3>4. CASE StreamEnds(s)
      BY <3>4 DEF StreamEnds, Goto, Resize
    <3>5. CASE Timeout(s)
      <4>1. Fail(s) \/ Retry(s, NoDelay)
        BY <3>5 DEF Timeout, SilenceRetries
      <4>2. CASE Fail(s)
        BY <4>2 DEF Fail, Goto, Resize
      <4>3. CASE Retry(s, NoDelay)
        BY <1>1, <2>1, <4>3, Retries
      <4> QED BY <4>1, <4>2, <4>3
    <3>6. CASE Wake(s)
      <4>1. Await(s, "open", reserved[s])
        BY <3>6 DEF Wake
      <4> QED BY <1>1, <2>1, <4>1, Awaits
    <3> QED BY <1>3, <3>1, <3>2, <3>3, <3>4, <3>5, <3>6
  <2>3. response' = [response EXCEPT ![s] = response[s]]
    BY <1>1, <2>1, KeepsResponse
  <2>4. pc[s] \in Bare \cup {"planned", "permit", "idle"} /\ p \in Bare
    BY <2>1, <2>2 DEF Bare
  <2> QED BY <2>1, <2>2, <2>3, <2>4, BareMoves
<1> QED BY <1>2, <1>3

(* A partition that is planned, dropped or gives up keeps no reservation. *)
LEMMA ExecuteMoves ==
  ASSUME ReadInv, NEW s \in Streams, Execute(s)
  PROVE  Moves(s)
<1>1. /\ Domains /\ pc[s] = "planned" /\ UNCHANGED <<codec, permits, response, reserved>>
      /\ response[s] = Absent /\ reserved[s] = 0 /\ permits \in Nat
  BY DEF ReadInv, Domains, CoveredAt, Execute, rowVars, sharedVars
<1>2. PICK p \in {"failed", "idle"} : pc' = [pc EXCEPT ![s] = p]
  BY DEF Execute, Goto
<1>3. /\ reserved' = [reserved EXCEPT ![s] = 0]
      /\ response' = [response EXCEPT ![s] = Absent]
  BY <1>1 DEF Domains
<1>4. /\ p \in Places /\ 0 \in Nat /\ Absent \in Replies[codec] \cup {Absent}
      /\ codec' = codec /\ permits' \in Nat /\ Domains
  BY <1>1 DEF Places, Live
<1>5. /\ Domains' /\ Others(s)
      /\ pc'[s] = p /\ reserved'[s] = 0 /\ response'[s] = Absent
  BY <1>2, <1>3, <1>4, Changes
<1>6. CoveredAt(s)'
  BY <1>5 DEF CoveredAt
<1>7. pc[s] \notin Decoding /\ pc'[s] \notin Decoding
  BY <1>1, <1>5 DEF Decoding
<1>8. permits' = permits + (IF pc[s] \in Decoding THEN 1 ELSE 0)
                        - (IF pc'[s] \in Decoding THEN 1 ELSE 0)
  BY <1>1, <1>7
<1> QED BY <1>1, <1>5, <1>6, <1>8 DEF Moves

(* The permit of a decode that is over. *)
LEMMA Drops ==
  ASSUME Domains, NEW s \in Streams, DropPermit(s)
  PROVE  permits' \in Nat
         /\ permits' = permits + (IF pc[s] \in Decoding THEN 1 ELSE 0) - 0
BY DEF Domains, DropPermit

(* The partition is over or asks for more, and its permit is dropped if it had
   one. *)
LEMMA GiveUpMoves ==
  ASSUME ReadInv, NEW s \in Streams, NEW p \in Bare,
         pc' = [pc EXCEPT ![s] = p], reserved' = [reserved EXCEPT ![s] = 0],
         response' = [response EXCEPT ![s] = Absent],
         codec' = codec, DropPermit(s)
  PROVE  Moves(s)
<1>1. Domains /\ reserved[s] \in Nat
  BY DEF ReadInv, Domains
<1>2. permits' \in Nat /\ permits' = permits + (IF pc[s] \in Decoding THEN 1 ELSE 0) - 0
  BY <1>1, Drops
<1>3. p \in Places /\ 0 \in Nat /\ Absent \in Replies[codec] \cup {Absent}
  BY DEF Places, Live, Bare
<1>4. /\ Domains' /\ Others(s)
      /\ pc'[s] = p /\ reserved'[s] = 0 /\ response'[s] = Absent
  BY <1>1, <1>2, <1>3, Changes
<1>5. CoveredAt(s)' /\ pc'[s] \notin Decoding
  BY <1>4 DEF CoveredAt, Bare, Decoding
<1> QED BY <1>1, <1>2, <1>4, <1>5 DEF Moves

(* The consumer goes away, or the rows do not decode. *)
LEMMA DropMoves ==
  ASSUME ReadInv, NEW s \in Streams, Drop(s) \/ Reject(s)
  PROVE  Moves(s)
<1>1. PICK p \in {"dropped", "failed"} :
        pc' = [pc EXCEPT ![s] = p] /\ reserved' = [reserved EXCEPT ![s] = 0]
  BY DEF Drop, Reject, Fail, Goto, Resize
<1>2. /\ p \in Bare /\ codec' = codec /\ DropPermit(s)
      /\ response' = [response EXCEPT ![s] = Absent]
  BY <1>1 DEF Drop, Reject, Bare
<1> QED BY <1>1, <1>2, GiveUpMoves

(* A response is admitted with what it takes serialized. *)
LEMMA ResponseMoves ==
  ASSUME ReadInv, NEW s \in Streams, Response(s)
  PROVE  Moves(s)
<1>1. /\ Domains /\ pc[s] = "message" /\ UNCHANGED <<codec, permits>>
      /\ reserved[s] = 0 /\ permits \in Nat
  BY DEF ReadInv, Domains, CoveredAt, Response
<1>2. PICK r \in Replies[codec] :
        IF Fits(s, Serialized(r))
        THEN /\ Goto(s, "permit") /\ Resize(s, Serialized(r))
             /\ response' = [response EXCEPT ![s] = r]
        ELSE Fail(s) /\ UNCHANGED response
  BY DEF Response
<1>3. CASE Fits(s, Serialized(r))
  <2>1. r # Absent /\ Serialized(r) \in Nat
    BY <1>1, RepliesAssumption DEF Serialized, Domains
  <2>2. /\ pc' = [pc EXCEPT ![s] = "permit"]
        /\ reserved' = [reserved EXCEPT ![s] = Serialized(r)]
        /\ response' = [response EXCEPT ![s] = r]
    BY <1>2, <1>3 DEF Goto, Resize
  <2>3. /\ "permit" \in Places /\ r \in Replies[codec] \cup {Absent}
        /\ codec' = codec /\ permits' \in Nat
    BY <1>1 DEF Places, Live
  <2>4. /\ Domains' /\ Others(s)
        /\ pc'[s] = "permit" /\ reserved'[s] = Serialized(r) /\ response'[s] = r
    BY <1>1, <2>1, <2>2, <2>3, Changes
  <2>5. CoveredAt(s)'
    BY <2>1, <2>4 DEF CoveredAt, Admitted
  <2>6. permits' = permits + (IF pc[s] \in Decoding THEN 1 ELSE 0)
                          - (IF pc'[s] \in Decoding THEN 1 ELSE 0)
    <3>1. pc[s] \notin Decoding /\ pc'[s] \notin Decoding
      BY <1>1, <2>4 DEF Decoding
    <3> QED BY <1>1, <3>1
  <2> QED BY <1>3, <2>4, <2>5, <2>6 DEF Moves
<1>4. CASE ~Fits(s, Serialized(r))
  <2>1. /\ pc' = [pc EXCEPT ![s] = "failed"] /\ reserved' = [reserved EXCEPT ![s] = 0]
        /\ UNCHANGED response
    BY <1>2, <1>4 DEF Fail, Goto, Resize
  <2>2. response' = [response EXCEPT ![s] = response[s]]
    BY <1>1, <2>1, KeepsResponse
  <2>3. "failed" \in Bare /\ pc[s] \in Bare \cup {"planned", "permit", "idle"}
    BY <1>1 DEF Bare
  <2> QED BY <1>1, <2>1, <2>2, <2>3, BareMoves
<1> QED BY <1>3, <1>4

(* A permit is taken while there is one. *)
LEMMA AcquirePermitMoves ==
  ASSUME ReadInv, NEW s \in Streams, AcquirePermit(s)
  PROVE  Moves(s)
<1>1. /\ Domains /\ pc[s] = "permit" /\ reserved[s] = Admitted(s)
      /\ permits \in Nat /\ permits > 0 /\ permits' = permits - 1
      /\ UNCHANGED <<codec, response, reserved>>
      /\ pc' = [pc EXCEPT ![s] = "prepare"]
  BY DEF ReadInv, Domains, CoveredAt, AcquirePermit, TakePermit, rowVars, Goto
<1>2. /\ response' = [response EXCEPT ![s] = response[s]]
      /\ response[s] \in Replies[codec] \cup {Absent}
      /\ reserved' = [reserved EXCEPT ![s] = reserved[s]] /\ reserved[s] \in Nat
  BY <1>1, KeepsResponse, KeepsReserved
<1>3. "prepare" \in Places /\ codec' = codec /\ permits' \in Nat
  BY <1>1 DEF Places, Live
<1>4. /\ Domains' /\ Others(s)
      /\ pc'[s] = "prepare" /\ reserved'[s] = reserved[s] /\ response'[s] = response[s]
  BY <1>1, <1>2, <1>3, Changes
<1>5. CoveredAt(s)'
  BY <1>1, <1>4 DEF CoveredAt, Admitted
<1>6. permits' = permits + (IF pc[s] \in Decoding THEN 1 ELSE 0)
                        - (IF pc'[s] \in Decoding THEN 1 ELSE 0)
  <2>1. pc[s] \notin Decoding /\ pc'[s] \in Decoding
    BY <1>1, <1>4 DEF Decoding
  <2> QED BY <1>1, <2>1
<1> QED BY <1>2, <1>4, <1>5, <1>6 DEF Moves

(* The reservation becomes the bound of the decode, or the decode does not
   begin. *)
LEMMA PreparedMoves ==
  ASSUME ReadInv, NEW s \in Streams, Prepared(s)
  PROVE  Moves(s)
<1> DEFINE r == response[s]
<1>1. /\ Domains /\ pc[s] = "prepare" /\ codec' = codec /\ permits \in Nat
      /\ r \in Replies[codec] \cup {Absent}
  BY DEF ReadInv, Domains, Prepared
<1>2. CASE /\ WithoutRows(r) /\ DropPermit(s) /\ Await(s, "message", 0)
           /\ response' = [response EXCEPT ![s] = Absent]
  <2>1. PICK p \in {"message", "failed"} :
          pc' = [pc EXCEPT ![s] = p] /\ reserved' = [reserved EXCEPT ![s] = 0]
    BY <1>2, Awaits
  <2>2. p \in Bare
    BY <2>1 DEF Bare
  <2> QED BY <1>1, <1>2, <2>1, <2>2, GiveUpMoves
<1>3. CASE /\ EnvelopeValid(codec.response, r) /\ ~WithoutRows(r)
           /\ BoundKnown(r) /\ Fits(s, Bound(s))
           /\ Goto(s, "decode") /\ AdmitDecoded(s)
           /\ UNCHANGED <<until, permits, response>>
  <2>1. Bound(s) \in Nat /\ (r # Absent => Bound(s) >= Peak(r))
    <3>1. CASE r = Absent
      BY <3>1 DEF Bound
    <3>2. CASE r # Absent
      <4>1. r \in Replies[codec] /\ codec \in DOMAIN Replies /\ Askable(codec)
        BY <1>1, <3>2 DEF Domains
      <4>2. UpperBound(r) \in Nat /\ UpperBound(r) >= Peak(r)
        <5> HIDE DEF r
        <5> QED BY <1>3, <4>1, BoundCovers
      <4> QED BY <3>2, <4>2 DEF Bound
    <3> QED BY <3>1, <3>2
  <2>2. /\ pc' = [pc EXCEPT ![s] = "decode"] /\ UNCHANGED response
        /\ reserved' = [reserved EXCEPT ![s] = Bound(s)]
    BY <1>3 DEF Goto, AdmitDecoded, Resize
  <2>3. /\ "decode" \in Places /\ codec' = codec /\ permits' \in Nat /\ permits' = permits
        /\ response' = [response EXCEPT ![s] = r]
    BY <1>1, <1>3, KeepsResponse DEF Places, Live
  <2>4. /\ Domains' /\ Others(s)
        /\ pc'[s] = "decode" /\ reserved'[s] = Bound(s) /\ response'[s] = r
    BY <1>1, <2>1, <2>2, <2>3, Changes
  <2>5. CoveredAt(s)'
    BY <2>1, <2>4 DEF CoveredAt
  <2>6. permits' = permits + (IF pc[s] \in Decoding THEN 1 ELSE 0)
                          - (IF pc'[s] \in Decoding THEN 1 ELSE 0)
    <3>1. pc[s] \in Decoding /\ pc'[s] \in Decoding
      BY <1>1, <2>4 DEF Decoding
    <3> QED BY <1>1, <2>3, <3>1
  <2> QED BY <1>3, <2>4, <2>5, <2>6 DEF Moves
<1>4. CASE Fail(s) /\ DropPermit(s) /\ response' = [response EXCEPT ![s] = Absent]
  <2>1. /\ pc' = [pc EXCEPT ![s] = "failed"] /\ reserved' = [reserved EXCEPT ![s] = 0]
        /\ "failed" \in Bare
    BY <1>4 DEF Fail, Goto, Resize, Bare
  <2> QED BY <1>1, <1>4, <2>1, GiveUpMoves
<1> QED BY <1>2, <1>3, <1>4 DEF Prepared

(* The batch goes out with the reservation of its decode. *)
LEMMA AcceptMoves ==
  ASSUME ReadInv, NEW s \in Streams, Accept(s)
  PROVE  Moves(s)
<1>1. /\ Domains /\ pc[s] = "decode" /\ DropPermit(s)
      /\ response[s] # Absent => reserved[s] >= Peak(response[s])
      /\ UNCHANGED <<codec, response, reserved>> /\ pc' = [pc EXCEPT ![s] = "idle"]
  BY DEF ReadInv, Domains, CoveredAt, Accept, Goto
<1>2. /\ response' = [response EXCEPT ![s] = response[s]]
      /\ response[s] \in Replies[codec] \cup {Absent}
      /\ reserved' = [reserved EXCEPT ![s] = reserved[s]] /\ reserved[s] \in Nat
  BY <1>1, KeepsResponse, KeepsReserved
<1>3. permits' \in Nat /\ permits' = permits + (IF pc[s] \in Decoding THEN 1 ELSE 0) - 0
  BY <1>1, Drops
<1>4. "idle" \in Places /\ codec' = codec
  BY <1>1 DEF Places, Live
<1>5. /\ Domains' /\ Others(s)
      /\ pc'[s] = "idle" /\ reserved'[s] = reserved[s] /\ response'[s] = response[s]
  BY <1>1, <1>2, <1>3, <1>4, Changes
<1>6. CoveredAt(s)' /\ pc'[s] \notin Decoding
  BY <1>1, <1>5 DEF CoveredAt, Decoding
<1> QED BY <1>2, <1>3, <1>5, <1>6 DEF Moves

-----------------------------------------------------------------------------
(* What the partitions share *)

(* Nothing is reserved and every permit is free. *)
LEMMA ReadInit == Init => ReadInv
<1> SUFFICES ASSUME Init PROVE ReadInv
  OBVIOUS
<1>1. Domains
  BY ReadRowsAssumption DEF Init, Domains, Places
<1>2. permits + Cardinality({s \in Streams : pc[s] \in Decoding}) = Decoders
  <2>1. {s \in Streams : pc[s] \in Decoding} = {}
    BY DEF Init, Decoding
  <2>2. Cardinality({s \in Streams : pc[s] \in Decoding}) = 0
    BY <2>1, FS_EmptySet
  <2>3. permits = Decoders /\ Decoders \in Nat
    BY ReadRowsAssumption DEF Init
  <2> QED BY <2>2, <2>3
<1>3. IsFiniteSet(Cells(Streams, reserved)) /\ PoolUsed <= PoolSize
  <2>1. \A s \in Streams : reserved[s] = 0
    BY DEF Init
  <2>2. Cells(Streams, reserved) = {}
    BY <2>1, CellsOfNothing
  <2>3. PoolUsed = Cardinality(Cells(Streams, reserved))
    BY DEF PoolUsed, Cells, Row
  <2> QED BY <2>2, <2>3, FS_EmptySet, ReadRowsAssumption
<1>4. \A s \in Streams : CoveredAt(s) /\ (pc[s] = "planned" => response[s] = Absent)
  BY DEF Init, CoveredAt
<1> QED BY <1>1, <1>2, <1>3, <1>4 DEF ReadInv

(* A step is one of a partition, of an orphan or of the clock. *)
LEMMA ReadStep == ReadInv /\ [Next]_vars => ReadInv'
<1> SUFFICES ASSUME ReadInv, [Next]_vars PROVE ReadInv'
  OBVIOUS
<1>1. ASSUME NEW s \in Streams,
             \/ Consumer(s) \/ Server(s) \/ Timeout(s) \/ Wake(s) \/ AcquirePermit(s)
             \/ Decode(s)
      PROVE  ReadInv'
  <2>1. Moves(s)
    BY <1>1, RpcMoves, ExecuteMoves, DropMoves, ResponseMoves, AcquirePermitMoves,
       PreparedMoves, AcceptMoves DEF Consumer, Server, Decode
  <2> QED BY <2>1, MovesKeep
<1>2. CASE OrphanEnds \/ Tick \/ UNCHANGED vars
  <2>1. UNCHANGED <<pc, codec, response, reserved, permits>>
    BY <1>2 DEF OrphanEnds, Tick, vars, rowVars, sharedVars
  <2> QED BY <2>1 DEF ReadInv, Domains, PoolUsed, CoveredAt, Admitted
<1> QED BY <1>1, <1>2 DEF Next

(* The inductive invariant. *)
THEOREM ReadInvariance == Spec => []ReadInv
BY ReadInit, ReadStep, PTL DEF Spec

(* Whatever the partitions do together, and however each of them ends, no
   decode permit is lost or made up, the memory pool is not exceeded, and what
   a partition has in memory is reserved. *)
THEOREM ResourcesAreCovered == Spec => []ResourcesCovered
<1>1. ReadInv => ResourcesCovered
  BY DEF ReadInv, CoveredAt, ResourcesCovered
<1> QED BY <1>1, ReadInvariance, PTL

-----------------------------------------------------------------------------
(* The rows of a partition, exactly once *)

Over == {"ended", "failed", "dropped"}

(* What the RPC has sent is what was accepted, and the rows of the response in
   hand. *)
AheadAt(s) ==
  LET r == response[s] IN
  /\ r.rows = Absent => current[s] = offset[s]
  /\ r.rows # Absent /\ r.rows.message # Avro =>
       /\ r.rows.message.rows \in Nat
       /\ current[s] = offset[s] + r.rows.message.rows /\ current[s] <= Rows[s]

RowsAt(s) ==
  /\ offset[s] = Len(delivered[s])
  /\ pc[s] = "message" => current[s] = offset[s]
  /\ pc[s] \in {"planned", "idle"} => current[s] \in {NoRpc, offset[s]}
  /\ pc[s] \in {"permit", "prepare", "decode"} => AheadAt(s)
  /\ pc[s] = "decode" => response[s].rows # Absent /\ response[s].rows.message # Avro

RowsInv ==
  /\ current = [s \in Streams |-> current[s]]
  /\ offset \in [Streams -> Nat] /\ delivered \in [Streams -> Seq(Int)]
  /\ \A s \in Streams : RowsAt(s)

(* What each step of a partition is to its consumer. *)
Shown == RowsInv' /\ [Rowwise!Next]_Rowwise!absvars

(* The outcome that the consumer sees changes only when the partition is over. *)
LEMMA OutcomeOf ==
  ASSUME Domains, NEW s \in Streams, pc[s] \notin Over, NEW p \in Places,
         pc' = [pc EXCEPT ![s] = p], UNCHANGED delivered,
         p = "ended" => Len(delivered[s]) = Rows[s]
  PROVE  [Rowwise!Next]_Rowwise!absvars
<1> DEFINE Outcome(P) == [d \in Streams |->
             IF P[d] \in {"ended", "failed", "dropped"} THEN P[d] ELSE "open"]
<1>1. pc'[s] = p /\ \A d \in Streams \ {s} : pc'[d] = pc[d]
  BY DEF Domains
<1>2. CASE p \in Over
  <2>1. Outcome(pc)[s] = "open"
    BY DEF Over
  <2>2. Outcome(pc') = [Outcome(pc) EXCEPT ![s] = p]
    BY <1>1, <1>2 DEF Over
  <2>3. Rowwise!Finish(s)
    BY <1>2, <2>1, <2>2 DEF Rowwise!Finish, Over
  <2> QED BY <2>3 DEF Rowwise!Next
<1>3. CASE p \notin Over
  <2>1. Outcome(pc') = Outcome(pc)
    BY <1>1, <1>3 DEF Over
  <2> QED BY <2>1 DEF Rowwise!absvars
<1> QED BY <1>2, <1>3

(* A step that hands nothing out. *)
LEMMA HandsNothingOut ==
  ASSUME Domains, RowsInv, NEW s \in Streams, pc[s] \notin Over, NEW p \in Places,
         pc' = [pc EXCEPT ![s] = p], UNCHANGED <<offset, delivered>>,
         NEW k, current' = [current EXCEPT ![s] = k],
         NEW r, response' = [response EXCEPT ![s] = r],
         p = "ended" => offset[s] = Rows[s],
         p = "message" => k = offset[s],
         p \in {"planned", "idle"} => k \in {NoRpc, offset[s]},
         p \in {"permit", "prepare", "decode"} =>
           /\ r.rows = Absent => k = offset[s]
           /\ r.rows # Absent /\ r.rows.message # Avro =>
                /\ r.rows.message.rows \in Nat
                /\ k = offset[s] + r.rows.message.rows /\ k <= Rows[s],
         p = "decode" => r.rows # Absent /\ r.rows.message # Avro
  PROVE  Shown
<1>1. /\ pc'[s] = p /\ current'[s] = k /\ response'[s] = r
      /\ current' = [d \in Streams |-> current'[d]]
      /\ \A d \in Streams \ {s} :
           pc'[d] = pc[d] /\ current'[d] = current[d] /\ response'[d] = response[d]
  BY DEF Domains, RowsInv
<1>2. offset[s] = Len(delivered[s])
  BY DEF RowsInv, RowsAt
<1>3. ASSUME NEW d \in Streams PROVE RowsAt(d)'
  <2>1. CASE d = s
    BY <1>1, <1>2, <2>1 DEF RowsAt, AheadAt
  <2>2. CASE d # s
    BY <1>1, <2>2 DEF RowsInv, RowsAt, AheadAt
  <2> QED BY <2>1, <2>2
<1>4. RowsInv'
  BY <1>1, <1>3 DEF RowsInv
<1>5. [Rowwise!Next]_Rowwise!absvars
  BY <1>2, OutcomeOf
<1> QED BY <1>4, <1>5 DEF Shown

(* What does not change, in the form of a change. *)
LEMMA Keeps ==
  ASSUME Domains, RowsInv, NEW s \in Streams
  PROVE  /\ UNCHANGED response => response' = [response EXCEPT ![s] = response[s]]
         /\ UNCHANGED current => current' = [current EXCEPT ![s] = current[s]]
BY DEF Domains, RowsInv

(* Failures, timeouts, retries and the end of an RPC. *)
LEMMA RpcShown ==
  ASSUME Domains, RowsInv, NEW s \in Streams,
         \/ RpcFails(s) \/ RpcRefused(s) \/ StreamEnds(s) \/ Timeout(s) \/ Wake(s)
         \/ Drop(s) \/ Reject(s)
  PROVE  Shown
<1>1. /\ UNCHANGED <<offset, delivered>> /\ pc[s] \notin Over
      /\ pc[s] = "message" => current[s] = offset[s]
  BY DEF RowsInv, RowsAt, Over, Live, rowVars, RpcFails, RpcRefused, StreamEnds, Timeout, Wake,
         Drop, Reject
<1>2. PICK r : response' = [response EXCEPT ![s] = r]
  <2>1. UNCHANGED response \/ response' = [response EXCEPT ![s] = Absent]
    BY DEF rowVars, RpcFails, RpcRefused, StreamEnds, Timeout, Wake, Drop, Reject
  <2> QED BY <2>1, Keeps
<1>3. PICK p \in {"open", "sleep", "ended", "failed", "dropped"} :
        pc' = [pc EXCEPT ![s] = p] /\ (p = "ended" => offset[s] = Rows[s])
  <2>1. CASE RpcFails(s)
    <3>1. PICK f \in Failures : Retry(s, ServerDelay(f))
      BY <2>1 DEF RpcFails
    <3> QED BY <3>1, Retries
  <2>2. CASE RpcRefused(s)
    BY <2>2 DEF RpcRefused, Fail, Goto
  <2>3. CASE StreamEnds(s)
    BY <1>1, <2>3 DEF StreamEnds, Goto
  <2>4. CASE Timeout(s)
    <3>1. Fail(s) \/ Retry(s, NoDelay)
      BY <2>4 DEF Timeout, SilenceRetries
    <3>2. CASE Fail(s)
      BY <3>2 DEF Fail, Goto
    <3>3. CASE Retry(s, NoDelay)
      BY <3>3, Retries
    <3> QED BY <3>1, <3>2, <3>3
  <2>5. CASE Wake(s)
    <3>1. Await(s, "open", reserved[s])
      BY <2>5 DEF Wake
    <3> QED BY <3>1, Awaits
  <2>6. CASE Drop(s) \/ Reject(s)
    BY <2>6 DEF Drop, Reject, Fail, Goto
  <2> QED BY <2>1, <2>2, <2>3, <2>4, <2>5, <2>6
<1>4. PICK k : current' = [current EXCEPT ![s] = k]
  <2>1. UNCHANGED current \/ current' = [current EXCEPT ![s] = NoRpc]
    <3>1. CASE RpcFails(s)
      <4>1. PICK f \in Failures : Retry(s, ServerDelay(f))
        BY <3>1 DEF RpcFails
      <4> QED BY <4>1 DEF Retry
    <3>2. CASE Timeout(s)
      BY <3>2 DEF Timeout, SilenceRetries, Retry
    <3>3. CASE RpcRefused(s) \/ StreamEnds(s) \/ Wake(s) \/ Drop(s) \/ Reject(s)
      BY <3>3 DEF RpcRefused, StreamEnds, Wake, Drop, Reject, waitVars
    <3> QED BY <3>1, <3>2, <3>3
  <2> QED BY <2>1, Keeps
<1>5. p \in Places
  BY <1>3 DEF Places, Live
<1> QED BY <1>1, <1>2, <1>3, <1>4, <1>5, HandsNothingOut

(* The consumer asks; the RPC opens where the last accepted row was. *)
LEMMA AskShown ==
  ASSUME Domains, RowsInv, NEW s \in Streams, Execute(s) \/ Poll(s) \/ OpenOk(s)
  PROVE  Shown
<1>1. UNCHANGED <<offset, delivered>> /\ pc[s] \notin Over /\ RowsAt(s)
  BY DEF RowsInv, Over, rowVars, Execute, Poll, OpenOk
<1>2. PICK r : response' = [response EXCEPT ![s] = r]
  <2>1. UNCHANGED response \/ response' = [response EXCEPT ![s] = Absent]
    BY DEF rowVars, Execute, Poll, OpenOk
  <2> QED BY <2>1, Keeps
<1>3. CASE Execute(s)
  <2>1. PICK p \in {"failed", "idle"} : pc' = [pc EXCEPT ![s] = p]
    BY <1>3 DEF Execute, Goto
  <2>2. /\ current' = [current EXCEPT ![s] = current[s]]
        /\ current[s] \in {NoRpc, offset[s]} /\ p \in Places
    BY <1>1, <1>3, <2>1, Keeps DEF Execute, RowsAt, Places, Live
  <2> QED BY <1>1, <1>2, <2>1, <2>2, HandsNothingOut
<1>4. CASE Poll(s)
  <2>1. PICK p \in {"open", "message", "failed"} :
          pc' = [pc EXCEPT ![s] = p] /\ (p = "message" => current[s] # NoRpc)
    <3>1. CASE current[s] = NoRpc
      <4>1. Await(s, "open", 0)
        BY <1>4, <3>1 DEF Poll
      <4> QED BY <4>1, Awaits
    <3>2. CASE current[s] # NoRpc
      <4>1. Await(s, "message", 0)
        BY <1>4, <3>2 DEF Poll
      <4> QED BY <3>2, <4>1, Awaits
    <3> QED BY <3>1, <3>2
  <2>2. /\ current' = [current EXCEPT ![s] = current[s]]
        /\ p = "message" => current[s] = offset[s]
        /\ p \in Places
    BY <1>1, <1>4, <2>1, Keeps DEF Poll, RowsAt, Places, Live
  <2> QED BY <1>1, <1>2, <2>1, <2>2, HandsNothingOut
<1>5. CASE OpenOk(s)
  <2>1. PICK p \in {"message", "failed"} : pc' = [pc EXCEPT ![s] = p]
    <3>1. Await(s, "message", reserved[s])
      BY <1>5 DEF OpenOk
    <3> QED BY <3>1, Awaits
  <2>2. current' = [current EXCEPT ![s] = offset[s]] /\ p \in Places
    BY <1>5, <2>1 DEF OpenOk, RequestOffset, Places, Live
  <2> QED BY <1>1, <1>2, <2>1, <2>2, HandsNothingOut
<1> QED BY <1>3, <1>4, <1>5

(* A response holds the next rows. *)
LEMMA ResponseShown ==
  ASSUME Domains, RowsInv, NEW s \in Streams, Response(s)
  PROVE  Shown
<1>1. /\ UNCHANGED <<offset, delivered>> /\ pc[s] \notin Over
      /\ current[s] = offset[s] /\ offset[s] \in Nat
  BY DEF RowsInv, RowsAt, Over, Response
<1>2. PICK r \in Replies[codec] :
        /\ current[s] + RowsIn(r) <= Rows[s]
        /\ current' = [current EXCEPT ![s] = current[s] + RowsIn(r)]
        /\ IF Fits(s, Serialized(r))
           THEN Goto(s, "permit") /\ response' = [response EXCEPT ![s] = r]
           ELSE Fail(s) /\ UNCHANGED response
  BY DEF Response
<1>3. /\ r.rows = Absent => current[s] + RowsIn(r) = offset[s]
      /\ r.rows # Absent /\ r.rows.message # Avro =>
           /\ r.rows.message.rows \in Nat
           /\ current[s] + RowsIn(r) = offset[s] + r.rows.message.rows
  BY <1>1, RepliesAssumption DEF RowsIn, Domains
<1>4. CASE Fits(s, Serialized(r))
  <2>1. /\ pc' = [pc EXCEPT ![s] = "permit"] /\ response' = [response EXCEPT ![s] = r]
        /\ "permit" \in Places
    BY <1>2, <1>4 DEF Goto, Places, Live
  <2> QED BY <1>1, <1>2, <1>3, <2>1, HandsNothingOut
<1>5. CASE ~Fits(s, Serialized(r))
  <2>1. /\ pc' = [pc EXCEPT ![s] = "failed"]
        /\ response' = [response EXCEPT ![s] = response[s]]
        /\ "failed" \in Places
    BY <1>2, <1>5, Keeps DEF Fail, Goto, Places
  <2> QED BY <1>1, <1>2, <2>1, HandsNothingOut
<1> QED BY <1>4, <1>5

(* It waits for a permit and is looked into; one without rows is passed over. *)
LEMMA PreparedShown ==
  ASSUME Domains, RowsInv, NEW s \in Streams, AcquirePermit(s) \/ Prepared(s)
  PROVE  Shown
<1>1. /\ UNCHANGED <<offset, delivered, current>> /\ pc[s] \notin Over /\ AheadAt(s)
      /\ current' = [current EXCEPT ![s] = current[s]]
  BY Keeps DEF RowsInv, RowsAt, Over, AcquirePermit, Prepared, rowVars, waitVars
<1>2. CASE AcquirePermit(s)
  <2>1. /\ pc' = [pc EXCEPT ![s] = "prepare"] /\ "prepare" \in Places
        /\ response' = [response EXCEPT ![s] = response[s]]
    BY <1>2, Keeps DEF AcquirePermit, Goto, rowVars, Places, Live
  <2> QED BY <1>1, <2>1, HandsNothingOut DEF AheadAt
<1>3. CASE Prepared(s)
  <2> DEFINE r == response[s]
  <2>1. CASE WithoutRows(r) /\ Await(s, "message", 0)
             /\ response' = [response EXCEPT ![s] = Absent]
    <3>1. PICK p \in {"message", "failed"} : pc' = [pc EXCEPT ![s] = p]
      BY <2>1, Awaits
    <3>2. current[s] = offset[s] /\ p \in Places
      BY <1>1, <2>1, <3>1 DEF AheadAt, WithoutRows, Places, Live
    <3> QED BY <1>1, <2>1, <3>1, <3>2, HandsNothingOut
  <2>2. CASE /\ EnvelopeValid(codec.response, r) /\ ~WithoutRows(r)
             /\ Goto(s, "decode") /\ UNCHANGED response
    <3>1. /\ pc' = [pc EXCEPT ![s] = "decode"] /\ "decode" \in Places
          /\ response' = [response EXCEPT ![s] = response[s]]
      BY <2>2, Keeps DEF Goto, Places, Live
    <3>2. response[s].rows # Absent /\ response[s].rows.message # Avro
      BY <2>2 DEF EnvelopeValid, WithoutRows
    <3> QED BY <1>1, <3>1, <3>2, HandsNothingOut DEF AheadAt
  <2>3. CASE Fail(s) /\ response' = [response EXCEPT ![s] = Absent]
    <3>1. pc' = [pc EXCEPT ![s] = "failed"] /\ "failed" \in Places
      BY <2>3 DEF Fail, Goto, Places
    <3> QED BY <1>1, <2>3, <3>1, HandsNothingOut
  <2> QED BY <1>3, <2>1, <2>2, <2>3 DEF Prepared
<1> QED BY <1>2, <1>3

(* Numbers in a row. *)
LEMMA Counted ==
  ASSUME NEW n \in Nat, NEW k \in Int
  PROVE  /\ [i \in 1..n |-> k + i] \in Seq(Int)
         /\ Len([i \in 1..n |-> k + i]) = n
OBVIOUS

(* Sequences joined are as long as both. *)
LEMMA Joined ==
  ASSUME NEW q \in Seq(Int), NEW t \in Seq(Int)
  PROVE  q \o t \in Seq(Int) /\ Len(q \o t) = Len(q) + Len(t)
OBVIOUS

(* Nothing is joined. *)
LEMMA NoneAdded ==
  ASSUME NEW q \in Seq(Int), NEW t \in Seq(Int), Len(t) = 0
  PROVE  q \o t = q
OBVIOUS

(* The batch that is handed out has the rows after those handed out before, and
   the offset goes with them. *)
LEMMA AcceptShown ==
  ASSUME Domains, RowsInv, NEW s \in Streams, Accept(s)
  PROVE  Shown
<1> DEFINE rows == response[s].count
           q == delivered[s]
           t == [i \in 1..rows |-> current[s] - rows + i]
<1>1. /\ pc[s] = "decode" /\ Decodes(response[s]) /\ UNCHANGED <<response, current>>
      /\ offset' = [offset EXCEPT ![s] = offset[s] + rows]
      /\ delivered' = [delivered EXCEPT ![s] = q \o t]
      /\ pc' = [pc EXCEPT ![s] = "idle"]
  BY DEF Accept, Goto, waitVars
<1>2. /\ rows \in Nat /\ current[s] = offset[s] + rows /\ current[s] <= Rows[s]
      /\ offset[s] \in Nat /\ offset[s] = Len(q) /\ q \in Seq(Int)
      /\ Rows[s] \in Nat
  <2>1. AheadAt(s) /\ response[s].rows # Absent /\ response[s].rows.message # Avro
    BY <1>1 DEF RowsInv, RowsAt
  <2>2. rows = response[s].rows.message.rows
    BY <1>1 DEF Decodes
  <2> QED BY <2>1, <2>2, ReadRowsAssumption DEF AheadAt, RowsInv, RowsAt
<1>3. t = [i \in 1..rows |-> Len(q) + i]
  BY <1>2
<1>4. t \in Seq(Int) /\ Len(t) = rows
  <2>1. Len(q) \in Int
    BY <1>2
  <2> HIDE DEF rows, q
  <2> QED BY <1>2, <1>3, <2>1, Counted
<1>5. q \o t \in Seq(Int) /\ Len(q \o t) = Len(q) + rows
  <2> HIDE DEF rows, q, t
  <2> QED BY <1>2, <1>4, Joined
<1> HIDE DEF rows, q, t
<1>6. RowsInv'
  <2>1. /\ offset' \in [Streams -> Nat] /\ delivered' \in [Streams -> Seq(Int)]
        /\ current' = [d \in Streams |-> current'[d]]
    BY <1>1, <1>2, <1>5 DEF RowsInv
  <2>2. /\ pc'[s] = "idle" /\ offset'[s] = offset[s] + rows /\ delivered'[s] = q \o t
        /\ \A d \in Streams \ {s} :
             pc'[d] = pc[d] /\ offset'[d] = offset[d] /\ delivered'[d] = delivered[d]
    BY <1>1 DEF Domains, RowsInv
  <2>3. ASSUME NEW d \in Streams PROVE RowsAt(d)'
    <3>1. CASE d = s
      BY <1>1, <1>2, <1>5, <2>2, <3>1 DEF RowsAt
    <3>2. CASE d # s
      BY <1>1, <2>2, <3>2 DEF RowsInv, RowsAt, AheadAt
    <3> QED BY <3>1, <3>2
  <2> QED BY <2>1, <2>3 DEF RowsInv
<1>7. [Rowwise!Next]_Rowwise!absvars
  <2> DEFINE Outcome(P) == [d \in Streams |->
               IF P[d] \in {"ended", "failed", "dropped"} THEN P[d] ELSE "open"]
  <2>1. Outcome(pc') = Outcome(pc) /\ Outcome(pc)[s] = "open"
    BY <1>1 DEF Domains
  <2>2. CASE rows = 0
    <3>1. q \o t = q
      BY <1>2, <1>4, <2>2, NoneAdded
    <3>2. delivered' = delivered
      BY <1>1, <3>1 DEF RowsInv, q
    <3> QED BY <2>1, <3>2 DEF Rowwise!absvars
  <2>3. CASE rows # 0
    <3>1. rows \in 1..Rows[s] /\ Len(delivered[s]) + rows <= Rows[s]
      BY <1>2, <2>3 DEF q
    <3>2. delivered' = [delivered EXCEPT
                          ![s] = delivered[s] \o [i \in 1..rows |-> Len(delivered[s]) + i]]
      BY <1>1, <1>3 DEF q
    <3>3. Rowwise!Deliver(s)
      BY <2>1, <3>1, <3>2 DEF Rowwise!Deliver
    <3> QED BY <3>3 DEF Rowwise!Next
  <2> QED BY <2>2, <2>3
<1> QED BY <1>6, <1>7 DEF Shown

(* Nothing has been delivered. *)
LEMMA RowsInit == Init => RowsInv /\ Rowwise!Init
<1> SUFFICES ASSUME Init PROVE RowsInv /\ Rowwise!Init
  OBVIOUS
<1>1. RowsInv
  BY DEF Init, RowsInv, RowsAt
<1>2. Rowwise!Init
  BY DEF Init, Rowwise!Init
<1> QED BY <1>1, <1>2

(* Every step is one of RowStream, or none. *)
LEMMA RowsStep == ReadInv /\ RowsInv /\ [Next]_vars => Shown
<1> SUFFICES ASSUME ReadInv, RowsInv, [Next]_vars PROVE Shown
  OBVIOUS
<1>1. Domains
  BY DEF ReadInv
<1>2. ASSUME NEW s \in Streams,
             \/ Consumer(s) \/ Server(s) \/ Timeout(s) \/ Wake(s) \/ AcquirePermit(s)
             \/ Decode(s)
      PROVE  Shown
  BY <1>1, <1>2, RpcShown, AskShown, ResponseShown, PreparedShown, AcceptShown
     DEF Consumer, Server, Decode
<1>3. CASE OrphanEnds \/ Tick \/ UNCHANGED vars
  <2>1. UNCHANGED <<pc, response, current, offset, delivered>>
    BY <1>3 DEF OrphanEnds, Tick, vars, rowVars, waitVars
  <2> QED BY <2>1 DEF Shown, RowsInv, RowsAt, AheadAt, Rowwise!absvars
<1> QED BY <1>2, <1>3 DEF Next

(* The accepted offset is the number of rows handed out, and the RPC never is
   anywhere else than after them and the response in hand. *)
THEOREM OffsetsAreTrue == Spec => []RowsInv
<1>1. RowsInv /\ ReadInv /\ [Next]_vars => RowsInv'
  BY RowsStep DEF Shown
<1> QED BY <1>1, RowsInit, ReadInvariance, PTL DEF Spec

(* A partition hands out the rows of its stream, each once and in order,
   through whatever failures, timeouts, retries and empty responses, and ends
   normally only after the last of them. *)
THEOREM DeliversExactlyOnce == Spec => ImplementsRowStream
<1>1. Init => Rowwise!Init
  BY RowsInit
<1>2. ReadInv /\ RowsInv /\ [Next]_vars => [Rowwise!Next]_Rowwise!absvars
  BY RowsStep DEF Shown
<1> QED BY <1>1, <1>2, ReadInvariance, OffsetsAreTrue, PTL
        DEF Spec, ImplementsRowStream, Rowwise!Spec
=============================================================================

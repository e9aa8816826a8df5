----------------------------- MODULE RowPayload -----------------------------
(***************************************************************************)
(* The checked decoding of one ReadRows response                           *)
(* (silk-chiffon-input-bigquery, src/decode/): the protobuf envelope, the  *)
(* compression of the whole response or of the Arrow buffers in it, and    *)
(* the Arrow message.  A response is trusted in nothing: it is refused, or *)
(* is known not to need more memory than was admitted for it.              *)
(*                                                                         *)
(* A response is a record of what it declares and of what is in it;        *)
(* lengths are numbers of bytes, schemas are values.                       *)
(***************************************************************************)
EXTENDS Integers, Sequences, Functions, SequencesExt

CONSTANTS Limit,      \* DecodeLimit
          Canonical,  \* SessionSchema: what the session declared
          Absent,     \* an optional field that is not set
          Avro        \* a schema or rows in Avro

ASSUME RowPayloadAssumption == Limit \in Nat \ {0}

Sums(lengths) == FoldLeft(+, 0, lengths)

-----------------------------------------------------------------------------
(* ReadSessionSpec::new: compression is asked for of the buffers (wire) or of
   the response, not of both.  Faulty variant: of both. *)
AskBoth(c) == TRUE
Askable(c) == c.wire = "none" \/ c.response = "none"

-----------------------------------------------------------------------------
(* The envelope: SerializedRows::from_response                                *)

(* SessionSchema::from_serialized: one schema message without a body, of what
   BigQuery's types become, not nested too deeply. *)
MaxDepth == 16
SchemaValid(schema) ==
  schema.framed /\ schema.types = "known" /\ schema.depth <= MaxDepth

(* The schema may be repeated, but only as it was. *)
SchemaRepeated(r) == r.schema # Absent =>
  r.schema # Avro /\ SchemaValid(r.schema) /\ r.schema = Canonical

(* validate_compression_state: -1 and 0 say that this response is not
   compressed after all. *)
CompressionValid(codec, r) ==
  r.declared # Absent =>
    /\ codec = "lz4" /\ r.declared >= -1
    /\ r.declared > 0 => r.rows # Absent /\ r.declared <= Limit

Compressed(r) == r.declared # Absent /\ r.declared > 0

(* Before rows changed places their count stood beside them; it may still. *)
CountsAgree(r) == r.rows.count \in {0, r.count}

EnvelopeValid(codec, r) ==
  /\ r.count >= 0 /\ SchemaRepeated(r) /\ CompressionValid(codec, r)
  /\ r.rows = Absent => r.count = 0
  /\ r.rows # Absent => /\ r.rows.message # Avro
                        /\ CountsAgree(r) /\ r.rows.bytes <= Limit

WithoutRows(r) == r.rows = Absent

Serialized(r) == IF r.rows = Absent THEN 0 ELSE r.rows.bytes

-----------------------------------------------------------------------------
(* The Arrow message                                                          *)

(* parse_encapsulated: one whole message and nothing after it. *)
Framed(m) == m.framed /\ m.bytes <= Limit

(* validate_native_buffer: what a buffer of a compressed body decodes to.  The
   frames of LZ4 are tried, as Arrow would grow beyond what they declare. *)
BufferValid(m, b) ==
  /\ b.declared <= Limit
  /\ m.codec = "lz4" => b.decoded = b.declared
DecodedLength(m, b) == IF m.codec = "none" THEN b.bytes ELSE b.declared
BuffersBytes(m) ==
  Sums([i \in DOMAIN m.buffers |-> DecodedLength(m, m.buffers[i])])
BuffersValid(m) ==
  /\ m.codec # "none" => \A b \in Range(m.buffers) : BufferValid(m, b)
  /\ BuffersBytes(m) <= Limit

(* memory_upper_bound: the payload, and what it decompresses to in the one or
   the other way.  Faulty variant: in the one way only. *)
AdditionalOfResponse(r) == IF Compressed(r) THEN r.declared ELSE 0
Additional(r) ==
  IF Compressed(r) THEN r.declared
  ELSE IF r.rows.message.codec = "none" THEN 0 ELSE BuffersBytes(r.rows.message)
UpperBound(r) == IF r.rows = Absent THEN 0 ELSE r.rows.bytes + Additional(r)

(* A response that is compressed as a whole cannot be looked into yet. *)
BoundKnown(r) == ~Compressed(r) =>
  LET m == r.rows.message
  IN Framed(m) /\ m.header = "batch" /\ (m.codec # "none" => BuffersValid(m))

(* decompress_raw_lz4, decode_ipc: the rows are as many as declared, of the
   schema of the session. *)
Decodes(r) ==
  LET m == r.rows.message
  IN /\ Compressed(r) => m.bytes = r.declared
     /\ Framed(m) /\ m.header = "batch" /\ BuffersValid(m)
     /\ m.schema = Canonical /\ m.rows = r.count

(* What Arrow's decoder makes of compressed buffers. *)
DecodedBytes(m) == Sums([i \in DOMAIN m.buffers |-> m.buffers[i].decoded])

(* What is in memory while the rows are decoded: the payload, what it is
   decompressed to, and the buffers that are not part of either. *)
Peak(r) ==
  LET m == r.rows.message
  IN r.rows.bytes + (IF Compressed(r) THEN r.declared ELSE 0)
     + (IF m.codec = "none" THEN 0 ELSE DecodedBytes(m))
=============================================================================

----------------------------- MODULE ArrowInput -----------------------------
(***************************************************************************)
(* Arrow IPC inputs (silk-chiffon-format-arrow): the detection of a file   *)
(* or a stream (src/detection.rs), its inspection (src/inspection/mod.rs), *)
(* and the table provider of a group of them (src/input/mod.rs), scanned   *)
(* by several partitions.                                                  *)
(*                                                                         *)
(* A file ends with a footer that lists its blocks; partitions take byte   *)
(* ranges of it and share its layout while any of them has it open.  A     *)
(* stream is a sequence of messages and is read whole.  Every read goes to *)
(* the store, which may fail it; a consumer may drop its partition at any  *)
(* time.  Objects do not change meanwhile.  Lengths are numbers of bytes.  *)
(***************************************************************************)
EXTENDS Integers, Collections

CONSTANTS Groups,       \* the file input groups tried: sequences of objects
          Targets,      \* target_partitions
          PoolSize,     \* DataFusion's memory pool
          SafetyBytes,  \* MAX_IPC_SAFETY_BYTES
          SampleRows,   \* SAMPLE_ROWS
          DetectBytes,  \* MAX_DETECTION_READ
          ChunkEnds,    \* bound on where the chunks of a stream end, but its own end
          Unknown       \* no statistics, no inspection, no number

End(block) == block.at + block.len

(* An object has bytes, and its blocks are counted in them; those of a stream
   follow one another.  What a block decodes to has a size of its own.  A group
   has objects of one variant (FileInputGroup). *)
IsObject(o) ==
  /\ o.variant \in {"file", "stream"} /\ o.size \in Nat \ {0} /\ o.footer \in Nat
  /\ o.dictionaries \in Seq(Range(o.dictionaries)) /\ o.batches \in Seq(Range(o.batches))
  /\ \A b \in Range(o.dictionaries) : b.at \in Nat /\ b.len \in Nat /\ b.memory \in Nat
  /\ \A b \in Range(o.batches) :
       b.at \in Nat /\ b.len \in Nat \ {0} /\ b.memory \in Nat /\ b.rows \in Nat
  /\ o.variant = "stream" => \A i, j \in DOMAIN o.batches :
       i < j => End(o.batches[i]) <= o.batches[j].at

ASSUME ArrowInputAssumption ==
  /\ Targets \subseteq Nat \ {0}
  /\ {PoolSize, SafetyBytes, SampleRows, DetectBytes} \subseteq Nat
  /\ \A g \in Groups :
       /\ g # <<>> /\ g \in Seq(Range(g))
       /\ \A o \in Range(g) : IsObject(o) /\ o.variant = g[1].variant

VARIABLES
  group,     \* the objects of the group, in order
  target,    \* the partitions the engine aims at
  stage,     \* "schema", "sample", "plan", "scan", or "failed"
  inspected, \* Inspector: what was found out of an object of the group
  stats,     \* the statistics of the provider
  work,      \* work[p]: the files, or ranges of files, left to partition p
  reader,    \* reader[p]: where the stream of the partition stands
  at,        \* at[p]: dictionaries, batches and bytes read of its file
  out,       \* out[p]: the batches it has delivered: <<file, index>>
  reserved,  \* reserved[p]: its reader's reservation
  leases,    \* leases[f]: the partitions that hold the cell of file f
  cell       \* cell[f]: LayoutCell: "empty", "filling" or "ready"

plannedVars == <<group, target, stage, inspected, stats>>
streamVars == <<work, reader, at, out, reserved>>
layoutVars == <<leases, cell>>
arrowVars == <<plannedVars, streamVars, layoutVars>>

Partitions == DOMAIN reader
Files == DOMAIN group

-----------------------------------------------------------------------------
(* Detection                                                                  *)

(* What the first bytes announce: a message of some length, after a
   continuation marker or, in old streams, without. *)
HeaderLength(o) == IF o.marked THEN 8 ELSE 4

DetectStream(o) ==
  LET otherwise == IF o.marked THEN "malformed" ELSE "mismatch"
  IN IF o.size < 4 THEN "mismatch"
     ELSE IF o.size < HeaderLength(o) THEN "malformed"
     ELSE IF o.first = 0 \/ HeaderLength(o) + o.first > o.size THEN otherwise
     ELSE IF o.first > DetectBytes THEN IF o.marked THEN "stream" ELSE "mismatch"
     ELSE IF o.begins = "schema" THEN "stream" ELSE otherwise

(* A magic at the end alone proves nothing: a stream may end with anything. *)
Detect(o) ==
  IF o.size >= 12 /\ o.magic
  THEN IF o.trailer THEN "file" ELSE "malformed"
  ELSE DetectStream(o)

-----------------------------------------------------------------------------
(* Blocks                                                                     *)

TrailerBytes == 10
Blocks(o) == Range(o.dictionaries) \cup Range(o.batches)

(* read_file_layout: what its footer must say to be believed. *)
TrailerRead(o) == /\ o.size >= TrailerBytes
                  /\ o.footer + TrailerBytes <= o.size
                  /\ o.footer <= SafetyBytes
LayoutValid(o) == \A b \in Blocks(o) : End(b) <= o.size

(* Messages of a stream are read one by one by those who look at it only. *)
Oversized(b) == b.len > SafetyBytes
Truncated(o) == \E b \in Blocks(o) : End(b) > o.size

RowsOf(batches) == SumOf([i \in DOMAIN batches |-> batches[i].rows])
BytesOf(blocks) == SumOf([i \in DOMAIN blocks |-> blocks[i].len])

(* schemas_match_ignoring_metadata. *)
SameSchema(expected, o) == expected = o.schema

-----------------------------------------------------------------------------
(* Inspection: rows are counted only when asked for.                          *)

Inspectable(o, count) ==
  IF o.variant = "file"
  THEN TrailerRead(o) /\ LayoutValid(o) /\ (count => ~\E b \in Blocks(o) : Oversized(b))
  ELSE count => ~Truncated(o) /\ ~\E b \in Blocks(o) : Oversized(b)

Inspected(o, count) ==
  [schema |-> o.schema, variant |-> o.variant,
   rows |-> IF count THEN RowsOf(o.batches) ELSE Unknown,
   batches |-> IF count \/ o.variant = "file" THEN Len(o.batches) ELSE Unknown]

Inspect(f, count) ==
  /\ stage = "schema" /\ inspected = Unknown
  /\ Inspectable(group[f], count)
  /\ inspected' = [file |-> f, found |-> Inspected(group[f], count)]
  /\ UNCHANGED <<group, target, stage, stats, streamVars, layoutVars>>

-----------------------------------------------------------------------------
(* The provider                                                               *)

(* FileInputGroup::representative: the largest, and of these the first. *)
LargestFile(S) == CHOOSE f \in S : \A g \in S \ {f} :
  group[f].size > group[g].size \/ (group[f].size = group[g].size /\ f < g)
Representative == LargestFile(Files)
Sampled == group[Representative]
Schema == Sampled.schema

GoOn(next) == stage' = next /\ UNCHANGED <<group, target, inspected, streamVars, layoutVars>>

(* Only the representative is read; its layout is let go of again. *)
SchemaReadable(o) ==
  o.variant = "file" => TrailerRead(o) /\ LayoutValid(o) /\ o.footer <= PoolSize

InferSchema ==
  /\ stage = "schema"
  /\ \/ SchemaReadable(Sampled) /\ GoOn("sample")
     \/ GoOn("failed")
  /\ UNCHANGED stats

(* The batches that are sampled: those before the one that reaches the target,
   and this one. *)
SampledBatches(o) ==
  LET Reached(n) == RowsOf(SubSeq(o.batches, 1, n)) >= SampleRows
      enough == {n \in 1..Len(o.batches) : Reached(n)}
  IN IF enough = {} THEN o.batches ELSE SubSeq(o.batches, 1, Min(enough))

(* Whether sampling saw the end of the object. *)
ReachedEnd(o) ==
  LET n == Len(SampledBatches(o))
  IN RowsOf(SampledBatches(o)) < SampleRows \/
     IF o.variant = "file" THEN n = Len(o.batches)
     ELSE n > 0 /\ End(o.batches[n]) = o.size

Represented(o) ==
  LET n == Len(SampledBatches(o))
  IN IF o.variant = "file" THEN BytesOf(o.dictionaries) + BytesOf(SampledBatches(o))
     ELSE IF ReachedEnd(o) THEN o.size ELSE End(o.batches[n])

(* A total is exact when everything that is selected was sampled.  Faulty
   variant: when the sample is the whole of the object. *)
ExactOfSample == ReachedEnd(Sampled)
Exact == Len(group) = 1 /\ ReachedEnd(Sampled)

DivCeil(n, d) == (n + d - 1) \div d
Selected == SumOf([f \in Files |-> group[f].size])
Estimate(sample) ==
  IF Exact THEN sample ELSE DivCeil(sample * Selected, Represented(Sampled))

Statistics ==
  LET rows == RowsOf(SampledBatches(Sampled))
      large == \E b \in Range(Sampled.dictionaries) \cup Range(SampledBatches(Sampled)) :
                  Oversized(b)
  IN IF large \/ rows = 0 THEN Unknown ELSE [exact |-> Exact, rows |-> Estimate(rows)]

(* Sampling ends at the first block that is too large to be read. *)
UntilOversized(blocks) ==
  LET large == {n \in DOMAIN blocks : Oversized(blocks[n])}
  IN IF large = {} THEN blocks ELSE SubSeq(blocks, 1, Min(large) - 1)
SampleDictionaries == UntilOversized(Sampled.dictionaries)
SampleBatches ==
  IF SampleDictionaries # Sampled.dictionaries THEN <<>>
  ELSE UntilOversized(SampledBatches(Sampled))

(* The largest reservation of sampling: a dictionary, or a block and what it
   decodes to, with the layout that is held meanwhile. *)
SampleFits ==
  (IF Sampled.variant = "file" THEN Sampled.footer ELSE 0) +
  Max({0} \cup {b.len : b \in Range(SampleDictionaries)}
          \cup {b.len + b.memory : b \in Range(SampleBatches)}) <= PoolSize

(* A stream that ends inside a message is an error when sampling gets there,
   before it is seen that the message is too large. *)
SampleReadable == Sampled.variant = "stream" =>
  \A n \in DOMAIN SampledBatches(Sampled) :
    n <= Len(SampleBatches) + 1 => End(SampledBatches(Sampled)[n]) <= Sampled.size

SampleStatistics ==
  /\ stage = "sample"
  /\ \/ /\ SampleFits /\ SampleReadable
        /\ stats' = Statistics /\ GoOn("plan")
     \/ stats' = stats /\ GoOn("failed")

-----------------------------------------------------------------------------
(* The plan: how the files are divided among the partitions                   *)

Whole(f) == [file |-> f, lo |-> 0, hi |-> group[f].size]
OneGroup == << [f \in Files |-> Whole(f)] >>

(* FileGroupPartitioner: the bytes of all files in even shares. *)
Before(f) == SumOf([g \in 1..(f - 1) |-> group[g].size])
Share == DivCeil(Selected, target)
Piece(f, p) == [file |-> f, lo |-> Max({0, (p - 1) * Share - Before(f)}),
                hi |-> Min({group[f].size, p * Share - Before(f)})]
EvenRanges ==
  [p \in 1..DivCeil(Selected, Share) |->
     Filter([f \in Files |-> Piece(f, p)], LAMBDA w : w.lo < w.hi)]

(* repartition_whole_files: of the files that are left the largest goes where
   the least is. *)
Least(loads) == CHOOSE p \in DOMAIN loads : \A q \in DOMAIN loads \ {p} :
  \/ loads[p].bytes < loads[q].bytes
  \/ loads[p].bytes = loads[q].bytes /\ Len(loads[p].files) < Len(loads[q].files)
  \/ loads[p].bytes = loads[q].bytes /\ Len(loads[p].files) = Len(loads[q].files) /\ p < q
Loaded(loads, f) == [loads EXCEPT ![Least(loads)] =
  [bytes |-> @.bytes + group[f].size, files |-> Append(@.files, Whole(f))]]
NoLoads == [p \in 1..Min({target, Len(group)}) |-> [bytes |-> 0, files |-> <<>>]]
Load(given) ==
  LET f == LargestFile(given.left)
  IN [left |-> given.left \ {f}, loads |-> Loaded(given.loads, f)]
WholeFiles ==
  LET given[n \in 0..Len(group)] ==
        IF n = 0 THEN [left |-> Files, loads |-> NoLoads] ELSE Load(given[n - 1])
      full == given[Len(group)].loads
  IN [p \in DOMAIN full |-> full[p].files]

Repartitioned ==
  IF Sampled.variant = "file" THEN EvenRanges
  ELSE IF Min({target, Len(group)}) <= 1 THEN OneGroup ELSE WholeFiles

AtStart == [dictionaries |-> 0, batches |-> 0, bytes |-> 0]
NobodyReads == [f \in Files |-> {}]

(* The engine asks for more partitions or does not. *)
Plan ==
  /\ stage = "plan" /\ stage' = "scan"
  /\ work' \in {OneGroup, Repartitioned}
  /\ LET P == DOMAIN work' IN
       /\ reader' = [p \in P |-> "next"] /\ at' = [p \in P |-> AtStart]
       /\ out' = [p \in P |-> <<>>] /\ reserved' = [p \in P |-> 0]
  /\ leases' = NobodyReads /\ cell' = [f \in Files |-> "empty"]
  /\ UNCHANGED <<group, target, inspected, stats>>

-----------------------------------------------------------------------------
(* The streams of the partitions                                              *)

Task(p) == Head(work[p])
File(p) == Task(p).file
Source(p) == group[File(p)]
Goto(p, where) == reader' = [reader EXCEPT ![p] = where]

(* A layout keeps the footer's bytes reserved from before it is read. *)
LayoutBytes(f) == IF cell[f] = "empty" THEN 0 ELSE group[f].footer
PoolUsed == SumOf(reserved) + SumOf([f \in Files |-> LayoutBytes(f)])
Fits(p, size) == PoolUsed - reserved[p] + size <= PoolSize
Resize(p, size) == reserved' = [reserved EXCEPT ![p] = size]

(* The cell goes away with its last lease, and what it held with it.  One that
   was being filled is free to be filled by another who waits.  Faulty variant:
   it goes with any lease. *)
AfterAnyLease(p, f) == [cell EXCEPT ![f] = "empty"]
AfterLease(p, f) ==
  [cell EXCEPT ![f] = IF leases[f] = {p} \/ reader[p] = "filling" THEN "empty" ELSE @]
LetGo(p) ==
  IF work[p] # <<>> /\ p \in leases[File(p)]
  THEN leases' = [leases EXCEPT ![File(p)] = @ \ {p}] /\ cell' = AfterLease(p, File(p))
  ELSE UNCHANGED layoutVars

(* The stream of the file is dropped, by its end, an error or the consumer. *)
Leave(p, where) == Goto(p, where) /\ Resize(p, 0) /\ LetGo(p)
FailStream(p) == Leave(p, "failed") /\ UNCHANGED <<work, at, out>>

(* IpcFileOpener::open. *)
Open(p) ==
  /\ reader[p] = "next" /\ work[p] # <<>>
  /\ at' = [at EXCEPT ![p] = AtStart]
  /\ IF Source(p).variant = "file"
     THEN Goto(p, "layout") /\ leases' = [leases EXCEPT ![File(p)] = @ \cup {p}]
     ELSE Goto(p, "stream") /\ UNCHANGED leases
  /\ UNCHANGED <<work, out, reserved, cell>>
OpenFails(p) == reader[p] = "next" /\ work[p] # <<>> /\ FailStream(p)

(* get_or_try_init: whoever finds the cell empty reads the layout, the others
   wait for it. *)
FillLayout(p) ==
  /\ reader[p] = "layout" /\ cell[File(p)] = "empty"
  /\ IF TrailerRead(Source(p)) /\ PoolUsed + Source(p).footer <= PoolSize
     THEN /\ cell' = [cell EXCEPT ![File(p)] = "filling"] /\ Goto(p, "filling")
          /\ UNCHANGED <<work, at, out, reserved, leases>>
     ELSE FailStream(p)
LayoutFilled(p) ==
  /\ reader[p] = "filling" /\ LayoutValid(Source(p)) /\ Goto(p, "layout")
  /\ cell' = [cell EXCEPT ![File(p)] = "ready"]
  /\ UNCHANGED <<work, at, out, reserved, leases>>
LayoutFails(p) == reader[p] = "filling" /\ FailStream(p)

LayoutReady(p) ==
  /\ reader[p] = "layout" /\ cell[File(p)] = "ready"
  /\ IF SameSchema(Schema, Source(p))
     THEN Goto(p, "file") /\ UNCHANGED <<work, at, out, reserved, layoutVars>>
     ELSE FailStream(p)

(* The dictionaries are kept beside the block at hand, and are reserved by the
   length of their blocks, although it is what these decode to that is kept.
   Faulty variant: the block is reserved as if they were not there. *)
DictionaryBytes(p) == BytesOf(SubSeq(Source(p).dictionaries, 1, at[p].dictionaries))
NeededAlone(p, size) == size
Needed(p, size) == DictionaryBytes(p) + size

ReadDictionary(p) ==
  /\ reader[p] = "file" /\ at[p].dictionaries < Len(Source(p).dictionaries)
  /\ LET size == DictionaryBytes(p) + Source(p).dictionaries[at[p].dictionaries + 1].len
     IN IF Fits(p, size)
        THEN /\ Resize(p, size) /\ at' = [at EXCEPT ![p].dictionaries = @ + 1]
             /\ UNCHANGED <<work, reader, out, layoutVars>>
        ELSE FailStream(p)

(* A block belongs to the range in which it begins.  Faulty variant: a block
   at the end of a range belongs to it too. *)
InRangeInclusive(w, b) == b.at >= w.lo /\ b.at <= w.hi
InRange(w, b) == b.at >= w.lo /\ b.at < w.hi
Mine(p) == Filter(
  [i \in DOMAIN Source(p).batches |-> [index |-> i, block |-> Source(p).batches[i]]],
  LAMBDA e : InRange(Task(p), e.block))

AllDictionaries(p) == at[p].dictionaries = Len(Source(p).dictionaries)

(* The block is reserved before it is read, *)
NextBlock(p) == Mine(p)[at[p].batches + 1]
ReadBlock(p) ==
  /\ reader[p] = "file" /\ AllDictionaries(p) /\ at[p].batches < Len(Mine(p))
  /\ IF Fits(p, Needed(p, NextBlock(p).block.len))
     THEN /\ Resize(p, Needed(p, NextBlock(p).block.len)) /\ Goto(p, "block")
          /\ UNCHANGED <<work, at, out, layoutVars>>
     ELSE FailStream(p)

(* and the batch, in its place, after it was decoded. *)
DecodeBlock(p) ==
  /\ reader[p] = "block"
  /\ IF Fits(p, Needed(p, NextBlock(p).block.memory))
     THEN /\ Resize(p, Needed(p, NextBlock(p).block.memory)) /\ Goto(p, "yielded")
          /\ at' = [at EXCEPT ![p].batches = @ + 1]
          /\ out' = [out EXCEPT ![p] = Append(@, <<File(p), NextBlock(p).index>>)]
          /\ UNCHANGED <<work, layoutVars>>
     ELSE FailStream(p)

EndFile(p) ==
  /\ reader[p] = "file" /\ AllDictionaries(p) /\ at[p].batches = Len(Mine(p))
  /\ Leave(p, "next")
  /\ work' = [work EXCEPT ![p] = Tail(@)] /\ UNCHANGED <<at, out>>

(* A stream comes in chunks that end anywhere; the batches that end in the
   chunk are decoded one after another, and the rest of it is kept. *)
NextBatch(p) == Source(p).batches[at[p].batches + 1]
HasMore(p) == at[p].batches < Len(Source(p).batches)

ReadChunk(p) ==
  /\ reader[p] = "stream" /\ at[p].bytes < Source(p).size
  /\ \E end \in ((ChunkEnds \cup {Source(p).size}) \cap (at[p].bytes + 1)..Source(p).size) :
       LET size == end - at[p].bytes
       IN IF Fits(p, size) /\ SameSchema(Schema, Source(p))
          THEN /\ Resize(p, size) /\ at' = [at EXCEPT ![p].bytes = end]
               /\ Goto(p, "chunk") /\ UNCHANGED <<work, out, layoutVars>>
          ELSE FailStream(p)

DecodeChunk(p) ==
  /\ reader[p] = "chunk"
  /\ IF HasMore(p) /\ End(NextBatch(p)) <= at[p].bytes
     THEN IF Fits(p, reserved[p] + NextBatch(p).memory)
          THEN /\ Resize(p, reserved[p] + NextBatch(p).memory) /\ Goto(p, "yielded")
               /\ out' = [out EXCEPT ![p] = Append(@, <<File(p), at[p].batches + 1>>)]
               /\ at' = [at EXCEPT ![p].batches = @ + 1]
               /\ UNCHANGED <<work, layoutVars>>
          ELSE FailStream(p)
     ELSE Goto(p, "stream") /\ Resize(p, 0) /\ UNCHANGED <<work, at, out, layoutVars>>

(* StreamDecoder::finish. *)
EndStream(p) ==
  /\ reader[p] = "stream" /\ at[p].bytes = Source(p).size
  /\ IF Truncated(Source(p)) THEN FailStream(p)
     ELSE /\ Leave(p, "next")
          /\ work' = [work EXCEPT ![p] = Tail(@)] /\ UNCHANGED <<at, out>>

(* The consumer asks for more: the batch is gone, the dictionaries or the rest
   of the chunk stay. *)
Polled(p) ==
  /\ reader[p] = "yielded"
  /\ IF Source(p).variant = "file"
     THEN Goto(p, "file") /\ Resize(p, DictionaryBytes(p))
     ELSE /\ Goto(p, "chunk")
          /\ Resize(p, at[p].bytes - End(Source(p).batches[at[p].batches]))
  /\ UNCHANGED <<work, at, out, layoutVars>>

Exhausted(p) ==
  /\ reader[p] = "next" /\ work[p] = <<>> /\ Goto(p, "done")
  /\ UNCHANGED <<work, at, out, reserved, layoutVars>>

(* The store fails, or the object cannot be decoded. *)
ReadFails(p) == reader[p] \in {"file", "block", "stream"} /\ FailStream(p)

Ended == {"done", "failed", "dropped"}
Drop(p) ==
  /\ reader[p] \notin Ended
  /\ Leave(p, "dropped") /\ UNCHANGED <<work, at, out>>

-----------------------------------------------------------------------------
(* The specification                                                          *)

ArrowInit ==
  /\ group \in {g \in Groups : \A o \in Range(g) : o.variant = Detect(o)}
  /\ target \in Targets /\ stage = "schema" /\ inspected = Unknown /\ stats = Unknown
  /\ work = <<>> /\ reader = <<>> /\ at = <<>> /\ out = <<>> /\ reserved = <<>>
  /\ leases = NobodyReads /\ cell = [f \in Files |-> "empty"]

Step(p) ==
  \/ Open(p) \/ OpenFails(p) \/ FillLayout(p) \/ LayoutFilled(p) \/ LayoutFails(p)
  \/ LayoutReady(p) \/ ReadDictionary(p) \/ ReadBlock(p) \/ DecodeBlock(p) \/ EndFile(p)
  \/ ReadChunk(p) \/ DecodeChunk(p) \/ EndStream(p) \/ Polled(p) \/ Exhausted(p)
  \/ ReadFails(p)

(* The scan is over, or was never planned.  Nothing else may stop it: a partition
   that waits for ever for a layout that nobody reads is a deadlock. *)
Over ==
  /\ stage = "failed" \/ (stage = "scan" /\ \A p \in Partitions : reader[p] \in Ended)
  /\ UNCHANGED arrowVars

ArrowNext ==
  \/ \E f \in Files, count \in BOOLEAN : Inspect(f, count)
  \/ InferSchema \/ SampleStatistics \/ Plan
  \/ \E p \in Partitions : (Step(p) \/ Drop(p)) /\ UNCHANGED plannedVars
  \/ Over

ArrowSpec == ArrowInit /\ [][ArrowNext]_arrowVars

-----------------------------------------------------------------------------
(* Properties *)

AllBatches == UNION {{f} \X DOMAIN group[f].batches : f \in Files}
Delivered == UNION {Range(out[p]) : p \in Partitions}
RowsDelivered ==
  SumOf([d \in Delivered |-> group[d[1]].batches[d[2]].rows])

(* No two partitions deliver the same batch, and none does twice, however the
   files were divided; when all of them are done they have delivered every
   batch, and as many rows as the statistics that call themselves exact and an
   inspection of a single object told before. *)
ScanExact ==
  /\ SumOf([p \in Partitions |-> Len(out[p])]) = Cardinality(Delivered)
  /\ stage = "scan" /\ (\A p \in Partitions : reader[p] = "done") =>
       /\ Delivered = AllBatches
       /\ stats # Unknown => (stats.exact => stats.rows = RowsDelivered)
       /\ inspected # Unknown /\ Len(group) = 1 =>
            inspected.found.rows \in {Unknown, RowsDelivered}

(* What the reader of a file has in memory: its decoded dictionaries, a block
   from before it is read until its batch is given up, and this batch; and that
   of a stream: its batch and what is left of the chunk it came in. *)
ByLayout(p) ==
  reader[p] \in {"file", "block", "yielded"} /\ Source(p).variant = "file"
Latest(p) == Source(p).batches[Last(out[p])[2]]
DictionaryMemory(p) ==
  SumOf([i \in 1..at[p].dictionaries |-> Source(p).dictionaries[i].memory])
InMemory(p) ==
  CASE ByLayout(p) /\ reader[p] = "file" -> DictionaryMemory(p)
    [] ByLayout(p) /\ reader[p] = "block" ->
         DictionaryMemory(p) + NextBlock(p).block.len
    [] ByLayout(p) /\ reader[p] = "yielded" ->
         DictionaryMemory(p) + Latest(p).len + Latest(p).memory
    [] reader[p] = "yielded" /\ Source(p).variant = "stream" ->
         at[p].bytes - End(Source(p).batches[at[p].batches]) + Latest(p).memory
    [] OTHER -> 0

(* What of this the code does not reserve: by how much the dictionaries grew when
   they were decoded, and the block that lives beside its batch. *)
Growth(b) == Max({0, b.memory - b.len})
Unreserved(p) ==
  IF ByLayout(p)
  THEN SumOf([i \in 1..at[p].dictionaries |-> Growth(Source(p).dictionaries[i])]) +
       (IF reader[p] = "yielded" THEN Latest(p).len ELSE 0)
  ELSE 0

(* The pool is not overdrawn, and of what the partitions have in memory nothing
   else escapes it, however they share it; the layout that one of them reads by
   is there, reserved, until the last has let go of it; and between two files,
   or when it has ended, a partition keeps nothing, whether its stream ended,
   failed or was dropped. *)
MemoryIsGivenBack ==
  /\ PoolUsed <= PoolSize
  /\ \A p \in Partitions :
       /\ InMemory(p) <= reserved[p] + Unreserved(p)
       /\ ByLayout(p) => cell[File(p)] = "ready"
       /\ reader[p] \in Ended \cup {"next"} => reserved[p] = 0
  /\ \A f \in Files : leases[f] = {} => cell[f] = "empty"
  /\ (\A p \in Partitions : reader[p] \in Ended) => PoolUsed = 0
=============================================================================

# A verification of silk-chiffon

silk-chiffon is a command-line program that converts columnar data between
Arrow IPC, Parquet and Vortex files, reads BigQuery tables, and writes to local
paths, Google Cloud Storage or S3. This directory holds TLA+ models of the parts
of it in which something can go wrong between two steps: concurrent uploads,
the sinks of the three formats, the reconnecting BigQuery reader, the partitions
that read an Arrow file together, the partitioned outputs of a command and the
memory pool they share; and of the decisions that a command takes from its
arguments before the first row moves, because they come from several places and
have to agree. TLC checks the models on small instances; TLAPS proves what is
listed under "Proofs" for every instance.

Paths below are relative to the repository; `storage/` stands for
`crates/silk-chiffon-storage/src/`, and so on; `commands/` for
`src/commands/`.

## Inventory

A transform command runs as one process with one Tokio runtime. DataFusion
drives the query; everything else is the repository's.

| part | state it keeps | operations | hard behaviour |
|---|---|---|---|
| `storage/upload.rs` `ObjectUpload` | worker task, chunk channel, terminal oneshot, cancellation token, adaptive buffer, part tasks, shared permits | `write`, `blocking_writer`, `complete`, `abort`, drop; `run_upload` | cancellation against completion, parts in flight, failures that took effect, permits shared by all uploads |
| `storage/upload/task.rs` `ObjectUploadTask` | producer task and upload | `finish`, `abort`, drop | joins two failures, cancels in the right order |
| `format-parquet/args.rs`, `output/mod.rs`, `output/pipeline/config.rs`, `encoding.rs` | the settings of the command, of a file, of a leaf column, of a row group | `bind`, `Sink::create`, `resolve_*_for_leaf`, `configure_leaf_encoding` | flags that name the same column in several ways; settings that wait for an analysis |
| `format-parquet/output/` | sink, three stages joined by bounded queues, tasks on two dedicated runtimes | `write_batch`, `finish`, `abort`, drop; `run_pipeline`, `settle_pipeline_tasks` | concurrent encoding in order, one stage failing while others wait, cancelled stages that return `Ok` |
| `format-arrow/output/`, `format-vortex/output.rs` | writer task and upload | the same sink interface | a closed channel looks like the end of the data |
| `format-arrow/input/`, `detection.rs`, `inspection/` | layouts of the files being read, leases on them, reservations | `detect`, `inspect`, `create_provider`, `repartitioned`, `open_file`, `open_stream` | partitions that share a layout and are dropped while it is read, ranges that cut blocks, statistics that call themselves exact |
| `input-bigquery/read_stream.rs` | accepted offset, RPC, reservation, failure streak, budget | `next_batch`, `open`, `decode`, `accept`, `retry_or_fail`, drop | resumption at the offset, timeouts and late answers, permits and memory across a drop |
| `input-bigquery/decode/` | the session's schema | `prepare`, `decode`, `memory_upper_bound` | sizes that the payload only declares, two compressions |
| `input-bigquery/retry/` | deadlines and streaks | `plan_retry`, `full_jitter`, `failure_streak_after_progress`, `classify_read_rows` | arithmetic at the deadline, what a status means |
| `input-bigquery/provider.rs`, `snapshot.rs`, `session.rs`, `execution.rs`, `pushdown.rs` | pinned snapshot, discovered schema and location, one lease per scan | pin, create with retry, validate, plan a scan, partitions | a table that changes meanwhile, the clock of the server against that of the process, answers that are not what was asked for |
| `commands/transform.rs`, `core/pipeline/` | options, budget, plan, spill directory, report | `run`, `prepare`, `begin_execution` | an order that is claimed in a file, budgets that are shares of shares, what is left after a failure |
| `registration.rs`, `lib.rs`, `core/format/`, `core/service_*` | formats, services and schemes of the program | assembly, `detect`, `bind_transform` | two indices built at two places, spellings |
| `core/file_input/`, `commands/transform/file_input.rs` | groups of input files, store views | grouping, schema and metadata of a group, provider | metadata that arrives in any order, files replaced meanwhile |
| `commands/transform/file_output/` | run stream, open sinks, file numbers, completed outputs | `write_exact`, `write_sort_single`, `write_nosort_multi`, `write_nosort_evict`, `abort_all`; keys and targets | partitions that return after eviction, failures with sinks open, values that look like separators |
| `storage/session.rs`, `registry.rs`, `backend.rs`, `pattern.rs`, `local.rs` | registered backends, store cache, claims of output targets | `create_session`, `lookup_input`, `expand_input_pattern`, `prepare_output_target` | tasks that ask for one store at once, one object under many spellings, a claim that is never given back, listings while others create and delete |
| `core/pipeline/memory_pool.rs` | reserved bytes, number of spillable consumers | register, unregister, grow, shrink, try_grow | a share that changes with the number of consumers |
| the rest | fixed once a command runs, or readers of a byte format | | pure computation |

How they meet: a program is assembled from formats, backends and services, and
a command line is bound to them. `transform` groups its inputs, makes a provider
for each group, plans, and binds the output. `file_output` cuts the stream of the
plan into runs of one partition, renders a target for each partition, claims it
in the storage session, opens a sink of a format on it, and writes record
batches; the sink couples its writer (for Parquet, the pipeline) to an
`ObjectUpload` through an `ObjectUploadTask`, which shares one cancellation token
between both; all uploads of a command share the part permits of one
`ObjectUploadContext`. The batches come from a DataFusion stream, whose scans may
be partitions of Arrow files, or BigQuery partitions that share the decode
permits of `CommandResources`, all of them, with sorts and joins, in one memory
pool.

What makes each part correct:

* an upload makes the whole object visible at once, or nothing; it publishes
  only when told to; it gives back permits, leaves no part running, no multipart
  upload open unless a cleanup failed, and its memory is bounded;
* a sink writes every row once and in order, reports success only for what is
  published, and leaves no task behind;
* a BigQuery partition hands out every row once, in order, through any number of
  reconnections, within its budget and within the memory it reserved;
* the scans of a BigQuery table read one version of it, the one its schema was
  discovered from, and answer their query exactly with what was pushed down;
* the partitions of an Arrow scan deliver every batch once, and statistics that
  call themselves exact are;
* a command puts every row into an output of its partition, reports only what is
  durable, and never replaces an output of its own;
* a program that starts reaches everything that was registered, `detect` and
  `transform` agree on every object, a provider reads what its operand names,
  the order a file records is that of its rows, and the budgets of a command fit
  into each other;
* what a user says of a column of a Parquet file holds in every row group;
* a session has one client for each store, made by the backend that claims its
  scheme, gives an object out for writing at most once, and expands a pattern to
  exactly what matches;
* the pool keeps the reserve for those that cannot spill.

`PROJECT.json` lists the components one by one, with those that are not
modelled, and every hazard with its line.

## Modules

| module | models | state and actions |
|---|---|---|
| `AtomicObject` | what an upload promises | accepted stream, decision, object, outcome |
| `ObjectUpload` | `storage/upload.rs` | one variable per field of `ObjectUpload`, `UploadWorker` and `MultipartState`; one action per `await` of `run_upload` and what it calls, per call of the owner, and per answer of the store |
| `UploadTask` | `storage/upload/task.rs` and the sink interface | the owner's calls, the producer, the token they share, and the upload as an abstract one |
| `ParquetSink` | `format-parquet/output/` | extends `UploadTask`: the queues, what each stage holds, the tasks on the two runtimes, the pipeline's settlement |
| `StreamSinks` | `format-arrow/output/`, `format-vortex/output.rs` | extends `UploadTask`: the channel, the writer and what it has coalesced, the object so far |
| `Sinks` | a sink of any format | composes the three; `format` chooses the producer |
| `ParquetSettings` | `format-parquet/args.rs`, `output/mod.rs`, `output/pipeline/config.rs`, `encoding.rs`, `analysis.rs` | the settings of a command, `OutputConfig`, the policy of a leaf and the properties of a row group, as functions of each other; `Bind` and `Create` accept or refuse |
| `RowStream` | what a partition's stream promises | delivered rows and the end |
| `ReadRows` | `input-bigquery/read_stream.rs`, `retry/` | `pc[s]` is the await `next_batch` stands in; the server's answers, the clock and the consumer are actions |
| `RowPayload` | `input-bigquery/decode/` | the checks of a response in their order, its memory before and after |
| `RetryPolicy` | `input-bigquery/retry/mod.rs`, `status_detail.rs` | what a failure says about a retry |
| `TableScan` | `input-bigquery/provider.rs`, `snapshot.rs`, `session.rs`, `execution.rs`, `pushdown.rs` | `pc[c]` is where the provider (`Table`) or a scan stands; `lease` what it keeps of its session; the clock, the servers, the query engine and the writers of the table are actions |
| `ArrowInput` | `format-arrow/input/`, `detection.rs`, `inspection/`, `core/exact_file_provider.rs` | `work[p]` and `reader[p]` are the files left to a partition and the await its stream stands in; `cell` and `leases` are `ActiveFileLayouts` |
| `Catalog` | `core/format/`, `core/service_*`, `registration.rs` | the assembly of the program step by step, detection, and the dispatch of `detect` and `inspect` |
| `FileInputs` | `core/file_input/`, `core/schema.rs`, `commands/transform/file_input.rs` | operands, groups, the group that is being made with the state of each of its files, providers, store views |
| `Budgets` | `system_memory.rs`, `commands/transform/sort_memory.rs`, the budgets of `transform.rs` | pure functions |
| `TransformCommand` | `commands/transform.rs`, `core/pipeline/`, the arguments in `lib.rs` | extends `Catalog`, `FileInputs` and `Budgets`: `phase` is where `run` stands; budget, plan, spill directory, sink, report |
| `MemoryPool` | `core/pipeline/memory_pool.rs` | `PoolState` and the reservations |
| `PartitionedOutput` | `file_output/mod.rs`, the claim in `storage/session.rs` | `pc` is the await the strategy stands in; `open` is the ordered map of sinks, `store` what each target shows |
| `PartitionRuns` | `file_output/partition_runs.rs` | the batch that is cut and the run that is grown; the key of a partition |
| `OutputTargets` | `file_output/target_template.rs` | pure functions: what a template accepts and renders |
| `FileOutput` | `file_output/` as a whole | extends `PartitionedOutput`, `PartitionRuns` and `OutputTargets`: a run that is cut is the run that is written, and a key and a target are known by the first row that has them |
| `StorageSession` | `storage/session.rs`, `registry.rs`, `backend.rs`, `retry.rs`, `location.rs`, `pattern.rs`, `local.rs` | `pc[t]` is the await or lock a task stands at; `cache` and `lock` are `object_store_cache`, `claimed` is `claimed_output_targets`; other processes change `objects` |
| `...Proofs` | proofs about `ObjectUpload`, `ReadRows`, `Sinks`, `TableScan`, `FileOutput` with all it extends; `InputProofs` is about `StorageSession` and `ArrowInput`; `CommandProofs` is about `TransformCommand` with all it extends, and `MemoryPool` | |
| `Collections` | filters of sequences and sums, for the modules of the command | |
| `DataLemmas` | what several proofs need: induction, sums, sequences cut into batches, filters, members of a set in their order | |
| `MC...` | instances for TLC; `MCSinks` and `MCCommand` also compose | |

Components are composed three times. `MCSinks` binds and creates a Parquet
output with `ParquetSettings`, and what its columns need decides whether the
pipeline of `ParquetSink` analyses. `MCCommand` runs the operators of a plan in
the `MemoryPool` of the size and reserve that the command's budget chose, while
the command runs. `FileOutput` feeds `PartitionedOutput` with the runs
that `PartitionRuns` cuts from batches, and gives its sinks the targets that the
templates of `OutputTargets` render for the run's values.

`ObjectUpload` implements `AtomicObject` (`ImplementsAtomicObject`: the accepted
stream is `sent`, the decision is what the worker acts on), `ReadRows`
implements `RowStream`, and `Sinks` implements `AtomicObject` again, for
rows and in every format: so what a user of an upload may rely on is what the
user of a sink may rely on.

Abstractions shared by the modules. A byte, a row and a run of rows are their
numbers in their stream, so that loss, repetition and reordering show. Stores,
servers, clocks and codecs may fail any call; a failed call of a store may have
taken effect. A future that is dropped ends at its last await: an action for the
drop releases what its values release. Between two awaits a task is one action,
because nothing it shares with another task is changed in between except under a
lock or in an atomic. Definitions named in a comment as a faulty variant are
not part of a specification: each is a plausible wrong version of the
definition after it, and the property named for it in `PROJECT.json` fails when
it takes that place.

Notes on single modules.

* `ReadRows`: the server sends only the compression it was asked for, or none,
  and a compressed buffer may hold more than it declares. What a decode needs is
  reserved before it starts; the copy of the payload that `memory_upper_bound`
  makes for a moment while a response is prepared is in no reservation.
* `ObjectUpload`: a permit that is acquired (`AcquirePermit`) is held while the token
  is looked at for the last time (`WatchToken`), which may give it back, and then
  while its part is started (`SpawnPart`).
* `StreamSinks`: the Arrow writer is a blocking thread. It looks at the token
  (`ArrowCheck`) before each write, and the owner may set it before the write.
  A future of `finish` that is dropped while the writer is past its last look
  therefore leaves a footer, of an object that is never published;
  `NoFooterAfterAbort` is about an abort or a drop of the sink.
* `ArrowInput`: objects do not change while they are read. A stream's chunks end
  at `ChunkEnds` or with the object. What the code reserves is not all that it
  has in memory, and `MemoryIsGivenBack` names the difference (`Unreserved`): a
  dictionary is reserved by the length of its block, whatever it decodes to, and a
  block is alive beside the batch decoded from it when the reservation has been
  changed to that of the batch. Two more things are in no reservation and not in
  the model: the bytes of a stream's message that spans chunks, which the decoder
  keeps, and what an allocator holds of a chunk beyond what is left to decode.
* `PartitionedOutput`, `PartitionRuns`: a value is its text. Where the code compares
  arrays instead of texts (`partition_runs.rs:20`, `file_output/mod.rs:387`), two
  values with one text, such as NaNs of different bits, would begin a new run, and
  with it a refusal of sort-single, that is not in the model.
* `TableScan`: a filter is the rows it keeps, on both sides. That the engine and the
  service order NaN differently in comparisons of `Float64` (`pushdown.rs:206`) is a
  property of values that is not in the model.
* `MemoryPool`: that a spillable consumer registers after another has taken memory, or
  has called `grow`, is remembered (`late`, `grown`) for the properties to speak of.
* `StorageSession`: a bare path is what its components are, without "." and empty ones
  (`Components`), as the standard library has them.
* `FileInputs`: objects may be replaced at any time (`Rewrite`); what a provider
  claims is only checked against files that were not.

## Runs

| run | shows | bounds |
|---|---|---|
| `upload_one` | one upload publishes everything or nothing, in parts of exactly the part size, nothing starts after a cancellation, the report matches the store, `AtomicObject` | six bytes, chunks of 1 to 3, parts of 2, two permits: single put, multipart with and without a tail, a chunk over a part boundary |
| `upload_live` | permits conserved, every upload settles | two uploads, of two parts and of one, and two permits: the first can hold one while it waits for the other, and each can hold what the other waits for |
| `upload_abort` | finding 1 | three bytes |
| `sink` | order, pieces of the right size, statistics of the right rows, nothing left, errors kept, no footer after an abort, `AtomicObject`, settlement; flags hold, filters follow dictionaries | six rows in batches of three for groups and record batches of two, so that a batch is cut after a group and inside one; two encodings at once, queues of one; three schemas, flat, nested, and with a dotted name, under 300 settings that combine flags for the whole file, a column, a struct and a leaf; analyses on both sides of the thresholds |
| `pool_late` | finding 3 | two spillable consumers and another, a pool of five |
| `read_live` | memory covered, every poll answered, `RowStream` | two partitions, of two rows in one response or two, and of none; one permit, a pool for one decode and a half; payloads plain, compressed on the wire or as a whole, that declare too little, exactly, or zero, or break the request; failures of each class, with and without `RetryInfo`; a clock that reaches the idle timeout, the window and the session's deadline |
| `read_drop` | finding 2 | the same with one kind of payload |
| `table_scan` | snapshot in the past, one version for all sessions, conservative deadlines, the rows and columns of the query, every open ends | a table of two columns that changes once, at any time; a scan with each kind of projection and filter; two streams; two probes, two attempts in a window; snapshots pinned and given, locations given and not |
| `arrow_input` | every batch once, exact statistics exact, the pool not overdrawn and given back, no partition waits for ever | files of two batches and one, sound, with a cut trailer, a block beyond the end or a long footer, of two schemas; streams with and without continuation markers, whole and cut; groups of one and two; one and two partitions, so that a range ends at a block and a layout is shared; a pool that does not hold everything |
| `command` | registrations reached, detection agrees, groups exact, claims hold, recorded order true, budgets fit, reserve granted | registries of up to four formats with clashes in names, aliases, extensions and arguments, ten lists of services, three of backends; six objects, some named against their contents; three families of command lines; machines with and without cgroup limits; a pool of three consumers |
| `output` | rows reach the files of their values, targets keep their shape, durable reports, no output replaced | all four strategies: up to five runs from batches of up to four rows; values with separators, an escape, a null, an empty text, a dot, a NaN; five templates that are accepted and three that may be refused, as paths and as URLs; caches of one and two, earlier objects |
| `session` | one client for each store, no object given out twice, exact expansion | two tasks, one change by another process in any store; six registrations, four of them in conflict or with a mapper that leads astray; thirteen requests: one object under five spellings, another bucket, bare paths with and without parents, patterns of each kind |

Why the bounds are enough. The control of every part distinguishes none, one and
more (parts, groups, responses, sinks, partitions), a boundary met exactly or
crossed, and whether a shared resource is free; each instance holds more than one
of each shared thing's users, or more work than the limit admits. Larger numbers
add length but no new branch. For the decisions (settings, registries, budgets,
keys, targets) each instance lists inputs that take every branch of the code and
every pair of sources that can disagree. Bounds on bytes, rows, time, failures,
rewrites and runs are constants of the modules and stand in the guards of the
environment's actions: a bound stops the environment, never the program.
`table_scan` has one scan: scans share nothing but what the provider has fixed
before the first of them, and `SameTable` and `ScanAnswers` compare a scan with
that.

Deadlock is not checked where the system stops for good: an upload that
settled, a partition that ended, a command that is over. The liveness properties
say that it does not stop earlier. `arrow_input` is checked for deadlock: its
scans may only stop where all partitions have ended.

## Fairness

`ObjectUpload`, `ReadRows`, `TableScan` and `Sinks` state fairness. Weak fairness is
given to each task (the runtime polls a task that was woken), to the answers of
the store and to running tasks (calls end: `object_store` clients have request
timeouts, and encoding a finite row group ends), and to the clock of `ReadRows`.
`Sinks` needs less: one weak fairness for all that goes on by itself, since every task
that runs does so finitely often; `MCSinks` gives it from the start of the
pipeline on. The clock of `TableScan` is strongly fair, since a failure at once
and a delay of nothing, which jitter may choose, can alternate at one instant;
past `MaxTime` it moves only for a wait that is under way.
No fairness is given to the owner of an upload or a sink, to the consumer of a
stream, to the server's choice between answers, or to failures. In
`ReadRows` the acquisition of a decode permit is strongly fair: Tokio's semaphore
serves its waiters in turn, so a permit that is free again and again reaches each
of them. `ObjectUpload` needs no strong fairness: an upload starts finitely many
parts, and the bound is its stream's.

## Findings

1. `upload_abort`: `ActiveUpload::abort` (`storage/upload.rs:170`) cancels first
   and sends the terminal action second; a worker that sees the token in between
   cleans up and is gone, and `abort` reports "upload task stopped before abort"
   for an abort that succeeded.
2. `read_drop`: the decode permit and the memory reservation belong to the future
   of `decode` (`input-bigquery/read_stream.rs:349`); a partition dropped there
   gives both back while its blocking decode runs, so more decodes run than the
   "command-shared decode limit" of `README.md:94`.
3. `pool_late`: `try_grow` (`core/pipeline/memory_pool.rs:125`) compares each
   spillable reservation with a share, and never their sum with the region. A
   consumer that grew while it was alone keeps what it has when another registers
   and gets a share too, out of the reserve that `docs/CLI.md:96` and
   `memory_pool.rs:16` say is guaranteed. `ReserveGranted` holds where they
   register before any of them takes memory.

### Differences

Other places where words and code differ, met while reading; no run is about
them.

* The doc of `BloomFilterPolicy` (`format-parquet/args.rs:562`, `:571`) gives
  `column_enabled` the highest precedence, over `column_disabled`;
  `resolve_bloom_for_leaf` (`output/pipeline/config.rs:399`) looks at
  `column_disabled` first, so that `--parquet-bloom-column-off user` wins over
  `--parquet-bloom-column user.name:ndv=7`. `ResolveBloom` has it as the code, and
  `FlagsHold` does not speak of such leaves.
* A `--parquet-bloom-column` flag for a struct, without `ndv`, is resolved to an
  enabled filter for each leaf below it (`config.rs:424`), but the analysis that
  would size it is asked of the struct and dropped (`analysis.rs:74`): the leaves
  get no filter, against the help of the flag (`args.rs:709`, "This matches all leaf
  columns under that path"), and where no other column is analysed the write fails.
* "Use this flag to override automatic selection globally"
  (`format-parquet/args.rs:943`, of `--parquet-encoding`): with writer version 2 the
  automatic encodings are set per column after it and win (`output/mod.rs:527`);
  `EncodingOf` has it so.
* "Floats use always mode" (`format-parquet/args.rs`, help of
  `--parquet-dictionary-all-off`): floats are not eligible and get no dictionary
  (`output/pipeline/encoding.rs:274`).
* `--parquet-column-encoding user.address` names a leaf only, where
  `--parquet-bloom-column user.address` names all leaves below.
* A column whose name has a dot cannot be addressed by the flags that split
  paths, and is not analysed; `Nameable` leaves it out of the properties.
* The average size of a text column with Arrow's dictionary type is not found, and
  32 bytes are taken for it.

## Proofs

See `PROJECT.json`, "theorems".

* `ObjectUploadProofs`: for every set of uploads, part size, number of permits and
  chunk size. `UploadInv` joins what is true of each upload by itself (`Local`)
  and the count of the permits (`PermitInv`: free, of requests in flight, of
  workers that hold one). None of the checked invariants is inductive: the
  memory bound needs to know where the worker stands when a buffer is full and
  which loop called the write, the permits that a worker which holds one goes on
  to start a part or gives it back, the quiet store that the requests are
  joined before the multipart upload is settled, the report that a failure never
  follows a publication unreported. From it `TypesHold`, `MemoryIsBounded`,
  `PermitsAreConserved`, `StoreIsQuiet`, `ReportsMatch` and `NoPartIsStarted`.
  `PartsHaveTheirSize` needs besides that a part which is being made is full unless
  its upload is being completed, and never empty (`FullAt`).
  `BytesAreKept` adds where the bytes are: while the worker may still publish,
  the parts handed to the store, the two buffers, the current write and the
  chunks of the channel are together the stream, in order (`Whole`), and which of
  them are empty where (`Emptied`). With that every step is a step of
  `AtomicObject` or a stutter (`Refines`). Assumed are the named
  assumptions on the constants, which each run evaluates.

* `SinkProofs`, for Parquet, Arrow and Vortex outputs with streams, batches, row
  groups and queues of any size. `SinkInv` says where the owner, the upload
  and the report may stand (`OwnerInv`) and, for the format, where its tasks
  stand and what they hold. For Parquet (`PlaceInv`, `JobInv`, `FlowInv`) the
  accepted rows are followed through the queues: every row group in the file, at
  the writer, between the stages, encoding or just made is the one of its place,
  counted from the first in the file; what the ingestion builds, has left of a
  batch and finds in its channel goes on where these end, up to the last row
  accepted; and a stage that ended well has passed on everything (`EndInv`).
  What an error or a cancellation drops lies behind all that can still be written, so
  only the parts of `FlowInv` whose stages still run are claimed. For Arrow and
  Vortex the same is said of the batch that is gathered and the channel. When the
  upload completes, the file has all accepted rows. The theorems are
  `RowsAreFollowed` (the invariant), `RowsAreInOrder`, `AnalysisIsOfItsGroup`,
  `PipelineLeavesNothing`, `AbortLeavesNoFooter`, `ErrorsAreKept`, and
  `SinkIsAtomic`: every step of a sink is a step of `AtomicObject` or a stutter.
  Assumed are `TaskAssumption`, `SinkAssumption` and `StreamAssumption`: batches
  are not empty and limits are positive.

  `FlagsReachColumns` and `FiltersFollowDictionaries` are about the settings of a Parquet output
  (`SettingsSpec`). That the options are those of an accepted command is a small
  invariant (`SettingsInv`); the rest is about data. The columns of a schema are unfolded,
  one level of their types at a time, and every entry stays below its column (`Placed`,
  `LeavesPlaced`). A leaf whose joined path no other has gets the policy made for it
  (`PolicyIs`, where policies are kept by joined path); the flag by which a policy
  is found in the options is the one on the command line (`FlagIs`, `LastFlagIs`); and the column that an
  analysis looks up by name is the leaf's own (`ColumnOf`), which fails for two columns
  of one name. So `ParquetSettingsAssumption` says of a schema that names are different, as
  DataFusion ensures for a plan, that it is no deeper than `MaxDepth`, and that fields and
  flags are sequences.

* `ReadRowsProofs`, `ReadInvariance` and `ResourcesAreCovered`: for any partitions,
  server, pool and number of decode permits. What a partition has reserved is
  what its place calls for (`CoveredAt`), the free permits and the partitions that
  decode are all the permits, and the pool holds the sum. That the bound which is
  reserved covers the decode is a lemma for each way to compress a response
  (`BoundCovers`). `OffsetsAreTrue` and `DeliversExactlyOnce`: the offset is the
  number of rows delivered, and what an RPC has sent is at most the response in hand
  ahead of it (`RowsInv`), so that every step, a retry, a resumption after a lost
  response or a repeated one included, is a step of `RowStream` or a stutter.
  Assumed are `ReadRowsAssumption` and `RepliesAssumption`, which says what the
  server may send: that it compresses only what it was asked to, and that codecs
  other than LZ4 decode to no more than was declared.

* `CommandProofs`, `RoutesUnique`, `DetectionIsOne`, `ClaimsAreTrue`, `GroupsAreExact`,
  `BudgetsAreKept` and `OrderIsKept`: for any parts of a program, any command lines, objects and machines,
  any number of operands, groups and stores, and any changes to the objects
  meanwhile. The invariant is built in layers, each using those before it.
  `CatalogInv` says which checks the parts have passed at the present stage; a program
  that is assembled passed all, so no folded name or extension is there twice and no
  scheme has two owners (`RoutesUnique`), and the filter that makes the bindings keeps
  the order of priorities, so the first binding that recognises an object is the one
  the registry finds (`DetectionIsOne`). `ChosenInv`: nothing is done before a
  command is chosen, and its line was accepted. `InputsInv` is the strengthening
  for `ClaimsHold`, which is not inductive. It says that what was found, each
  group and what is being built are in the order of their URLs, with the files of a
  group before those still to identify; that what was read of a file holds of it
  while nothing was replaced; that results of reads are each there once and say where
  they belong, so that there is one for each file as soon as there are as many
  as files (`AllFinished`); and that a view, once registered, can only be
  registered for the same store again. `GatherInv` is what `GroupsExact` needs before the
  providers are made: the operands left are the end of the command's, and for those done
  the files of the providers, of the group being built, of the other groups and of the objects
  still to identify are as many as the objects named, every named object among them and, once
  identified, with files of its format and variant. The sums of lengths and of
  cardinalities then leave no room for a file twice. `BudgetInv`: the budget is that of a
  machine, and a reservation was made for the partitions that share the pool; as many
  sorters as there are in the plan, one for each partition of each sort (`Sorters`),
  keep it, which may be more than the partitions, since the code does not count them: the bound
  of `BudgetsFit` grows with them. `OrderInv`:
  plan and sink have the orders of the command line; that the full order is
  the partitions' columns followed by the user's (`FullSortIs`) makes
  `OrderlyInPartition` follow. `WorkInv`, for an order of the input that is preserved:
  the operands left, the objects found, the groups, the one being built and the
  providers are together at most one. Assumed are `CatalogAssumption`,
  `InputsAssumption`, `BudgetsAssumption` and `CommandAssumption`: registrations and
  orders are sequences, sizes are natural numbers, URLs are totally ordered and
  name objects, an exact reference names at most one, and a machine has a processor
  and no more memory available than in all. One assumption is about the kernel: a control
  group whose limit can be read can be asked what it uses too. Where only the limit could be
  read, `available` would come from the whole machine and could exceed it, and the last part
  of `BudgetsFit` would not hold.
  `CountersAddUp` and `ReserveIsGranted`: the counters of
  `PoolState` are the sums of the reservations and the number of consumers that
  can spill, and no consumer that can spill holds more than an equal share of what the
  reserve leaves, where all that can spill were registered before any of them took memory
  and take it with `try_grow` (`~late`, `~grown`). Then, and only then (finding 3), the
  reserve is there for the others. Assumed is `PoolAssumption`.

* `TableScanProofs`, `TypesHold`, `OneVersion`, `PinsThePast`,
  `RetriesFitTheWindow`, `LeasesOutlastDeadlines` and `ScansAnswer`: the sessions of a query agree
  on a version, and its deadlines err on the safe side, for every history of the
  table, every answer of the servers, any number of scans and all durations. The argument: a Date made
  while the request was under way is off by less than `Second`, and the whole
  round trip is subtracted as well, so the snapshot lies before the request was
  sent, hence before any session is asked for and before any later change.
  What a session reads at such a snapshot does not depend on when the session
  is made (`VersionIsPinned`), and no change that comes later alters it
  (`CommitKeeps`). `SameTable` is not inductive: `IInv` adds that
  attempts began in the past (`TimeInv`), that a snapshot is there and older than
  the attempt before a session is asked for (`PinInv`), that no scan has begun
  while the snapshot may still change, and that a lease is of the version at the
  snapshot (`VersionInv`). `AttemptInv` bounds the probe's counter.
  `ScansAnswer` adds what a scan has (`ScanInv`): its lease serves its query
  (`Serves`), the partitions executed are different, and a row came out once if
  its stream is among them (`Counted`). A finished scan then has the rows that
  the argument and the pushed filters keep, the engine applies the others, and
  each column of the plan is one of those selected (`ColumnsInPlace`).
  Assumed is `TableScanAssumption`: the durations are natural numbers, a
  snapshot written in the table reference lies in the past, and schemas are
  sequences of columns.

* `InputProofs`, `GivenOutOnce`, `OneClient` and `ExpansionIsExact`: for any number of
  tasks, any requests, registrations and changes to the stores. `NeverTwice`
  follows from an invariant in both directions (`ClaimInv`): who is past the claim has its
  object in the set, every claimed object has a winner, and two winners have two
  objects; it needs that a handle never changes once its task is past routing.
  `ClientOfStore` needs the lock: a task that makes a client holds it and
  its store has no entry (`LockInv`), entries and clients correspond one
  to one (`CacheInv`), and the routing index finds the only backend of a scheme
  because no scheme is registered twice (`OwnerIsAlone`).
  `ExpansionExact` needs that a listing from the literal prefix misses no match: whatever
  path the pieces of a glob match begins with the names of the segments before the
  first glob, and is longer (`MatchedPrefix`, `MatchIsListed`). That is
  an induction over the pieces, along the recursion of `Matches`, whose solution is
  shown to exist (`FromExists`). With it, `FindInv` says that what a task has gathered are
  the matches among what was returned, each once (`IsGathered`), and that its route stays
  that of its glob; `UrlLeadsBack` is that spelling and decoding a path are inverse.
  Assumed are `NoneAssumption` (`None` is neither a task nor a retry configuration),
  `RegistrationAssumption` (a registration is a sequence of backends),
  `SpellingAssumption`, `UniverseAssumption` (paths of objects have no empty name) and
  `PatternAssumption` (a pattern has a store, and its literal segments are names).

* `InputProofs`, `MemoryReturned`: for any groups of Arrow objects, any division of
  them, any pool and any place where chunks end. `MemoryIsGivenBack` is not inductive. The
  invariant (`ArrowInv`) says what a reader has reserved at each place it can stand at
  (`MayRead`: the dictionaries read so far and the block, or what is left of the chunk
  and the batch), and that one who is with no file has reserved nothing
  (`ReadersFit`). What it has in memory is more by the growth of dictionaries and the
  block beside its batch, and by no more. The leases of a file are exactly those who read by its layout
  (`LeasesFit`); a cell without leases is empty, one that is being filled has one who
  fills it, and whoever reads blocks has it ready (`CellsFit`). The pool is then the sum
  of both (`PoolIs`), which a step changes by what it reserves, empties or fills. When
  all have ended there are no leases, so no layouts, so nothing in the pool. That a plan
  has ranges of files of the group only is an induction over the files that
  `WholeFiles` gives out (`GivenFits`). Assumed is `ArrowInputAssumption`: a group has
  an object, all of one variant; blocks are counted in bytes, a batch has some, and the
  batches of a stream follow one another.

* `InputProofs`, `ScanIsComplete`: from the same assumption. A plan divides the batches
  of its group (`Divides`, `PlanDivides`): the pieces of even shares cover each byte of
  each file once (`PiecesCover`, `PiecesApart`), so each batch begins in one piece, and
  whole files are given out once, by induction along `WholeFiles`. `ScanInv` adds to
  `ArrowInv` where each batch is meanwhile (`ScanFits`): no batch belongs to two tasks
  that are left (`TasksApart`); none was delivered twice (`OffersApart`); a delivered
  one is of no task left but the one at hand, of which it was read (`OffersGone`); what
  was read was delivered (`ReadOffered`); and what was not delivered is still to be read
  by some partition (`NothingLost`). Every step of a partition leaves all of this
  alone, starts a task, delivers a batch or ends a task (`IsMove`, `StepMoves`). That a
  task which ends has read everything needs what a layout is worth: one that is ready
  was validated (`CellsValid`), and a reader who waits for the next chunk of a stream has
  decoded the batches before it (`ReadersStand`). `IsTold` carries exact statistics and
  the rows of an inspection to the end of the scan, for which a sample that came to the
  end of a whole object is all of it (`SampleIsWhole`).

* `PartitionedOutputProofs`, `TypesHold`, `OpenIsBounded`, `NothingReplaced` and
  `ReportsAreDurable`: for any partitions, templates that several partitions may
  share, limits and streams, and any failure. The invariant says what each
  place of the writer has in hand (`PlaceInv`), that a file number was used for
  a run (`CountInv`, from which the bound of the numbers), that there is room
  before a sink is opened (`RoomInv`; the bound alone is not inductive), and that
  the open sinks have targets of their own, claimed and with nothing of the
  command at them (`TargetInv`). `ReportInv` adds that a reported target is
  shown as reported and no open sink can replace it, and that an object which is
  shown and not reported is the only one and ends the command. Assumed is
  `OutputAssumption`: a command has partitions, an exact one has one, and its stream
  and its limit are bounded by `MaxRuns` and positive.

* `PartitionedOutputProofs`, `RowsArrive`: for any rows, streams, templates and commands
  of `FileOutput`, the composition of the writer, the runs and the templates.
  `RowsReachTheirFiles` speaks of the end only. The invariant says, at each step, what
  each module has done so far and how they agree. `RunsInv`: the runs that were emitted
  and the ranges that were not tile the batches read (`Tiles`, `CutAt`), each run is of
  equal rows (`IsRun`) and its values have the key that the writer saw. `FiledInv`: the
  reported outputs of a partition and then its open sink hold exactly its runs so far, in
  order (`Filed`). `HomeInv`: every output stands at the path of its key, and nothing is
  open at the end. At the end the runs of a key are a filter of runs that tile the input,
  so its rows are a filter of all rows (`FilterJoin`, `RunsPick`). That equal keys mean
  equal values, whatever separators the texts contain (`KeysTell`), is an induction over
  the columns: a length is told by its first character, so it cuts off the text of its
  column, and what follows is the key of the remaining columns. Assumed besides
  `OutputAssumption` is `RowsAssumption`: rows have a value for each column, a text is one
  value of a column, a column that `--by` names twice has one value, a stream consists of
  the rows, `/` is one of the characters that are escaped, templates were accepted, and
  the writer's keys and paths are those that the rows and the template give.

* `PartitionedOutputProofs`, `TargetsAreShaped`: from the same assumption. That an open sink
  belongs to one of the rows is in the invariant (`TypeInv`); the rest is about what a
  template renders. An object path is what its parts render to, one after another (`PathIs`),
  and decoding is undone part by part (`DecodedFlat`; `DecodedProtected` and `EachText`
  for one part): what was interpolated comes out as it was, and text as it is in the bare
  template, so a URL and a bare path agree (`BareIs`). The slashes of a sequence of texts
  are the sum over the texts (`SlashesFlat`), and the values that a careful template
  interpolates have none, so the segments are those of the template (`ShapeKept`). Segments in
  turn tell the path they were cut from (`SegmentsTell`). Where a separator lies between any
  two interpolations, two equal paths have the same texts at each part: by induction, they
  agree up to the next interpolation, and what follows the two values begins with text that
  has a slash while the values have none, so the values end together (`Meet`, `RestsMeet`,
  `PartsTell`). An escaped text tells its value, but for null and the empty text
  (`EscapedTells`, `TargetsTell`).

`DataLemmas` has what several of these need. Sums of reservations are the
cardinality of a set of cells, one for each unit reserved, so that one partition's
change is a change to a set. The pieces of a stream (`IsPiece`, `InPlace`), cut
at `Edge`, say which rows a row group or a batch holds by its place. The rules of the
library for induction are about operators, which the provers do not
instantiate; `LeastNumber` is about sets of numbers instead, and with it what
`FlattenSeq` makes of a sequence of pieces is proved for sequences of any length.
A filter (`Filter` of `Collections`) is such a sequence of pieces, of one element or
none; `FilterPicks` says which places it keeps and that it keeps their order.

What is checked by TLC only, and why. Liveness (`Settles` and the other `~>` and
`<>` properties): the prover handles neither fairness nor `ENABLED`. Every invariant
and every action property that a passing run checks is proved.

## Not modelled

Byte formats (Arrow IPC, Parquet pages, Vortex layouts, compression): a payload or a
file is the facts that the code asks of it. Parquet and Vortex inputs, whose
providers are their libraries', and the inspection of their footers, which is
rendering. gRPC, HTTP and credentials beyond success, failure and timeouts; the
text of arguments, of SQL and of reports; DataFusion, which plans, sorts and
merges in the models by succeeding or failing; the threads behind the runtimes.
`PROJECT.json` gives the reason for each component. Whether a failure of
`TableScan` may be retried is the environment's choice (`ReadRows` has the
classification); a filter is its column and the rows it keeps, not its text; the
validators of `StorageSession` are the built-in ones, names in it are spelled by
a table, and whether a local output's directories can be made is a free choice.

## Plan

What remains is liveness, for which there is no prover here, and the parts under "Not
modelled".

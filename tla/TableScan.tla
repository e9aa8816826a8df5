------------------------------ MODULE TableScan ------------------------------
(***************************************************************************)
(* One BigQuery table of a query (silk-chiffon-input-bigquery: provider.rs *)
(* with snapshot.rs, session.rs, execution.rs, pushdown.rs, retry/).  The  *)
(* provider pins a snapshot by the server's HTTP Date, discovers schema    *)
(* and location in a session of its own, and each scan the query engine    *)
(* plans, some at the same time, opens an execution session whose streams  *)
(* are the partitions of its plan.  How a partition is read is ReadRows.   *)
(*                                                                         *)
(* The engine, the clocks and the servers are external.  The table is      *)
(* changed by others while the query runs.  Neither clock goes back: the   *)
(* checks against one that does are left out.                              *)
(***************************************************************************)
EXTENDS Integers, FiniteSets, SequencesExt

CONSTANTS
  Table, Scans,      \* who opens sessions: the provider and its scans
  Versions,          \* Versions[i]: schema and rows of the table's i-th version
  Queries,           \* what the engine may ask of a scan: projection, filters
  Explicit,          \* the rows that row_restriction, an argument, keeps
  MaxTerms,          \* MAX_ROW_RESTRICTION_BYTES, as a number of filters
  References,        \* parsed inputs: snapshot and location, each optional
  Locations,         \* where the server may say a session is
  MaxStreams,        \* max_stream_count
  StreamLists,       \* the lists of streams the server may answer with
  Second,            \* HTTP_DATE_UNCERTAINTY, the granularity of Date
  ProbeAttempts,     \* SERVER_CLOCK_ATTEMPTS
  ProbeDelay,        \* SERVER_CLOCK_INITIAL_RETRY_DELAY
  Timeout,           \* request_timeout of both transports
  Window,            \* CREATE_READ_SESSION_RETRY_WINDOW
  Backoff,           \* the longest delay of BackoffPolicy
  ServerDelay,       \* the RetryInfo the server may attach to a status
  Lifetime,          \* GUARANTEED_SESSION_LIFETIME
  Margin,            \* SESSION_EXPIRY_SAFETY_MARGIN
  Epoch,             \* the server's clock when the command's is 0
  MaxTime,           \* bound on the clock, but for waits that are under way
  None               \* an absent option

(* A column of a schema: whether its type compares as the engine does. *)
Columns == [name : STRING, plain : BOOLEAN]

ASSUME TableScanAssumption ==
  /\ Table \notin Scans /\ IsFiniteSet(Scans)
  /\ Versions # <<>> /\ Versions \in Seq(ToSet(Versions))
  /\ \A i \in DOMAIN Versions : Versions[i].schema \in Seq(Columns)
  /\ None \notin Int
  /\ \A ref \in References : ref.snapshot # None => ref.snapshot \in Int /\ ref.snapshot < Epoch
  /\ StreamLists \subseteq Seq(STRING)
  /\ {MaxStreams, Second, ProbeAttempts, Timeout, Window, Lifetime} \subseteq Nat \ {0}
  /\ {MaxTerms, ProbeDelay, Backoff, ServerDelay, Margin, Epoch, MaxTime} \subseteq Nat

VARIABLES
  now,       \* the monotonic clock of the command
  commits,   \* when, on the server's clock, the table got its next versions
  reference, \* BigQueryReference
  snapshot,  \* the snapshot every session of the table asks for
  pc,        \* pc[c]: where the provider or a scan stands
  attempt,   \* attempt of pin_snapshot
  started,   \* started[c]: when the attempt under way began
  until,     \* until[c]: when the sleep is over
  opened,    \* opened[c]: RetryBudget::started of the session to open
  query,     \* query[s]: what scan s is asked
  lease,     \* lease[c]: the session, and what the server knows of it
  read,      \* read[s]: the partitions the engine has executed
  copies     \* copies[s][r]: how often row r came out of scan s

tableVars == <<commits, reference>>
pinVars   == <<snapshot, attempt>>
timerVars == <<started, until, opened>>
scanVars  == <<query, lease, read, copies>>
vars == <<now, tableVars, pinVars, pc, timerVars, scanVars>>

Callers == {Table} \cup Scans
AllRows == UNION {Versions[i].rows : i \in DOMAIN Versions}

------------------------------------------------------------------------------
(* The server *)

ServerTime(t) == Epoch + t

(* The version a session made at server time `at` reads at snapshot time t. *)
VersionAt(t, at) == 1 + Cardinality({i \in DOMAIN commits : commits[i] <= t /\ commits[i] <= at})

(* A Date header says a whole second that is less than one away. *)
Dates(t) == {d \in (t - Second + 1)..(t + Second - 1) : d % Second = 0}

------------------------------------------------------------------------------
(* Pure parts *)

(* snapshot_from_headers.  Faulty variant: the age of the answer counts for
   nothing. *)
SnapshotIgnoringAge(date, age) == date - Second
SnapshotFrom(date, age) == date - (Second + age)

(* pushdown::resolve_column: a column of the schema whose type the server
   compares as the engine does. *)
Resolves(schema, column) ==
  \E i \in DOMAIN schema : schema[i].name = column /\ schema[i].plain

(* pushdown::translate: with a column that resolves, and operators and
   literals that have an exact form. *)
HasForm(f) == f.exact
Translates(schema, f) == HasForm(f) /\ Resolves(schema, f.column)

(* supports_filters_pushdown: a filter reported exact is not evaluated again
   by the engine.  Faulty variant: the type of the column is not looked at. *)
PushesAnyType(schema, filters) == {f \in filters : f.exact}
Pushed(schema, filters) == {f \in filters : Translates(schema, f)}

(* row_restriction of the filters the engine passes on, besides Explicit. *)
Restriction(schema, filters) == {f \in filters : Translates(schema, f)}

(* projection_request: the columns there are, the schema of the plan, and the
   names to select; no name selects every column. *)
InBounds(schema, q) ==
  q.projection = None \/ ToSet(q.projection) \subseteq DOMAIN schema

OutputSchema(schema, q) ==
  IF q.projection = None THEN schema
  ELSE [i \in DOMAIN q.projection |-> schema[q.projection[i]]]

SelectedFields(schema, q) ==
  IF q.projection = None THEN {}
  ELSE IF q.projection = <<>> THEN {schema[i].name : i \in DOMAIN schema \cap {1}}
  ELSE {schema[q.projection[i]].name : i \in DOMAIN q.projection}

(* The columns a session with these selected fields returns, and the schema
   validate_execution_schema expects. *)
Selection(schema, fields) ==
  FlattenSeq([i \in DOMAIN schema |->
    IF fields = {} \/ schema[i].name \in fields THEN <<schema[i]>> ELSE <<>>])

(* batch_projection: where each output column is among the returned ones.
   Faulty variant: the columns are taken as they come. *)
AsReturned(returned, output) == [i \in DOMAIN output |-> i]
BatchProjection(returned, output) ==
  [i \in DOMAIN output |-> CHOOSE j \in DOMAIN returned : returned[j] = output[i]]

(* RetryBudget::plan_retry for a budget without a session deadline. *)
LatestStart(c) == opened[c] + Window - Timeout

PlannedDelays(c, minimum) ==
  LET available == LatestStart(c) - now
      proposed  == 0..Backoff
  IN  IF available < 0 THEN {}
      ELSE IF minimum = None
      THEN {IF d < available THEN d ELSE available : d \in proposed}
      ELSE {d \in {IF d > minimum THEN d ELSE minimum : d \in proposed} : d <= available}

------------------------------------------------------------------------------
(* Initial states *)

NoLease == [version |-> 0, schema |-> <<>>, location |-> None, deadline |-> 0,
            expires |-> 0, streams |-> <<>>, parts |-> <<>>]

Init ==
  /\ now = 0 /\ commits = <<>>
  /\ reference \in References
  /\ snapshot = None /\ attempt = 1
  /\ pc = [c \in Callers |-> "start"]
  /\ started = [c \in Callers |-> 0]
  /\ until = [c \in Callers |-> 0]
  /\ opened = [c \in Callers |-> 0]
  /\ query = [s \in Scans |-> None]
  /\ lease = [c \in Callers |-> NoLease]
  /\ read = [s \in Scans |-> {}]
  /\ copies = [s \in Scans |-> [r \in AllRows |-> 0]]

Goto(c, where) == pc' = [pc EXCEPT ![c] = where]

(* An open or a pin has ended: its times are forgotten. *)
Settle(c, where) ==
  /\ Goto(c, where)
  /\ started' = [started EXCEPT ![c] = 0]
  /\ until' = [until EXCEPT ![c] = 0]
  /\ opened' = [opened EXCEPT ![c] = 0]

(* A request is sent now. *)
Start(c) == started' = [started EXCEPT ![c] = now]

(* sleep(d) *)
Sleep(c, where, d) ==
  /\ Goto(c, where)
  /\ until' = [until EXCEPT ![c] = now + d]
  /\ UNCHANGED <<started, opened>>

(* RetriedSessionOpener::open: a new budget and the first attempt. *)
Open(c) ==
  /\ Goto(c, "create") /\ Start(c)
  /\ opened' = [opened EXCEPT ![c] = now]
  /\ UNCHANGED until

------------------------------------------------------------------------------
(* Pinning the snapshot *)

(* create_table_provider up to its first await: a snapshot in the reference
   is taken as it is. *)
CreateProvider ==
  /\ pc[Table] = "start"
  /\ \/ /\ reference.snapshot # None
        /\ snapshot' = reference.snapshot
        /\ Open(Table) /\ UNCHANGED attempt
     \/ /\ reference.snapshot = None
        /\ Goto(Table, "probe") /\ Start(Table)
        /\ UNCHANGED <<pinVars, until, opened>>
  /\ UNCHANGED <<now, tableVars, scanVars>>

(* A response with one readable Date pins the snapshot, whatever its status. *)
ProbeAnswered ==
  /\ pc[Table] = "probe" /\ now <= started[Table] + Timeout
  /\ \E sent \in started[Table]..now : \E date \in Dates(ServerTime(sent)) :
       snapshot' = SnapshotFrom(date, now - started[Table])
  /\ attempt' = 1
  /\ Open(Table)
  /\ UNCHANGED <<now, tableVars, scanVars>>

(* One more attempt, after a delay that grows, or none. *)
ProbeAgain(retryable) ==
  /\ IF retryable /\ attempt < ProbeAttempts
     THEN Sleep(Table, "probe_sleep", ProbeDelay * attempt)
     ELSE Settle(Table, "failed")
  /\ UNCHANGED <<now, tableVars, pinVars, scanVars>>

(* No Date to use, or no response: worth another attempt or not by the
   status or the error. *)
ProbeMissed ==
  /\ pc[Table] = "probe" /\ now <= started[Table] + Timeout
  /\ \E retryable \in BOOLEAN : ProbeAgain(retryable)

ProbeTimeout ==
  /\ pc[Table] = "probe" /\ now >= started[Table] + Timeout
  /\ ProbeAgain(TRUE)

ProbeWake ==
  /\ pc[Table] = "probe_sleep" /\ now >= until[Table]
  /\ attempt' = attempt + 1
  /\ Goto(Table, "probe") /\ Start(Table)
  /\ UNCHANGED <<now, tableVars, snapshot, until, opened, scanVars>>

------------------------------------------------------------------------------
(* Opening sessions *)

Discovered == lease[Table]

(* ReadSessionSpec: discovery asks for everything, from one stream. *)
Fields(c) == IF c = Table THEN {} ELSE SelectedFields(Discovered.schema, query[c])
ExpectedLocation(c) == IF c = Table THEN reference.location ELSE Discovered.location
StreamLimit(c) == IF c = Table THEN 1 ELSE MaxStreams
RequestedRestriction(c) ==
  Restriction(Discovered.schema, Pushed(Discovered.schema, query[c].filters))

(* ReadSessionSpec::new refuses a restriction that is too long. *)
TooLong(q) ==
  Cardinality(Restriction(Discovered.schema, Pushed(Discovered.schema, q.filters))) > MaxTerms

(* BigQueryTableProvider::scan, called by the engine for every use of the
   table, with the filters reported exact. *)
PlanScan(s) ==
  /\ pc[s] = "start" /\ pc[Table] = "ready"
  /\ \E q \in Queries :
       /\ query' = [query EXCEPT ![s] = q]
       /\ IF ~InBounds(Discovered.schema, q) \/ TooLong(q)
          THEN Goto(s, "failed") /\ UNCHANGED timerVars
          ELSE Open(s)
  /\ UNCHANGED <<now, tableVars, pinVars, lease, read, copies>>

(* The rows a session reads at a version. *)
ServedRows(c, version) ==
  IF c = Table THEN {}
  ELSE {r \in Versions[version].rows \cap Explicit :
          \A f \in RequestedRestriction(c) : r \in f.keeps}

(* What the server may answer to caller c when it makes the session at time
   `at`: as asked, or at the present instead; the schema of that version or of
   the newest; in any place; as any list of streams that holds the rows. *)
Responses(c, at) ==
  LET present == ServerTime(at)
  IN  {[snapshot |-> served, sound |-> sound, location |-> place, streams |-> streams,
        version |-> VersionAt(served, present),
        schema |-> Selection(Versions[v].schema, Fields(c))] :
         served \in {snapshot, present}, sound \in BOOLEAN, place \in Locations,
         streams \in StreamLists,
         v \in {VersionAt(snapshot, present), VersionAt(present, present)}}

(* validate_response; sound stands for the checks on data format, table, read
   options, schema bytes, expiration, project and estimates.  Faulty variant:
   the snapshot is not checked. *)
AnySnapshotIsValid(c, resp) ==
  /\ resp.sound
  /\ ExpectedLocation(c) \in {None, resp.location}
  /\ Len(resp.streams) <= StreamLimit(c) /\ IsInjective(resp.streams)
IsValid(c, resp) ==
  /\ resp.sound /\ resp.snapshot = snapshot
  /\ ExpectedLocation(c) \in {None, resp.location}
  /\ Len(resp.streams) <= StreamLimit(c) /\ IsInjective(resp.streams)

(* validate_execution_schema *)
SchemaHeld(c, schema) ==
  c = Table \/ schema = Selection(Discovered.schema, Fields(c))

(* The lease is good for Lifetime from when its request was sent.  Faulty
   variant: from when the answer came. *)
DeadlineFromAnswer(c) == now + Lifetime
ConservativeDeadline(c) == started[c] + Lifetime

(* What is kept of the session: by the provider for its scans, or by the plan
   of a scan. *)
Kept(c, at, resp, parts) ==
  IF c = Table
  THEN [NoLease EXCEPT !.version = resp.version, !.schema = resp.schema,
                       !.location = resp.location]
  ELSE [NoLease EXCEPT !.version = resp.version, !.schema = resp.schema,
                       !.deadline = ConservativeDeadline(c), !.expires = at + Lifetime,
                       !.streams = resp.streams, !.parts = parts]

(* create_read_session returns in time, with a session made meanwhile. *)
SessionCreated(c) ==
  /\ pc[c] = "create" /\ now <= started[c] + Timeout
  /\ \E at \in started[c]..now : \E resp \in Responses(c, at) :
       IF IsValid(c, resp) /\ SchemaHeld(c, resp.schema)
       THEN /\ Settle(c, "ready")
            /\ \E parts \in [ServedRows(c, resp.version) -> ToSet(resp.streams)] :
                 lease' = [lease EXCEPT ![c] = Kept(c, at, resp, parts)]
       ELSE Settle(c, "failed") /\ UNCHANGED lease
  /\ UNCHANGED <<now, tableVars, pinVars, query, read, copies>>

(* create_with_retry after a failure that may be tried again. *)
CreateAgain(c, minimum) ==
  /\ LET delays == PlannedDelays(c, minimum)
     IN  \/ \E d \in delays : Sleep(c, "sleep", d)
         \/ delays = {} /\ Settle(c, "failed")
  /\ UNCHANGED <<now, tableVars, pinVars, scanVars>>

(* StatusDetails::parse: a status may say how long to wait at least. *)
Minimums == {None, ServerDelay}

(* UNAVAILABLE, DEADLINE_EXCEEDED or credentials that fail for now. *)
CreateUnavailable(c) ==
  /\ pc[c] = "create" /\ now <= started[c] + Timeout
  /\ \E minimum \in Minimums : CreateAgain(c, minimum)

CreateRefused(c) ==
  /\ pc[c] = "create" /\ now <= started[c] + Timeout
  /\ Settle(c, "failed")
  /\ UNCHANGED <<now, tableVars, pinVars, scanVars>>

(* The attempt's own time is over.  Faulty variant: it never is. *)
NeverTimesOut(c) == FALSE
CreateTimeout(c) ==
  /\ pc[c] = "create" /\ now >= started[c] + Timeout
  /\ CreateAgain(c, None)

CreateWake(c) ==
  /\ pc[c] = "sleep" /\ now >= until[c]
  /\ Goto(c, "create") /\ Start(c)
  /\ UNCHANGED <<now, tableVars, pinVars, until, opened, scanVars>>

------------------------------------------------------------------------------
(* Executing the plan *)

PartitionCount(s) == IF lease[s].streams = <<>> THEN 1 ELSE Len(lease[s].streams)

(* BigQueryReadExec::execute of one partition, read to its end; with no time
   left for an attempt the reader fails. *)
ExecutePartition(s) ==
  /\ pc[s] = "ready"
  /\ \E p \in 1..PartitionCount(s) \ read[s] :
       \/ /\ now <= lease[s].deadline - Margin \/ lease[s].streams = <<>>
          /\ read' = [read EXCEPT ![s] = @ \cup {p}]
          /\ copies' = [copies EXCEPT ![s] = [r \in AllRows |->
               @[r] + IF r \in DOMAIN lease[s].parts /\ lease[s].parts[r] = lease[s].streams[p]
                      THEN 1 ELSE 0]]
          /\ Goto(s, IF read'[s] = 1..PartitionCount(s) THEN "done" ELSE "ready")
       \/ /\ now > lease[s].deadline - Margin /\ lease[s].streams # <<>>
          /\ Goto(s, "failed") /\ UNCHANGED <<read, copies>>
  /\ UNCHANGED <<now, tableVars, pinVars, timerVars, query, lease>>

------------------------------------------------------------------------------
(* The environment *)

(* Someone changes the table. *)
Commit ==
  /\ Len(commits) + 1 < Len(Versions)
  /\ commits' = Append(commits, ServerTime(now))
  /\ UNCHANGED <<now, reference, pinVars, pc, timerVars, scanVars>>

(* Caller c waits, and for how long at most. *)
Waits(c) == pc[c] \in {"probe", "probe_sleep", "create", "sleep"}
Due(c) == IF pc[c] \in {"probe", "create"} THEN started[c] + Timeout ELSE until[c]

(* Timers may be late, but not once the clock is past its bound. *)
Tick ==
  /\ \/ now < MaxTime
     \/ /\ \E c \in Callers : Waits(c)
        /\ \A c \in Callers : Waits(c) => now < Due(c)
  /\ now' = now + 1
  /\ UNCHANGED <<tableVars, pinVars, pc, timerVars, scanVars>>

------------------------------------------------------------------------------
(* Next-state relation and specification *)

Pin == CreateProvider \/ ProbeAnswered \/ ProbeMissed \/ ProbeTimeout \/ ProbeWake

Create(c) ==
  \/ SessionCreated(c) \/ CreateUnavailable(c) \/ CreateRefused(c)
  \/ CreateTimeout(c) \/ CreateWake(c)

Next ==
  \/ Pin
  \/ \E c \in Callers : Create(c)
  \/ \E s \in Scans : PlanScan(s) \/ ExecutePartition(s)
  \/ Commit \/ Tick

Spec == Init /\ [][Next]_vars

(* Time passes, however often a failure and a delay of nothing alternate at one
   instant, and timers fire.  Nothing is asked of the servers. *)
Fairness ==
  /\ SF_vars(Tick) /\ WF_vars(ProbeTimeout) /\ WF_vars(ProbeWake)
  /\ \A c \in Callers : WF_vars(CreateTimeout(c)) /\ WF_vars(CreateWake(c))

FairSpec == Spec /\ Fairness

------------------------------------------------------------------------------
(* Properties *)

(* The types of the variables. *)
TypeOK ==
  /\ now \in Nat /\ commits \in Seq(Nat) /\ reference \in References
  /\ snapshot \in Int \cup {None} /\ attempt \in 1..ProbeAttempts
  /\ pc \in [Callers -> {"start", "probe", "probe_sleep", "create", "sleep",
                         "ready", "done", "failed"}]
  /\ started \in [Callers -> Nat]
  /\ until \in [Callers -> Nat]
  /\ opened \in [Callers -> Nat]
  /\ query \in [Scans -> Queries \cup {None}]
  /\ DOMAIN lease = Callers
  /\ \A c \in Callers :
       /\ {lease[c].version, lease[c].deadline, lease[c].expires} \subseteq Nat
       /\ lease[c].streams \in Seq(STRING) /\ Len(lease[c].streams) <= MaxStreams
  /\ read \in [Scans -> SUBSET (1..MaxStreams)]
  /\ copies \in [Scans -> [AllRows -> Nat]]

(* A pinned snapshot lies before the moment the command asked for the time,
   however long the answer took and wherever in its second the Date was made:
   the query sees no change made after it began. *)
SnapshotInPast ==
  [][pc[Table] = "probe" /\ snapshot' # snapshot
       => snapshot' < ServerTime(started[Table])]_vars

(* All sessions of the table, opened at different times and retried, read the
   version the schema was discovered from, though the table changes. *)
SameTable == \A s \in Scans :
  lease[s] # NoLease => lease[s].version = Discovered.version

(* No session is used for longer than the server keeps it, although the
   command knows only when it asked and when it was answered. *)
DeadlineIsConservative == \A c \in Callers : lease[c].deadline <= lease[c].expires

(* A session is asked for again only when the attempt can take its whole
   time within the ten minutes of the call. *)
RetriesFit == \A c \in Callers :
  pc[c] = "sleep" => until[c] + Timeout <= opened[c] + Window

(* What the engine makes of a finished scan: it evaluates the filters that
   were not reported exact. *)
Emitted(s) == {r \in AllRows : copies[s][r] > 0 /\
              \A f \in query[s].filters \ Pushed(Discovered.schema, query[s].filters) :
                r \in f.keeps}

(* A finished scan answers its query: exactly the rows of the discovered
   version that the argument and all filters keep, whoever evaluates them,
   none of them twice, however the rows are spread over the streams; and the
   columns come out in the order of the plan with the types discovered, although
   the server returns them in the order of the table. *)
ScanAnswers == \A s \in Scans : pc[s] = "done" =>
  /\ LET output     == OutputSchema(Discovered.schema, query[s])
         projection == BatchProjection(lease[s].schema, output)
     IN  [i \in DOMAIN output |-> lease[s].schema[projection[i]]] = output
  /\ Emitted(s) = {r \in Versions[Discovered.version].rows \cap Explicit :
                  \A f \in query[s].filters : r \in f.keeps}
  /\ \A r \in AllRows : copies[s][r] <= 1

(* Opening a table and planning a scan come to an end, even when the servers
   never answer or fail for ever. *)
Ends == \A c \in Callers :
  Waits(c) ~> pc[c] \in {"ready", "done", "failed"}

==============================================================================

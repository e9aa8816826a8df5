----------------------------- MODULE MCCommand -----------------------------
(* The instance of TransformCommand for TLC, with the memory pool of the
   command: the operators of a plan register and grow while it runs, and free
   what they hold when they are dropped. *)
EXTENDS TransformCommand, MemoryPool, TLC

CONSTANTS s1, s2, n1   \* model values: consumers of the pool

PoolConsumers == {s1, s2, n1}
PoolCanSpill == {s1, s2}

-----------------------------------------------------------------------------
(* Formats, backends and services *)

FoldedIn(s) == CASE s = "PQ" -> "pq" [] s = ".arrow" -> "arrow" [] OTHER -> s
ValidNamesIn == {"bigquery", "sink", "other"}
ValidSchemesIn == {"bqs", "svc", "file", "s3", "gs"}
ApplicationKeysIn == {"from", "to"}
StorageKeysIn == {"s3-region"}

Both(keys) == [keys |-> keys, provider |-> TRUE, sink |-> TRUE]
Format(name, aliases, extensions, priority, transform) ==
  [name |-> name, aliases |-> aliases, extensions |-> extensions,
   priority |-> priority, detector |-> TRUE, transform |-> transform, inspector |-> TRUE]
Arrow == Format("arrow", <<>>, <<"arrow">>, 1, Both({"arrow-compression"}))
Parquet == Format("parquet", <<>>, <<"parquet">>, 0, Both({"parquet-compression"}))
Vortex == Format("vortex", <<>>, <<"vortex">>, 2, Both({"vortex-record-batch-size"}))
BuiltIn == <<Arrow, Parquet, Vortex>>

Others == {
  Format("raw", <<"arrow">>, <<>>, 1, None),
  Format("raw", <<"pq", "PQ">>, <<>>, 0, None),
  Format("raw", <<"PQ">>, <<".arrow">>, 0, Both({})),
  Format("pq", <<>>, <<"pq">>, 0, Both({"pq"})),
  [Format("text", <<>>, <<"vortex">>, 1, None) EXCEPT !.detector = FALSE],
  [Format("text", <<>>, <<"txt">>, 3,
          [keys |-> {"parquet-compression"}, provider |-> FALSE, sink |-> TRUE])
     EXCEPT !.inspector = FALSE] }
FormatLists == {<<f>> : f \in Others}
               \cup {<<f, g>> : f \in Others \cup Range(BuiltIn), g \in Others \cup Range(BuiltIn)}
               \cup {BuiltIn, Append(BuiltIn, [Format("text", <<>>, <<"txt">>, 0, None)
                                                 EXCEPT !.inspector = FALSE])}

Backend(schemes, access) == [schemes |-> schemes, access |-> access]
Service(name, schemes, keys) == [name |-> name, schemes |-> schemes, keys |-> keys]
Storage == <<Backend({"gs"}, "ReadWrite"), Backend({"file"}, "ReadWrite"), Backend({"s3"}, "ReadOnly")>>
BigQuery == Service("bigquery", <<"bqs">>, {"bigquery-project"})
Consumer == Service("sink", <<"svc">>, {"sink-key"})

Program(F, B, I, O) == [formats |-> F, backends |-> B, inputs |-> I, outputs |-> O]
ServiceLists == {<<>>, <<BigQuery>>, <<Consumer>>, <<BigQuery, Consumer>>,
  <<BigQuery, Service("bigquery", <<"svc">>, {})>>,
  <<BigQuery, Service("other", <<"svc", "bqs">>, {})>>,
  <<Service("other", <<"s3">>, {})>>, <<Service("other", <<"svc", "svc">>, {})>>,
  <<Service("Other", <<"svc">>, {})>>, <<Service("other", <<"svc">>, {"to"})>>}
BackendLists == {Storage, <<Backend({"s3", "gs"}, "ReadOnly"), Backend({"s3"}, "WriteOnly")>>,
                 <<Backend({"file"}, "ReadWrite"), Backend({"file"}, "WriteOnly")>>}

Whole == Program(BuiltIn, Storage, <<BigQuery>>, <<Consumer>>)
PartsIn ==
  {Program(F, Storage, <<BigQuery>>, <<>>) : F \in FormatLists}
  \cup {Program(BuiltIn, B, I, O) : B \in BackendLists, I \in ServiceLists, O \in ServiceLists}

-----------------------------------------------------------------------------
(* Objects: o2 is named against what it holds, o5 would do for two formats. *)

Answers(f) == [n \in {"arrow", "parquet", "vortex", "raw", "pq", "text"} |->
                 IF n \in DOMAIN f THEN f[n] ELSE "Mismatch"]
Object(url, store, size0, extension, f) ==
  [url |-> url, store |-> store, size |-> size0, extension |-> extension, answers |-> Answers(f)]
o1 == Object(1, "gs", 2, "parquet", [parquet |-> "file"])
o2 == Object(2, "gs", 2, "arrow", [parquet |-> "file"])
o3 == Object(3, "gs", 1, "arrow", [arrow |-> "file"])
o4 == Object(4, "s3", 3, "parquet", [parquet |-> "file"])
o5 == Object(5, "gs", 1, "txt", [parquet |-> "file", arrow |-> "stream"])
o6 == Object(6, "gs", 1, "pq", [arrow |-> "Malformed", pq |-> "Failed"])
ObjectsIn == {o1, o2, o3, o4, o5, o6}
UrlOrderIn(a, b) == a < b

Schema(nullable, metadata) ==
  [nodes |-> <<[name |-> "a", type |-> "Int64", nullable |-> nullable]>>, metadata |-> metadata]
Holding(ordering, schema) == [schema |-> schema, ordering |-> ordering, empty |-> ordering = <<>>]
ContentsIn == {Holding(<<"a", "b">>, Schema(TRUE, "m")), Holding(<<"a">>, Schema(FALSE, "n")),
               Holding(<<>>, Schema(FALSE, "m"))}
FirstContentsIn(o) ==
  CASE o = o2 -> Holding(<<"a">>, Schema(TRUE, "n"))
    [] o \in {o5, o6} -> Holding(<<>>, Schema(FALSE, "m"))
    [] OTHER -> Holding(<<"a", "b">>, Schema(TRUE, "m"))

-----------------------------------------------------------------------------
(* Command lines: one family for the inputs, one for the outputs, one for the
   budgets. *)

ColumnsIn == {"a", "b"}
Operand(scheme, objects) == [scheme |-> scheme, objects |-> objects]
Asc(c) == [name |-> c, desc |-> FALSE]
Desc(c) == [name |-> c, desc |-> TRUE]
Base == [references |-> <<Operand(None, {o1})>>, patterns |-> <<>>, allowUnmatched |-> FALSE,
  inputFormat |-> None, outputFormat |-> None, to |-> [scheme |-> None, extension |-> "parquet"],
  toMany |-> None, by |-> None, strategy |-> "sort-single", maxOpen |-> Absent, exclude |-> <<>>,
  list |-> FALSE, query |-> None, sortBy |-> None, preserve |-> FALSE, targetPartitions |-> Absent,
  memory |-> [kind |-> "Total", pct |-> 80, min |-> Absent], reserve |-> None, threads |-> None,
  spillPath |-> FALSE]

InputLines ==
  {[Base EXCEPT !.references = r, !.patterns = p, !.allowUnmatched = w, !.inputFormat = f] :
     r \in {<<>>, <<Operand("bqs", {})>>, <<Operand("file", {o1}), Operand(None, {o3})>>,
            <<Operand("svc", {})>>, <<Operand(None, {o6})>>},
     p \in {<<>>, <<Operand("gs", {o1, o2, o4})>>, <<Operand(None, {o2, o3, o5}), Operand("gs", {o1})>>,
            <<Operand("gs", {})>>, <<Operand("bqs", {})>>},
     w \in BOOLEAN, f \in {None, "parquet"}}

OutputLines ==
  LET Many(scheme, numbered, fields) ==
        [scheme |-> scheme, extension |-> "arrow", numbered |-> numbered, fields |-> fields]
  IN {[Base EXCEPT !.to = t, !.outputFormat = f, !.exclude = x, !.query = q, !.sortBy = s,
                   !.preserve = p] :
        t \in {[scheme |-> "gs", extension |-> "arrow"], [scheme |-> "svc", extension |-> None],
               [scheme |-> "s3", extension |-> "parquet"], [scheme |-> None, extension |-> "txt"]},
        f \in {None, "vortex"}, x \in {<<>>, <<"a">>, <<"z">>}, q \in {None, "q"},
        s \in {None, <<Desc("b"), Asc("a"), Asc("b")>>}, p \in BOOLEAN}
     \cup
     {[Base EXCEPT !.to = None, !.toMany = t, !.by = b, !.strategy = g, !.maxOpen = o,
                   !.query = q, !.sortBy = s, !.list = TRUE, !.spillPath = TRUE] :
        t \in {Many("gs", FALSE, {"a"}), Many(None, TRUE, {}), Many("svc", FALSE, {"b"})},
        b \in {<<"a">>, <<"b", "a">>, <<"n">>}, g \in {"sort-single", "nosort-multi", "nosort-evict"},
        o \in {Absent, 2}, q \in {None, "q"}, s \in {None, <<Desc("b"), Asc("a")>>}}

Total(pct, low) == [kind |-> "Total", pct |-> pct, min |-> low]
Portion(pct) == [kind |-> "Available", pct |-> pct, min |-> Absent]
Bytes(n) == [kind |-> "Fixed", bytes |-> n, min |-> Absent]
Percent(n) == [kind |-> "Percent", pct |-> n]
BudgetLines ==
  {[Base EXCEPT !.memory = m, !.reserve = r, !.sortBy = s] :
     m \in {Total(100, Absent), Total(50, 40), Bytes(12), Bytes(9),
            [kind |-> "Reserve", bytes |-> 90, min |-> 3]},
     r \in {None, Percent(10), Percent(99), [kind |-> "Fixed", bytes |-> 1],
            [kind |-> "Fixed", bytes |-> 7]},
     s \in {None, <<Asc("a")>>}}
  \cup
  {[Base EXCEPT !.memory = Portion(100), !.threads = t, !.targetPartitions = n, !.sortBy = s] :
     t \in {None, [kind |-> "Fixed", threads |-> 1], [kind |-> "Reserve", reserve |-> 9, min |-> 2]},
     n \in {Absent, 1, 9}, s \in {None, <<Asc("a")>>}}

CommandLinesIn(p) == IF p = Whole THEN InputLines \cup OutputLines \cup BudgetLines ELSE {}

MachinesIn == {
  [cpus |-> 8, v2 |-> Absent, v1 |-> Absent, stat |-> {}, usage |-> Absent, total |-> 200,
   available |-> 0],
  [cpus |-> 1, v2 |-> 80, v1 |-> Absent, stat |-> {[counted |-> 50, reclaimable |-> 10]},
   usage |-> Absent, total |-> 200, available |-> 150],
  [cpus |-> 3, v2 |-> Absent, v1 |-> 100, stat |-> {}, usage |-> 30, total |-> 200,
   available |-> 150] }

QueryColumnsIn == {{"a"}, {"a", "b"}}
NestedIn == {"n"}
(* Statistics of a sort's partitions: none, small rows, large rows. *)
SortShapesIn ==
  LET Known(n, b) == [rows |-> n, bytes |-> b]
  IN {<<<<Known(Absent, 10)>>>>, <<<<Known(10, 60)>>, <<Known(1, 400), Known(3, 2)>>>>, <<<<>>>>}

-----------------------------------------------------------------------------
(* Composition *)

PoolOfCommand == running /\ budget.pool = PoolSize /\ budget.reserve = Reserve
TakeMemory == PoolOfCommand /\ \E c \in Consumers : Register(c) \/ TryGrow(c) \/ Grow(c)
FreeMemory == \E c \in Consumers : Unregister(c) \/ Shrink(c)

MCInit == CommandInit /\ Init
MCNext ==
  \/ CommandNext /\ UNCHANGED vars
  \/ (TakeMemory \/ FreeMemory) /\ UNCHANGED <<catalogVars, inputVars, commandVars>>
MCSpec == MCInit /\ [][MCNext]_<<catalogVars, inputVars, commandVars, vars>>
=============================================================================

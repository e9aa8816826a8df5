--------------------------- MODULE ParquetSettings ---------------------------
(***************************************************************************)
(* How a command's Parquet settings become the properties of each column   *)
(* of each row group (silk-chiffon-format-parquet: src/args.rs,            *)
(* src/output/mod.rs, src/output/pipeline/config.rs and encoding.rs): the  *)
(* flags are parsed, bound once for the command, checked against the       *)
(* schema of every file that is opened, resolved to a policy for each leaf *)
(* column, and applied to every row group with the analysis of its rows.   *)
(*                                                                         *)
(* A name is the sequence of its parts between dots: the text "a.b" of a   *)
(* flag is a path of two segments, but a column may also be called "a.b".  *)
(* A type is its kind and its fields.  Sizes, versions and codecs that no  *)
(* choice depends on are left out; a probability is in percent.            *)
(***************************************************************************)
EXTENDS Naturals, Sequences, FiniteSets, SequencesExt

CONSTANTS Commands,  \* the settings a command may be given
          Schemas,   \* the schemas of its files
          Analyses,  \* what the analysis of a column may find
          RowCounts, \* numbers of rows of a row group
          DictionaryLimit, \* dictionary_page_size_limit
          MaxDepth   \* bound on the types inside each other in a schema

VARIABLES phase,   \* "args", "bound", "refused", "open", "writing", "broken"
          args,    \* the command's settings
          options, \* OutputConfig
          schema   \* the schema of the file

settings == <<phase, args, options, schema>>

Nothing == <<>>

-----------------------------------------------------------------------------
(* Flags: src/args.rs *)

(* parse_bloom_filter_params: keys with values, each at most once. *)
ParamsParse(params) ==
  /\ \A i \in DOMAIN params :
       \/ params[i].key = "fpp" /\ params[i].value \in 1..99
       \/ params[i].key = "ndv" /\ params[i].value > 0
  /\ \A i, j \in DOMAIN params : params[i].key = params[j].key => i = j

DefaultFpp == 1
ParamOr(params, key, default) ==
  LET given == SelectInSeq(params, LAMBDA p : p.key = key)
  IN  IF given = 0 THEN default ELSE params[given].value

NoNdv == 0
Bloom(params) == [fpp |-> ParamOr(params, "fpp", DefaultFpp),
                  ndv |-> ParamOr(params, "ndv", NoNdv)]

Positive(sizes) == \A i \in DOMAIN sizes : sizes[i] >= 1

Names(flags) == {flags[i].name : i \in DOMAIN flags}

(* DictionaryPolicy and ColumnEncoding, from their texts. *)
Modes == {"always", "analyze"}
Encodings == {"plain", "rle", "delta-binary-packed", "delta-length-byte-array",
              "delta-byte-array", "byte-stream-split"}
PoliciesParse(flags) == \A i \in DOMAIN flags : flags[i].name # <<>> /\ flags[i].mode \in Modes
EncodingsParse(flags) ==
  \A i \in DOMAIN flags : flags[i].name # <<>> /\ flags[i].encoding \in Encodings

(* TransformArgs: what clap and the value parsers let through of the flags of
   bloom filters, of single columns, and of the whole file. *)
BloomFlagsParse(a) ==
  /\ a.bloomAll # Nothing => ParamsParse(a.bloomAll[1]) /\ ~a.bloomAllOff
  /\ \A i \in DOMAIN a.bloomOn : ParamsParse(a.bloomOn[i].params)
  /\ <<>> \notin Names(a.bloomOn)
ColumnFlagsParse(a) == PoliciesParse(a.dictOn) /\ EncodingsParse(a.encodings)
Parses(a) ==
  /\ BloomFlagsParse(a) /\ ColumnFlagsParse(a)
  /\ a.sorted => a.ordering # <<>>
  /\ Positive(a.sizes)

(* Compression::to_compression. *)
NoLevel == -1
LevelFits(codec, level) ==
  \/ level = NoLevel
  \/ codec = "zstd" /\ level \in 1..22
  \/ codec = "gzip" /\ level \in 0..9
  \/ codec = "brotli" /\ level \in 0..11

-----------------------------------------------------------------------------
(* Types *)

Prim(kind) == [kind |-> kind, inner |-> <<>>]
Field(name, type) == [name |-> name, type |-> type]
ListOf(type) == [kind |-> "List", inner |-> <<Field(<<"item">>, type)>>]
StructOf(fields) == [kind |-> "Struct", inner |-> fields]
MapOf(fields) == [kind |-> "Map", inner |-> fields]
DictionaryOf(type) == [kind |-> "Dictionary", inner |-> <<Field(<<"value">>, type)>>]

Nested == {"List", "Struct", "Map"}

(* estimate_fixed_type_bytes, for those that have a fixed size. *)
FixedBytes == [Bool |-> 1, Half |-> 2, Int |-> 8, Time |-> 8, Float |-> 8,
               Decimal |-> 16]
Analyzable(type) == type.kind \notin {"Half", "Float"} \cup Nested
DictionaryEligible(type) ==
  type.kind \notin {"Float", "Half", "Bool", "Dictionary"} \cup Nested
BloomEligible(type) ==
  type.kind \notin {"Float", "Half", "Bool", "Dictionary"} \cup Nested

(* Encoding::validate_for_type. *)
EncodingFits(encoding, type) ==
  \/ encoding = "plain"
  \/ encoding = "rle" /\ type.kind = "Bool"
  \/ encoding = "delta-binary-packed" /\ type.kind \in {"Int", "Time"}
  \/ encoding \in {"delta-length-byte-array", "delta-byte-array"}
       /\ type.kind = "Text"
  \/ encoding = "byte-stream-split" /\ type.kind \in {"Half", "Float", "Int", "Decimal"}

(* resolve_v2_encoding_overridess; "" is none. *)
V2Encoding(type) ==
  CASE type.kind = "Bool"  -> "plain"
    [] type.kind = "Float" -> "byte-stream-split"
    [] type.kind = "Int"   -> "delta-binary-packed"
    [] type.kind = "Text"  -> "delta-length-byte-array"
    [] OTHER               -> ""

(* enumerate_field: a type inside others is replaced by those it is made of,
   with the names Parquet gives them, until only leaves are left. *)
Entry(path, type) == [path |-> path, type |-> type]
Inside(entry) ==
  LET inner == entry.type.inner
      In(steps, i) == Entry(entry.path \o steps, inner[i].type)
  IN  CASE entry.type.kind = "List" -> <<In(<<<<"list">>, <<"element">>>>, 1)>>
        [] entry.type.kind = "Struct" -> [i \in DOMAIN inner |-> In(<<inner[i].name>>, i)]
        [] entry.type.kind = "Map" -> <<In(<<<<"key_value">>, <<"key">>>>, 1),
                                        In(<<<<"key_value">>, <<"value">>>>, 2)>>
        [] entry.type.kind = "Dictionary" -> <<In(<<>>, 1)>>
        [] OTHER -> <<entry>>
Unfold(entries) == FlattenSeq([i \in DOMAIN entries |-> Inside(entries[i])])

Columns(fields) == [i \in DOMAIN fields |-> Entry(<<fields[i].name>>, fields[i].type)]
Unfolded(fields) ==
  LET entries[n \in 0..MaxDepth] ==
        IF n = 0 THEN Columns(fields) ELSE Unfold(entries[n - 1])
  IN  entries
LeavesOf(fields) == Unfolded(fields)[MaxDepth]
Leaves(fields) == ToSet(LeavesOf(fields))

IsList(s) == s \in Seq(ToSet(s))

(* DataFusion gives the columns of a plan different names.  The bound is one:
   nothing is left to unfold. *)
IsSchema(fields) ==
  /\ IsList(fields)
  /\ \A i \in DOMAIN fields : IsList(fields[i].name)
  /\ \A i, j \in DOMAIN fields : fields[i].name = fields[j].name => i = j
  /\ \A n \in 0..MaxDepth : \A entry \in ToSet(Unfolded(fields)[n]) :
       entry.type.kind = "Struct" => IsList(entry.type.inner)
  /\ Unfold(LeavesOf(fields)) = LeavesOf(fields)

(* Flags are given one after another. *)
ParquetSettingsAssumption ==
  /\ MaxDepth \in Nat
  /\ \A fields \in Schemas : IsSchema(fields)
  /\ \A a \in Commands : IsList(a.bloomOn) /\ IsList(a.encodings)
ASSUME ParquetSettingsAssumption

(* LeafColumn::parquet_path, the parts of all segments, and parse_cli_path. *)
Joined(leaf) == FlattenSeq(leaf.path)
Segments(name) == [i \in DOMAIN name |-> <<name[i]>>]

(* matches_prefix.  Faulty variant: the whole path. *)
IsColumn(leaf, name) == Segments(name) = leaf.path
Under(leaf, name) == IsPrefix(Segments(name), leaf.path)
UnderAny(leaf, names) == \E i \in DOMAIN names : Under(leaf, names[i])

(* The place of the first field of a name, or 0. *)
FieldAt(fields, name) == SelectInSeq(fields, LAMBDA f : f.name = name)
TypeNamed(fields, name) ==
  IF FieldAt(fields, name) = 0 THEN Nothing ELSE <<fields[FieldAt(fields, name)].type>>

(* resolve_column_type: the type at a path, or none; below a list or a map
   every path is taken for one of it. *)
Below(found, name) ==
  IF found # Nothing /\ found[1].kind = "Struct" THEN TypeNamed(found[1].inner, name)
  ELSE found
TypeAt(fields, segments) ==
  LET found[n \in DOMAIN segments] ==
        IF n = 1 THEN TypeNamed(fields, segments[1]) ELSE Below(found[n - 1], segments[n])
  IN  found[Len(segments)]
ColumnType(fields, name) == TypeAt(fields, Segments(name))

-----------------------------------------------------------------------------
(* The command: options and bind *)

AllBlooms(a) ==
  IF a.bloomAllOff THEN Nothing
  ELSE IF a.bloomAll # Nothing THEN <<Bloom(a.bloomAll[1])>>
  ELSE <<Bloom(<<>>)>>

(* BloomFilterPolicy::validate: no column twice. *)
BloomValid(a) ==
  /\ IsInjective(a.bloomOff)
  /\ IsInjective([i \in DOMAIN a.bloomOn |-> a.bloomOn[i].name])
  /\ Names(a.bloomOn) \cap ToSet(a.bloomOff) = {}

Binds(a) ==
  /\ Names(a.dictOn) \cap ToSet(a.dictOff) = {}
  /\ BloomValid(a)
  /\ LevelFits(a.codec, a.level)

(* with_dictionary_configs. *)
InMode(flags, mode) ==
  LET those == SelectSeq(flags, LAMBDA f : f.mode = mode)
  IN  [i \in DOMAIN those |-> those[i].name]

(* resolve_queue_sizes: sinks that are open together get the least. *)
SizesOf(a) == IF a.multiple THEN [i \in DOMAIN a.sizes |-> 1] ELSE a.sizes

OptionsOf(a) ==
  [bloomAll |-> AllBlooms(a),
   bloomOn |-> [i \in DOMAIN a.bloomOn |->
                  [name |-> a.bloomOn[i].name, config |-> Bloom(a.bloomOn[i].params)]],
   bloomOff |-> a.bloomOff,
   dictDefault |-> ~a.dictAllOff,
   always |-> InMode(a.dictOn, "always"),
   analyze |-> InMode(a.dictOn, "analyze"),
   dictOff |-> a.dictOff,
   version |-> a.version, encoding |-> a.encoding, encodings |-> a.encodings,
   ordering |-> IF a.sorted THEN a.ordering ELSE <<>>,
   sizes |-> SizesOf(a)]

-----------------------------------------------------------------------------
(* A file: Sink::create *)

DictionaryNames(o) == ToSet(o.always) \cup ToSet(o.analyze)

(* validate_column_dictionary. *)
DictionariesFit(o, fields) ==
  /\ DictionaryNames(o) \cap ToSet(o.dictOff) = {}
  /\ \A name \in DictionaryNames(o) \cup ToSet(o.dictOff) :
       ColumnType(fields, name) # Nothing

(* validate_column_encodings: of a list or a map, its own type counts. *)
EncodingsFit(o, fields) ==
  \A i \in DOMAIN o.encodings :
    LET type == ColumnType(fields, o.encodings[i].name)
    IN  type # Nothing /\ EncodingFits(o.encodings[i].encoding, type[1])

(* apply_sort_metadata. *)
OrderingFits(o, fields) ==
  \A i \in DOMAIN o.ordering : FieldAt(fields, o.ordering[i]) # 0

(* The names of bloom filter flags are not checked. *)
SchemaFits(o, fields) ==
  DictionariesFit(o, fields) /\ EncodingsFit(o, fields) /\ OrderingFits(o, fields)

(* apply_encodings: a flag sets the encoding of the leaf with exactly its path,
   the last one wins; then the automatic one of a top-level column of a V2 file,
   then the global one.  Faulty variant: the first flag wins. *)
FirstFlag(leaf, o) == SelectInSeq(o.encodings, LAMBDA f : IsColumn(leaf, f.name))
LastFlag(leaf, o) == SelectLastInSeq(o.encodings, LAMBDA f : IsColumn(leaf, f.name))

Automatic(leaf, o, fields) ==
  IF o.version = "v2" /\ Len(leaf.path) = 1
  THEN V2Encoding(TypeNamed(fields, leaf.path[1])[1]) ELSE ""

EncodingOf(leaf, o, fields) ==
  LET flag == LastFlag(leaf, o)
      automatic == Automatic(leaf, o, fields)
  IN  CASE flag > 0 -> o.encodings[flag].encoding
        [] flag = 0 /\ automatic # "" -> automatic
        [] OTHER -> o.encoding

-----------------------------------------------------------------------------
(* Policies: ColumnPolicies::resolve *)

TopAnalyzable(leaf) == Len(leaf.path) = 1 /\ Analyzable(leaf.type)

(* resolve_dictionary_for_leaf.  Faulty variant: what is switched on wins. *)
OnFirst(leaf, o) ==
  IF ~DictionaryEligible(leaf.type) THEN "not eligible"
  ELSE IF UnderAny(leaf, o.always) THEN "always"
  ELSE IF UnderAny(leaf, o.dictOff) THEN "disabled"
  ELSE IF UnderAny(leaf, o.analyze) \/ o.dictDefault
  THEN IF TopAnalyzable(leaf) THEN "analyze" ELSE "always"
  ELSE "disabled"

ResolveDictionary(leaf, o) ==
  IF ~DictionaryEligible(leaf.type) THEN "not eligible"
  ELSE IF UnderAny(leaf, o.dictOff) THEN "disabled"
  ELSE IF UnderAny(leaf, o.always) THEN "always"
  ELSE IF UnderAny(leaf, o.analyze) \/ o.dictDefault
  THEN IF TopAnalyzable(leaf) THEN "analyze" ELSE "always"
  ELSE "disabled"

(* resolve_bloom_for_leaf: none, or its filter.  A nested leaf that a column
   flag names is enabled without a count that nothing will provide. *)
ResolveBloom(leaf, o) ==
  LET named == SelectInSeq(o.bloomOn, LAMBDA f : Under(leaf, f.name))
  IN  IF ~BloomEligible(leaf.type) \/ UnderAny(leaf, o.bloomOff) THEN Nothing
      ELSE IF named > 0
      THEN LET config == o.bloomOn[named].config
           IN  IF config.ndv = NoNdv /\ ~Analyzable(leaf.type)
               THEN Nothing ELSE <<config>>
      ELSE IF o.bloomAll # Nothing /\ o.bloomAll[1].ndv = NoNdv /\ ~TopAnalyzable(leaf)
      THEN Nothing ELSE o.bloomAll

(* The policies are kept by the joined path: of two leaves with the same, the
   last one's counts. *)
Policy(leaf, o, fields) ==
  LET same == SelectLastInSeq(LeavesOf(fields), LAMBDA other : Joined(other) = Joined(leaf))
      last == LeavesOf(fields)[same]
  IN  [dictionary |-> ResolveDictionary(last, o), bloom |-> ResolveBloom(last, o)]

(* columns_needing_analysis: the joined path up to its first dot.  Faulty
   variant: only for dictionaries. *)
ForDictionary(policy) == policy.dictionary = "analyze"
WantsAnalysis(policy) ==
  \/ policy.dictionary = "analyze"
  \/ policy.bloom # Nothing /\ policy.bloom[1].ndv = NoNdv

NeedingAnalysis(o, fields) ==
  {<<Head(Joined(leaf))>> :
     leaf \in {l \in Leaves(fields) : WantsAnalysis(Policy(l, o, fields))}}

(* run_streaming_analysis fails when it has nothing to analyse. *)
Analysed(o, fields) ==
  {name \in NeedingAnalysis(o, fields) :
     LET found == TypeNamed(fields, name)
     IN  found # Nothing /\ Analyzable(found[1])}

-----------------------------------------------------------------------------
(* A row group: build_row_group_properties *)

(* extract_analysis_from_results: an average size is found for a text, not for
   a dictionary of texts. *)
NoAverage == -1
VariableLength(type) == type.kind = "Text"
AverageOf(leaf, fields, found) ==
  IF VariableLength(TypeNamed(fields, Joined(leaf))[1]) THEN found.average
  ELSE NoAverage

(* estimate_dictionary_size, with the average size that was found. *)
ValueBytes(type, average) ==
  CASE type.kind \in DOMAIN FixedBytes -> FixedBytes[type.kind]
    [] type.kind = "Text" -> IF average = NoAverage THEN 32 ELSE average
    [] OTHER -> 16

(* should_use_dictionary: less than a fifth of the rows are distinct. *)
Worthwhile(found, rows, bytes) ==
  /\ rows # 0
  /\ 5 * found.distinct < rows
  /\ found.distinct * bytes <= DictionaryLimit

(* analysis has the columns that were analysed, by name. *)
UsesDictionary(leaf, o, fields, analysis, rows) ==
  LET mode == Policy(leaf, o, fields).dictionary
      Found == analysis[Joined(leaf)]
  IN  \/ mode = "always"
      \/ /\ mode = "analyze"
         /\ Joined(leaf) \in DOMAIN analysis
         /\ Worthwhile(Found, rows, ValueBytes(leaf.type, AverageOf(leaf, fields, Found)))

(* The filter of a leaf, or none.  Faulty variant: the filter does not ask for
   the dictionary. *)
AnyBloom(leaf, o, fields, analysis, rows) == TRUE
BloomApplies(leaf, o, fields, analysis, rows) ==
  \/ Policy(leaf, o, fields).bloom[1].ndv # NoNdv
  \/ UsesDictionary(leaf, o, fields, analysis, rows)

BloomOf(leaf, o, fields, analysis, rows) ==
  LET bloom == Policy(leaf, o, fields).bloom
  IN  IF bloom = Nothing \/ ~BloomApplies(leaf, o, fields, analysis, rows) THEN Nothing
      ELSE IF bloom[1].ndv # NoNdv THEN bloom
      ELSE IF Joined(leaf) \notin DOMAIN analysis THEN Nothing
      ELSE <<[bloom[1] EXCEPT !.ndv = analysis[Joined(leaf)].distinct]>>

(* The properties of every leaf of a row group. *)
RowGroup(o, fields, analysis, rows) ==
  [leaf \in Leaves(fields) |->
     [dictionary |-> UsesDictionary(leaf, o, fields, analysis, rows),
      bloom |-> BloomOf(leaf, o, fields, analysis, rows),
      encoding |-> EncodingOf(leaf, o, fields)]]

-----------------------------------------------------------------------------

SettingsInit ==
  /\ phase = "args" /\ args \in {a \in Commands : Parses(a)}
  /\ options = Nothing /\ schema = Nothing

Bind ==
  /\ phase = "args"
  /\ args' = args /\ schema' = schema
  /\ IF Binds(args)
     THEN phase' = "bound" /\ options' = <<OptionsOf(args)>>
     ELSE phase' = "refused" /\ UNCHANGED options

Create ==
  /\ phase = "bound"
  /\ UNCHANGED <<args, options>>
  /\ \E fields \in Schemas :
       IF SchemaFits(options[1], fields)
       THEN phase' = "open" /\ schema' = fields
       ELSE phase' = "refused" /\ UNCHANGED schema

SettingsNext == Bind \/ Create

(* The pipeline of the file takes the settings with it. *)
TakeSettings ==
  /\ phase = "open" /\ phase' = "writing"
  /\ args' = Nothing /\ options' = Nothing /\ schema' = Nothing

SettingsSpec == SettingsInit /\ [][SettingsNext \/ TakeSettings]_settings

-----------------------------------------------------------------------------
(* Properties *)

(* The row groups that a file of the command may get. *)
RowGroupsOf(o, fields) ==
  {RowGroup(o, fields, analysis, rows) :
     analysis \in [Analysed(o, fields) -> Analyses], rows \in RowCounts}

(* A leaf that a flag can name, and that no other is taken for. *)
Nameable(leaf, fields) ==
  /\ \A i \in DOMAIN leaf.path : Len(leaf.path[i]) = 1
  /\ \A other \in Leaves(fields) : Joined(other) = Joined(leaf) => other = leaf

(* The filter a bloom flag asks for, from the first flag over the leaf. *)
BloomFlag(leaf, a) == SelectInSeq(a.bloomOn, LAMBDA f : Under(leaf, f.name))
FlaggedNdv(leaf, a) ==
  LET flag == BloomFlag(leaf, a)
  IN  IF flag = 0 THEN NoNdv ELSE ParamOr(a.bloomOn[flag].params, "ndv", NoNdv)

(* Whatever the analysis finds, a column is written as the flags over it say,
   although they are parsed, bound, resolved to policies and applied in four
   places: what is switched off stays off, a dictionary that is wanted always
   and a filter of a given size are there, and a column's own encoding is the
   last that was given.  It does not say what a leaf gets whose filter one flag
   asks for and another refuses: the code refuses it, and the doc of
   BloomFilterPolicy (args.rs:562) has it the other way round. *)
FlagsHold ==
  phase = "open" =>
    \A group \in RowGroupsOf(options[1], schema) :
      \A leaf \in {l \in DOMAIN group : Nameable(l, schema)} :
        /\ UnderAny(leaf, args.dictOff) => ~group[leaf].dictionary
        /\ \/ ~UnderAny(leaf, args.bloomOff) \/ BloomFlag(leaf, args) > 0
           \/ group[leaf].bloom = Nothing
        /\ \/ ~DictionaryEligible(leaf.type) \/ UnderAny(leaf, args.dictOff)
           \/ ~UnderAny(leaf, InMode(args.dictOn, "always"))
           \/ group[leaf].dictionary
        /\ \/ ~BloomEligible(leaf.type) \/ UnderAny(leaf, args.bloomOff)
           \/ FlaggedNdv(leaf, args) = NoNdv
           \/ group[leaf].bloom[1].ndv = FlaggedNdv(leaf, args)
        /\ \A i \in DOMAIN args.encodings :
             \/ ~IsColumn(leaf, args.encodings[i].name)
             \/ \E j \in i..Len(args.encodings) :
                  /\ IsColumn(leaf, args.encodings[j].name)
                  /\ group[leaf].encoding = args.encodings[j].encoding

(* A filter without a size follows the dictionary: in each row group, a column
   that is analysed has it exactly where its dictionary is kept, made for the
   distinct values of that row group. *)
Unsized(leaf, a) ==
  IF BloomFlag(leaf, a) > 0 THEN FlaggedNdv(leaf, a) = NoNdv
  ELSE /\ ~a.bloomAllOff
       /\ a.bloomAll # Nothing => ParamOr(a.bloomAll[1], "ndv", NoNdv) = NoNdv

BloomFollowsDictionary ==
  phase = "open" =>
    \A analysis \in [Analysed(options[1], schema) -> Analyses], rows \in RowCounts :
      LET group == RowGroup(options[1], schema, analysis, rows)
      IN  \A leaf \in {l \in DOMAIN group : Nameable(l, schema)} :
            (/\ TopAnalyzable(leaf) /\ BloomEligible(leaf.type)
             /\ Unsized(leaf, args) /\ ~UnderAny(leaf, args.bloomOff)) =>
              /\ (group[leaf].bloom # Nothing) = group[leaf].dictionary
              /\ group[leaf].dictionary =>
                   group[leaf].bloom[1].ndv = analysis[leaf.path[1]].distinct
=============================================================================

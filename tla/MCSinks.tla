------------------------------- MODULE MCSinks -------------------------------
(***************************************************************************)
(* A command's outputs from its settings to the object: the settings of a  *)
(* Parquet output are bound and a file is created with them, and what they *)
(* leave to analyse decides how its pipeline runs.  The sinks of the other *)
(* formats start at once.                                                  *)
(***************************************************************************)
EXTENDS Sinks, ParquetSettings

(* Batches of three rows for row groups and record batches of two: the first
   is cut after a whole one, the second after the row that completes the one
   before. *)
ThreeRows == {3}

(* The schemas: plain columns; one with nested ones; and one with a column
   whose name has a dot, beside a struct that has the same path. *)
Id == Field(<<"id">>, Prim("Int"))
Tag == Field(<<"tag">>, DictionaryOf(Prim("Text")))
Flat == <<Id, Tag, Field(<<"price">>, Prim("Float")), Field(<<"ok">>, Prim("Bool"))>>
User == StructOf(<<Field(<<"name">>, Prim("Text")),
                   Field(<<"seen">>, ListOf(Prim("Time")))>>)
Deep == <<Id, Field(<<"user">>, User),
          Field(<<"map">>, MapOf(<<Field(<<"k">>, Prim("Text")), Field(<<"v">>, Prim("Int"))>>))>>
Dotted == <<Id, Field(<<"user">>, User), Field(<<"user", "name">>, Prim("Text"))>>
ThreeSchemas == {Flat, Deep, Dotted}

Ndv(n) == [key |-> "ndv", value |-> n]
Fpp(n) == [key |-> "fpp", value |-> n]
On(name, params) == [name |-> name, params |-> params]
InModeOf(name, mode) == [name |-> name, mode |-> mode]
As(name, encoding) == [name |-> name, encoding |-> encoding]

Defaults ==
  [bloomAll |-> <<>>, bloomAllOff |-> FALSE, bloomOn |-> <<>>, bloomOff |-> <<>>,
   dictAllOff |-> FALSE, dictOn |-> <<>>, dictOff |-> <<>>,
   version |-> "v2", encoding |-> "", encodings |-> <<>>,
   codec |-> "none", level |-> NoLevel,
   sorted |-> FALSE, ordering |-> <<>>, sizes |-> <<1, 4, 4, 4>>, multiple |-> FALSE]

(* Dictionaries and filters, alone and against each other. *)
ColumnFlags ==
  {[Defaults EXCEPT !.bloomAll = all, !.bloomAllOff = off, !.bloomOn = on,
                    !.bloomOff = not, !.dictAllOff = none, !.dictOn = dict,
                    !.dictOff = nodict] :
     all \in {<<>>, << <<Ndv(9)>> >>}, off \in BOOLEAN,
     on \in {<<>>, <<On(<<"user">>, <<>>)>>,
             <<On(<<"user", "name">>, <<Ndv(7), Fpp(5)>>), On(<<"id">>, <<>>)>>},
     not \in {<<>>, <<<<"id">>>>, <<<<"user">>>>},
     none \in BOOLEAN,
     dict \in {<<>>, <<InModeOf(<<"id">>, "always")>>, <<InModeOf(<<"user">>, "analyze")>>,
               <<InModeOf(<<"user", "name">>, "always"), InModeOf(<<"id">>, "analyze")>>},
     nodict \in {<<>>, <<<<"user">>>>, <<<<"id">>>>}}

(* Encodings, by version and by column. *)
EncodingFlags ==
  {[Defaults EXCEPT !.version = version, !.encoding = encoding, !.encodings = flags] :
     version \in {"v1", "v2"}, encoding \in {"", "plain"},
     flags \in {<<>>, <<As(<<"id">>, "byte-stream-split")>>, <<As(<<"ok">>, "rle")>>,
                <<As(<<"id">>, "delta-binary-packed"), As(<<"id">>, "plain")>>,
                <<As(<<"id">>, "rle")>>, <<As(<<"user", "name">>, "delta-byte-array")>>,
                <<As(<<"user">>, "plain"), As(<<"price">>, "byte-stream-split")>>}}

(* What is refused, and what is not about columns. *)
OtherFlags ==
  {[Defaults EXCEPT !.sorted = sorted, !.ordering = ordering, !.multiple = several,
                    !.sizes = sizes] :
     sorted \in BOOLEAN, several \in BOOLEAN,
     ordering \in {<<>>, <<<<"id">>>>, <<<<"gone">>>>},
     sizes \in {<<1, 4, 4, 4>>, <<0, 1, 1, 1>>}}
  \cup {[Defaults EXCEPT !.codec = codec, !.level = level] :
          codec \in {"none", "zstd", "gzip", "brotli"}, level \in {NoLevel, 0, 22}}
  \cup {[Defaults EXCEPT !.bloomOn = on] :
          on \in {<<On(<<"id">>, <<Fpp(100)>>)>>, <<On(<<"id">>, <<Ndv(0)>>)>>,
                  <<On(<<"id">>, <<Ndv(1), Ndv(2)>>)>>, <<On(<<>>, <<>>)>>,
                  <<On(<<"id">>, <<>>), On(<<"id">>, <<Ndv(7)>>)>>}}

AllFlags == ColumnFlags \cup EncodingFlags \cup OtherFlags

(* Few and many distinct values among ten rows; texts of four bytes, and of
   more than a dictionary page holds; a text of unknown length just fits. *)
SomeAnalyses == {[distinct |-> 1, average |-> 4], [distinct |-> 2, average |-> 4],
                 [distinct |-> 1, average |-> 40]}
TenRows == {0, 10}

-----------------------------------------------------------------------------

allVars == <<vars, settings>>

MCInit ==
  /\ Init /\ ~analyze
  /\ \/ format = "parquet" /\ SettingsInit
     \/ /\ format # "parquet" /\ phase = "writing"
        /\ args = Nothing /\ options = Nothing /\ schema = Nothing

(* The pipeline starts: its ingestion resolves the policies and passes the
   batches through, or analyses them. *)
StartPipeline ==
  /\ TakeSettings
  /\ analyze' = (NeedingAnalysis(options[1], schema) # {})
  /\ UNCHANGED <<taskState, batches, inVars, works, encVars, encoded, writeVars,
                 stage, joined, failed, streamVars>>

Settled == phase = "writing" /\ UNCHANGED settings

MCNext ==
  \/ Settled /\ Next
  \/ SettingsNext /\ UNCHANGED vars
  \/ StartPipeline

MCSpec == MCInit /\ [][MCNext]_allVars /\ WF_allVars(Settled /\ Runs)
=============================================================================

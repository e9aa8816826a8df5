------------------------ MODULE MCPartitionedOutput ------------------------
(* The outputs of a command for TLC: the values, streams, templates and
   commands that FileOutput is checked for. *)
EXTENDS FileOutput, TLC

-----------------------------------------------------------------------------
(* Values, rows and batches: one text of two characters that separate columns
   or segments, an empty one, and a null. *)

HiveEncodedIn == {"/", "%", "="}
PrimitiveIn == {"string", "float"}
TypesIn == [a |-> "string", b |-> "string"]
ByIn == <<"a", "b">>

Value(text) == [type |-> "string", text |-> text]
X == Value(<<Plain("x")>>)
XComma == Value(<<Plain("x"), Plain(",")>>)
CommaX == Value(<<Plain(","), Plain("x")>>)
Path == Value(<<Plain("x"), Slash, Encode(Slash)>>)
Dot == Value(<<Plain(".")>>)
NaN == [type |-> "nonfinite", text |-> <<Plain("NaN")>>]
Empty == Value(<<>>)

RowsIn == <<
  <<XComma, X>>, <<X, CommaX>>,  \* the same without lengths
  <<Path, X>>,
  <<Null, X>>, <<Empty, X>>,     \* the same target
  <<Dot, X>>, <<NaN, Path>> >>

Batches(S) == {<<RowsIn[i]>> : i \in S} \cup {<<RowsIn[i], RowsIn[j]>> : i, j \in S}
StreamsIn ==
  {<<b, <<>>, c>> : b, c \in Batches({1, 2})} \cup {<<b, c>> : b, c \in Batches({4, 5})}
  \cup {<<<<RowsIn[1]>>, [k \in 1..4 |-> RowsIn[b[k]]]>> : b \in [1..4 -> {1, 3, 7}]}
  \cup {<<>>, <<<<RowsIn[6]>>>>}

-----------------------------------------------------------------------------
(* Templates *)

Fixed(text) == [kind |-> "text", text |-> text]
Of(name) == [kind |-> "column", name |-> name, raw |-> FALSE, nested |-> FALSE]
RawOf(name) == [Of(name) EXCEPT !.raw = TRUE]
Pattern(parts) == [url |-> FALSE, absolute |-> FALSE, fragment |-> FALSE,
                   bracesOutsidePath |-> FALSE, parts |-> parts]
Url(t) == [t EXCEPT !.url = TRUE]

Hive == Pattern(<<Fixed(<<Plain("="), Encode(Plain("%"))>>), Of("a"), Fixed(<<Slash>>), Of("b")>>)
ByB == Pattern(<<Of("b")>>)
RawA == Pattern(<<RawOf("a"), Fixed(<<Slash>>), Of("b")>>)
Dashed == Pattern(<<Of("a"), Fixed(<<Plain("-")>>), Of("b"), Fixed(<<Plain("-")>>), Of("file_number")>>)
Templates == {Hive, Url(Hive), [Hive EXCEPT !.absolute = TRUE], ByB, Url(RawA), Url(Dashed),
              [Dashed EXCEPT !.parts[5].nested = TRUE], [Url(Hive) EXCEPT !.fragment = TRUE]}

-----------------------------------------------------------------------------
(* Commands *)

KeysIn == {KeyOf(r) : r \in Range(RowsIn)}
Command(t, strategy, maxOpen, overwrite, existing) ==
  [template |-> t, strategy |-> strategy, path |-> [k \in KeysIn |-> PathOf(t, Rows[k])],
   maxOpen |-> maxOpen, overwrite |-> overwrite, existing |-> existing, runs |-> MaxRuns]
Exact == [Command(ByB, "exact", 1, FALSE, {}) EXCEPT !.path = [k \in {1} |-> 1]]
JobsIn ==
  LET Fits(strategy) == {t \in Templates : TemplateAccepts(t, By, TypesIn, strategy)}
  IN {Command(t, "nosort-evict", n, FALSE, {<<1, 1>>}) : t \in Fits("nosort-evict"), n \in {1, 2}}
     \cup {Command(t, strategy, 1, over, IF over THEN {<<1, 0>>} ELSE {}) :
             t \in Fits("sort-single"), strategy \in {"sort-single", "nosort-multi"},
             over \in BOOLEAN}
     \cup {Exact}
=============================================================================

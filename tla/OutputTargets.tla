---------------------------- MODULE OutputTargets ----------------------------
(***************************************************************************)
(* The template of a partitioned output (src/commands/transform/           *)
(* file_output/target_template.rs): what makes one acceptable, and the     *)
(* target it renders for the values of a partition.                        *)
(*                                                                         *)
(* A text is a sequence of characters, each with the number of times it is *)
(* percent-encoded: "/" is [c |-> "/", n |-> 0], "%2F" n = 1, "%252F" n = 2. *)
(* A template is a URL or a bare path, and its object path is a sequence   *)
(* of parts: text, or the interpolation of a column or of file_number.     *)
(***************************************************************************)
EXTENDS Integers, Sequences, FiniteSets, Collections

CONSTANTS HiveEncoded,  \* HIVE_ENCODE_SET
          Primitive     \* the types that a partition column may have

Characters == [c : STRING, n : Nat]
Plain(c) == [c |-> c, n |-> 0]
Slash == Plain("/")
Encode(unit) == [unit EXCEPT !.n = @ + 1]
OnEach(text, F(_)) == [i \in DOMAIN text |-> F(text[i])]

(* HIVE_DEFAULT_PARTITION, which holds no character that is encoded. *)
Default == <<Plain("__HIVE_DEFAULT_PARTITION__")>>

(* OutputTargetTemplate: its envelope, and its parts. *)
TextParts == [kind : {"text"}, text : Seq(Characters)]
ColumnParts == [kind : {"column"}, name : STRING, raw : BOOLEAN, nested : BOOLEAN]
TargetTemplates ==
  [url : BOOLEAN, absolute : BOOLEAN, fragment : BOOLEAN, bracesOutsidePath : BOOLEAN,
   parts : Seq(TextParts \cup ColumnParts)]

-----------------------------------------------------------------------------
(* OutputTargetTemplate::new and the checks of FileOutputBinder::bind          *)

Interpolations(t) == {i \in DOMAIN t.parts : t.parts[i].kind # "text"}
Referenced(t) == {t.parts[i].name : i \in Interpolations(t)}

(* parse_envelope: a URL has no fragment, and its query and authority are
   fixed. *)
ValidEnvelope(t) == t.parts # <<>> /\ (t.url => ~t.fragment /\ ~t.bracesOutsidePath)

(* require_file_number: outside every block, and by itself. *)
NumberDirect(t) ==
  LET numbers == {i \in Interpolations(t) : t.parts[i].name = "file_number"}
  IN numbers # {} /\ \A i \in numbers : ~t.parts[i].nested /\ ~t.parts[i].raw

TemplateAccepts(t, by, types, strategy) ==
  /\ \A c \in Range(by) : c \in DOMAIN types /\ types[c] \in Primitive
  /\ "file_number" \notin Range(by)
  /\ ValidEnvelope(t)
  /\ IF strategy = "nosort-evict" THEN NumberDirect(t) ELSE "file_number" \notin Referenced(t)
  /\ Referenced(t) \ {"file_number"} \subseteq Range(by)

-----------------------------------------------------------------------------
(* render                                                                     *)

(* hive_escape_path; a null arrives as the default, and the empty text is
   it. *)
HiveEscaped(text) ==
  IF text = <<>> THEN Default
  ELSE OnEach(text, LAMBDA u : IF u.n > 0 \/ u.c \in HiveEncoded THEN Encode(u) ELSE u)

(* The filter raw. *)
Raw(text) == IF text = <<>> THEN Default ELSE text

(* In a URL what is interpolated keeps its percent signs through the decoding.
   Faulty variant: it does not. *)
Unprotected(text) == text
Protected(text) == OnEach(text, LAMBDA u : IF u.n > 0 \/ u.c = "%" THEN Encode(u) ELSE u)

Decoded(text) == OnEach(text, LAMBDA u : IF u.n > 0 THEN [u EXCEPT !.n = @ - 1] ELSE u)

(* values[c] is the text of column c, or of file_number. *)
Interpolated(t, part, values) ==
  LET text == IF part.raw THEN Raw(values[part.name]) ELSE HiveEscaped(values[part.name])
  IN IF t.url THEN Protected(text) ELSE text
RenderedPart(t, part, values) ==
  IF part.kind = "text" THEN part.text ELSE Interpolated(t, part, values)

ObjectPath(t, values) ==
  LET rendered == FlattenSeq([i \in DOMAIN t.parts |-> RenderedPart(t, t.parts[i], values)])
  IN IF t.url THEN Decoded(rendered) ELSE rendered

(* A path as the sequence of its segments. *)
Segments(path) ==
  LET ends == Filter([i \in 1..(Len(path) + 1) |-> i],
                     LAMBDA i : i = Len(path) + 1 \/ path[i] = Slash)
  IN [k \in DOMAIN ends |-> SubSeq(path, IF k = 1 THEN 1 ELSE ends[k - 1] + 1, ends[k] - 1)]

Dots == {<<Plain(".")>>, <<Plain("."), Plain(".")>>}
Renders(t, values) == Range(Segments(ObjectPath(t, values))) \cap ({<<>>} \cup Dots) = {}

(* The target: the envelope of the template, and the segments, which a URL
   encodes and its store decodes again. *)
RenderedTarget(t, values) ==
  [envelope |-> IF t.url THEN "url" ELSE IF t.absolute THEN "absolute" ELSE "relative",
   segments |-> Segments(ObjectPath(t, values))]

-----------------------------------------------------------------------------
(* The segments of the template itself: those of its text, decoded in a URL. *)
Skeleton(t) ==
  LET text == FlattenSeq([i \in DOMAIN t.parts |->
                IF t.parts[i].kind = "text" THEN t.parts[i].text ELSE <<>>])
  IN Len(Segments(IF t.url THEN Decoded(text) ELSE text))

Careful(t) == \A i \in Interpolations(t) : ~t.parts[i].raw

(* The same template as a bare path. *)
BarePart(part) ==
  IF part.kind = "text" THEN [part EXCEPT !.text = Decoded(@)] ELSE part
AsBare(t) ==
  [t EXCEPT !.url = FALSE, !.parts = [i \in DOMAIN t.parts |-> BarePart(t.parts[i])]]
=============================================================================

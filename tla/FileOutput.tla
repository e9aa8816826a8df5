------------------------------ MODULE FileOutput ------------------------------
(***************************************************************************)
(* The outputs of a command from the batches of its plan to its report:    *)
(* the writer of PartitionedOutput, whose runs are those that PartitionRuns *)
(* cuts, and whose targets those that a template of OutputTargets renders.  *)
(*                                                                         *)
(* A row is known by its place in Rows.  A partition key, and the target   *)
(* that a template renders, are known by the first row that has them; the  *)
(* number that nosort-evict adds is kept apart, as PartitionedOutput has   *)
(* it.                                                                     *)
(***************************************************************************)
EXTENDS PartitionedOutput, PartitionRuns, OutputTargets

CONSTANTS By,    \* the columns of --by
          Types, \* the types of the columns of the input
          Rows   \* the rows that a stream may have

ColumnValues == {Null} \cup [type : STRING, text : Seq(Characters)]

-----------------------------------------------------------------------------
(* The texts that a template is given: null arrives as the default. *)
PartText(v) == IF v = Null THEN Default ELSE v.text
Values(row, number) ==
  [name \in Range(By) \cup {"file_number"} |->
     IF name = "file_number" THEN <<Plain(number)>>
     ELSE PartText(row[CHOOSE c \in DOMAIN By : By[c] = name])]

First(S) == CHOOSE i \in S : \A j \in S : i <= j
SameKey(row) == {i \in DOMAIN Rows : PartitionKey(Rows[i]) = PartitionKey(row)}
KeyOf(row) == First(SameKey(row))
TargetOf(t, row) == RenderedTarget(t, Values(row, "N"))
SameTarget(t, row) == {i \in DOMAIN Rows : TargetOf(t, Rows[i]) = TargetOf(t, row)}
PathOf(t, row) == First(SameTarget(t, row))

(* Rows have the values of the columns, of which a text is one value; streams
   have these rows.  A separator of segments is encoded.  The template of a
   command was accepted, and a partition's target is the one it renders. *)
ASSUME RowsAssumption ==
  /\ By \in Seq(STRING)
  /\ Rows \in Seq([DOMAIN By -> ColumnValues])
  /\ \A r, s \in Range(Rows), c \in DOMAIN By :
       r[c] # Null /\ s[c] # Null /\ r[c].text = s[c].text => r[c] = s[c]
  /\ \A r \in Range(Rows), c, d \in DOMAIN By : By[c] = By[d] => r[c] = r[d]
  /\ Streams \subseteq Seq(Seq(Range(Rows)))
  /\ Keys = {KeyOf(row) : row \in Range(Rows)}
  /\ "/" \in HiveEncoded
  /\ \A j \in Jobs : j.strategy # "exact" =>
       /\ j.template \in TargetTemplates
       /\ TemplateAccepts(j.template, By, Types, j.strategy)
       /\ j.path = [k \in Keys |-> PathOf(j.template, Rows[k])]

-----------------------------------------------------------------------------
(* Composition *)

Template == job.template

FileInit == Init /\ RunsInit

TakeRun ==
  /\ IF Strategy = "exact" THEN EmitBatch ELSE Emit
  /\ NextRun
  /\ Strategy # "exact" => Last(seen') = KeyOf(ValuesOf(Last(runs')))

(* A target that the template refuses to render is not opened. *)
OpenRendered == OpenOk /\ (Strategy # "exact" => Renders(Template, Values(Rows[Key], "N")))

Others == \/ OpenRendered \/ OpenFails \/ Write \/ WriteFails \/ FinishVictim
          \/ FinishNext \/ Succeed \/ AbortNext \/ Fail

LoadBatch == pc = "next" /\ Strategy # "exact" /\ Load /\ UNCHANGED vars

FileNext ==
  \/ LoadBatch
  \/ TakeRun
  \/ Drained /\ StreamEnds /\ UNCHANGED runVars
  \/ StreamFails /\ UNCHANGED runVars
  \/ Others /\ UNCHANGED runVars

FileSpec == FileInit /\ [][FileNext]_<<vars, runVars>>

-----------------------------------------------------------------------------
(* Properties *)

(* The rows of the input that have the values of a partition. *)
RowsWith(row) == Filter(AllRows, LAMBDA r : input[r[1]][r[2]] = row)

(* A command that succeeds has put every row of its input into the outputs of
   the partition whose values it has, once and in order, whatever the batches
   were and whatever separators the values contain; each of these outputs is
   where the template renders those values, and the report names them. *)
RowsReachTheirFiles == pc = "ok" =>
  /\ Strategy = "exact" => RowsOfRuns(OutputOf(Key)) = AllRows
  /\ Strategy # "exact" => \A row \in Range(Rows) :
       /\ RowsOfRuns(OutputOf(KeyOf(row))) = RowsWith(row)
       /\ \A o \in Range(completed) : o.key = KeyOf(row) =>
            /\ TargetOf(Template, Rows[o.target[1]]) = TargetOf(Template, row)
            /\ PartitionFields(Rows[o.key]) = PartitionFields(row)

(* Every column is interpolated, and two of them are in different segments. *)
Separated(t) ==
  /\ Referenced(t) = Range(By) /\ Careful(t)
  /\ \A i, j \in Interpolations(t) : i < j =>
       \E m \in i..j : t.parts[m].kind = "text" /\ Slash \in Range(t.parts[m].text)

(* What a template cannot tell from null. *)
Blank(v) == PartText(v) \in {<<>>, Default}

(* No value of a partition changes the shape of a target: what is opened has the
   segments that the template has, unless the user asked for raw text; a
   template means the same as a URL and as a bare path; and with all columns in
   segments of their own two partitions meet in one target only where one
   value is null and the other empty. *)
TargetsKeepTheirShape == \A i \in DOMAIN open : Strategy # "exact" =>
  LET row == Rows[open[i].key]
      target == TargetOf(Template, row)
  IN /\ Careful(Template) => Len(target.segments) = Skeleton(Template)
     /\ Template.url =>
          target.segments = TargetOf(AsBare(Template), row).segments
     /\ Separated(Template) => \A k \in Range(seen) :
          TargetOf(Template, Rows[k]) = target =>
            \A c \in DOMAIN By : Rows[k][c] = row[c] \/ (Blank(Rows[k][c]) /\ Blank(row[c]))
=============================================================================

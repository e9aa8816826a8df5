---------------------------- MODULE MCTableScan ----------------------------
(* An instance of TableScan for TLC: a table of two columns, one of a type
   that cannot be pushed down, which a change turns into one that can. *)
EXTENDS TableScan

CONSTANTS table, scan1          \* model values
CONSTANTS r1, r2, r3, r4        \* model values: rows

OneScan == {scan1}

Col(name, plain) == [name |-> name, plain |-> plain]

TwoVersions ==
  <<[schema |-> <<Col("x", TRUE), Col("y", FALSE)>>, rows |-> {r1, r2, r3}],
    [schema |-> <<Col("x", TRUE), Col("y", TRUE)>>, rows |-> {r1, r4}]>>

AllButFourth == {r1, r2, r3}

OnX     == [column |-> "x", exact |-> TRUE, keeps |-> {r1, r2, r4}]
OnXToo  == [column |-> "x", exact |-> TRUE, keeps |-> {r1, r3, r4}]
OnY     == [column |-> "y", exact |-> TRUE, keeps |-> {r1, r3}]
Inexact == [column |-> "x", exact |-> FALSE, keeps |-> {r1, r2, r3}]

(* Columns out of order; only a count, with more filters than may be pushed
   once the type has changed; a column that is not there; everything. *)
SomeQueries ==
  {[projection |-> <<2, 1>>, filters |-> {OnX, OnY}],
   [projection |-> <<>>, filters |-> {OnX, OnXToo, OnY, Inexact}],
   [projection |-> <<3>>, filters |-> {}],
   [projection |-> None, filters |-> {}]}

(* The present, at a place or any; or a time before the command began. *)
SomeReferences ==
  {[snapshot |-> None, location |-> None], [snapshot |-> None, location |-> "us"],
   [snapshot |-> 3, location |-> None]}

(* No stream, one, two, one twice, one too many. *)
SomeStreams == {<<>>, <<"a">>, <<"a", "b">>, <<"a", "a">>, <<"a", "b", "c">>}

Places == {"us", "eu"}

=============================================================================

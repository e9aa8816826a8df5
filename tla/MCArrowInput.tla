---------------------------- MODULE MCArrowInput ----------------------------
(* An instance of ArrowInput for TLC: files of two batches and of one, of two
   schemas, streams that end well or not, and an object that is neither. *)
EXTENDS ArrowInput

Dictionary(start, len, memory) == [at |-> start, len |-> len, memory |-> memory]
Batch(start, len, rows, memory) ==
  [at |-> start, len |-> len, rows |-> rows, memory |-> memory]

(* The second batch begins where half of the file ends. *)
TwoBatches ==
  [size |-> 32, magic |-> TRUE, trailer |-> TRUE, marked |-> FALSE, first |-> 0,
   begins |-> "none", variant |-> "file", schema |-> "s", footer |-> 3,
   dictionaries |-> <<Dictionary(8, 2, 3)>>,
   batches |-> <<Batch(10, 6, 2, 4), Batch(16, 3, 1, 2)>>]
OneBatch ==
  [TwoBatches EXCEPT !.size = 22, !.footer = 2, !.dictionaries = <<>>,
                     !.batches = <<Batch(8, 2, 1, 1)>>]
OtherSchema == [OneBatch EXCEPT !.schema = "other"]
LargeBlock == [OneBatch EXCEPT !.size = 36, !.batches = <<Batch(8, 2, 1, 1), Batch(10, 13, 1, 2)>>]
BadBlock == [OneBatch EXCEPT !.batches = <<Batch(20, 9, 1, 1)>>]
LongFooter == [OneBatch EXCEPT !.footer = 13]
Cut == [TwoBatches EXCEPT !.trailer = FALSE]

Stream ==
  [size |-> 15, magic |-> FALSE, trailer |-> TRUE, marked |-> TRUE, first |-> 1,
   begins |-> "schema", variant |-> "stream", schema |-> "s", footer |-> 0,
   dictionaries |-> <<>>, batches |-> <<Batch(9, 3, 2, 2), Batch(12, 3, 1, 2)>>]
OldStream == [Stream EXCEPT !.marked = FALSE, !.size = 14, !.batches = <<Batch(9, 3, 2, 2)>>]
CutStream == [Stream EXCEPT !.size = 14]

GroupsIn ==
  {<<TwoBatches>>, <<TwoBatches, OneBatch>>, <<OneBatch, OneBatch>>, <<OneBatch, OtherSchema>>,
   <<OneBatch, BadBlock>>, <<LongFooter>>, <<LargeBlock>>, <<Cut>>,
   <<Stream>>, <<OldStream, Stream>>, <<Stream, CutStream>>, <<OldStream, OldStream>>}
=============================================================================

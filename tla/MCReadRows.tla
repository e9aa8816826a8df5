----------------------------- MODULE MCReadRows -----------------------------
(* Instances of ReadRows for TLC. *)
EXTENDS ReadRows, TLC

CONSTANTS s1, s2   \* model values

TwoStreams == {s1, s2}

(* One stream of two rows, read together or one by one, beside one whose
   responses have none. *)
TwoRowsAndNone == [s \in TwoStreams |-> IF s = s1 THEN 2 ELSE 0]

(* Two streams of one row each. *)
OneRowEach == [s \in TwoStreams |-> 1]

Session1 == [framed |-> TRUE, types |-> "known", depth |-> 1, columns |-> "xy"]

(* Rows as they are. *)
Plain(rows, bytes) ==
  [count |-> rows, schema |-> Absent, declared |-> Absent,
   rows |-> [count |-> 0, bytes |-> bytes,
             message |-> [framed |-> TRUE, bytes |-> bytes, header |-> "batch",
                          codec |-> "none", buffers |-> <<>>, rows |-> rows,
                          schema |-> Session1]]]
Buffer(bytes, declared, decoded) ==
  [bytes |-> bytes, declared |-> declared, decoded |-> decoded]
Native(rows, codecOf, buffer) ==
  [Plain(rows, 2) EXCEPT !.rows.message.codec = codecOf,
                         !.rows.message.buffers = <<buffer>>]
Raw(rows, bytes, declared, length) ==
  [Plain(rows, bytes) EXCEPT !.declared = declared, !.rows.message.bytes = length]
NoRowsAtAll == [Plain(0, 0) EXCEPT !.rows = Absent]

Asking(wire, response_) == [wire |-> wire, response |-> response_]

OneEach == [c \in {Asking("none", "none")} |-> {Plain(0, 1), Plain(1, 2)}]

(* A server compresses as it was asked to, or not at all.  The native buffers,
   or the whole response, decompress to what they declare or to more. *)
SomeReplies ==
  [c \in {Asking(w, r) : w, r \in {"none", "lz4"}} |->
     {NoRowsAtAll}
     \cup (IF c.wire = "none" THEN {}
           ELSE {Native(1, "lz4", Buffer(2, 1, 9)),
                 [Native(2, "lz4", Buffer(2, 3, 3)) EXCEPT !.schema = Session1]})
     \cup (IF c.response = "none" THEN {Plain(0, 1)}
           ELSE {Raw(1, 1, 3, 3), Raw(1, 1, 2, 3),
                 [Plain(2, 2) EXCEPT !.declared = 0]})
     \cup (IF "none" \in {c.wire, c.response} THEN {}
           ELSE {[Native(1, "lz4", Buffer(2, 3, 3)) EXCEPT !.declared = 2]})]

Status(code, details) ==
  [kind |-> "status", code |-> code, broken |-> FALSE, envelope |-> code,
   details |-> details]
RetryAfter(delay) == [kind |-> "retry", decodes |-> TRUE, delay |-> delay]
StorageError(error) == [kind |-> "storage", decodes |-> TRUE, error |-> error]

SomeFailures ==
  {Status("unavailable", <<>>), Status("unavailable", <<RetryAfter(1)>>),
   Status("exhausted", <<>>), Status("exhausted", <<RetryAfter(0)>>),
   Status("unavailable", <<RetryAfter(0), StorageError("internal")>>),
   [Status("other", <<>>) EXCEPT !.broken = TRUE],
   Status("other", <<StorageError("StreamNotFound")>>),
   [kind |-> "credentials", transient |-> TRUE]}
=============================================================================

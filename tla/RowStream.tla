----------------------------- MODULE RowStream -----------------------------
(***************************************************************************)
(* What one BigQuery read partition promises DataFusion: the rows of its   *)
(* stream, each once and in order, until the stream has ended with all of  *)
(* them or has failed; or until its consumer has gone away.                *)
(*                                                                         *)
(* A row is its number in the server's stream.                             *)
(***************************************************************************)
EXTENDS Naturals, Sequences

CONSTANTS Streams,   \* the partitions of one scan
          Rows       \* Rows[s]: number of rows of the server's stream s

VARIABLES delivered, \* delivered[s]: the rows the consumer has been given
          outcome    \* outcome[s]: "open", "ended", "failed" or "dropped"

absvars == <<delivered, outcome>>

Init ==
  /\ delivered = [s \in Streams |-> <<>>]
  /\ outcome = [s \in Streams |-> "open"]

(* The next rows of the stream are delivered together. *)
Deliver(s) ==
  /\ outcome[s] = "open"
  /\ \E n \in 1..Rows[s] :
       /\ Len(delivered[s]) + n <= Rows[s]
       /\ delivered' = [delivered EXCEPT
            ![s] = @ \o [i \in 1..n |-> Len(@) + i]]
  /\ UNCHANGED outcome

(* The stream is over; it ends normally only when every row was delivered. *)
Finish(s) ==
  /\ outcome[s] = "open"
  /\ \E o \in {"ended", "failed", "dropped"} :
       /\ o = "ended" => Len(delivered[s]) = Rows[s]
       /\ outcome' = [outcome EXCEPT ![s] = o]
  /\ UNCHANGED delivered

Next == \E s \in Streams : Deliver(s) \/ Finish(s)

Spec == Init /\ [][Next]_absvars
=============================================================================

---------------------------- MODULE AtomicObject ----------------------------
(***************************************************************************)
(* What one ObjectUpload promises its caller: an object whose bytes are    *)
(* accepted one chunk after another and that becomes visible in the store  *)
(* at once, whole, and only after its caller has decided to complete it.   *)
(* An abort, or a caller that goes away, never publishes anything.         *)
(*                                                                         *)
(* Bytes are numbered in the order in which they are accepted, so the      *)
(* whole stream of n bytes is the sequence 1, 2, ..., n.                   *)
(***************************************************************************)
EXTENDS Naturals, Sequences

CONSTANTS Uploads,   \* the uploads of one command
          NoObject   \* "nothing is visible at the target"

VARIABLES accepted,  \* accepted[u]: bytes taken from the producer
          decision,  \* decision[u]: "open", "complete" or "abort"
          object,    \* object[u]: what the store shows at the target
          outcome    \* outcome[u]: "none", "ok", "aborted" or "err"

absvars == <<accepted, decision, object, outcome>>

(* The bytes of a stream of n bytes, in order. *)
Stream(n) == [i \in 1..n |-> i]

Init ==
  /\ accepted = [u \in Uploads |-> 0]
  /\ decision = [u \in Uploads |-> "open"]
  /\ object = [u \in Uploads |-> NoObject]
  /\ outcome = [u \in Uploads |-> "none"]

(* Bytes are accepted until the object is visible or the upload is over. *)
Accept(u) ==
  /\ object[u] = NoObject
  /\ outcome[u] = "none"
  /\ accepted'[u] > accepted[u]
  /\ accepted' = [accepted EXCEPT ![u] = accepted'[u]]
  /\ UNCHANGED <<decision, object, outcome>>

(* The caller decides once. *)
Decide(u) ==
  /\ decision[u] = "open"
  /\ \E d \in {"complete", "abort"} : decision' = [decision EXCEPT ![u] = d]
  /\ UNCHANGED <<accepted, object, outcome>>

(* The whole object appears in one step. *)
Publish(u) ==
  /\ decision[u] = "complete"
  /\ outcome[u] = "none"
  /\ object[u] = NoObject
  /\ object' = [object EXCEPT ![u] = Stream(accepted[u])]
  /\ UNCHANGED <<accepted, decision, outcome>>

(* Success is only reported for a visible object, an abort only without one. *)
Settle(u) ==
  /\ outcome[u] = "none"
  /\ \E o \in {"ok", "aborted", "err"} :
       /\ o = "ok" => object[u] # NoObject
       /\ o = "aborted" => object[u] = NoObject
       /\ outcome' = [outcome EXCEPT ![u] = o]
  /\ UNCHANGED <<accepted, decision, object>>

(* An upload whose worker never started is aborted by the decision itself. *)
DecideAndSettle(u) ==
  /\ decision[u] = "open" /\ outcome[u] = "none" /\ object[u] = NoObject
  /\ decision' = [decision EXCEPT ![u] = "abort"]
  /\ outcome' = [outcome EXCEPT ![u] = "aborted"]
  /\ UNCHANGED <<accepted, object>>

Next == \E u \in Uploads :
  Accept(u) \/ Decide(u) \/ Publish(u) \/ Settle(u) \/ DecideAndSettle(u)

Spec == Init /\ [][Next]_absvars
=============================================================================

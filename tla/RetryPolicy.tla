---------------------------- MODULE RetryPolicy -----------------------------
(***************************************************************************)
(* What a failure of ReadRows says about a retry                           *)
(* (silk-chiffon-input-bigquery, src/retry/mod.rs and status_detail.rs).   *)
(*                                                                         *)
(* A failure is one of credentials, of a local resource, or a gRPC status: *)
(* a code, whether the connection broke under it, and an envelope of       *)
(* details: its own code and a sequence of details.  A detail is of a      *)
(* kind, well formed or not, and holds a delay or an error.                *)
(***************************************************************************)
EXTENDS Integers, Sequences, SequencesExt

NoDelay == -1   \* no RetryInfo
NoDetails == <<>>

-----------------------------------------------------------------------------
(* StatusDetails::parse *)

OfKind(status, kind) == SelectSeq(status.details, LAMBDA d : d.kind = kind)

(* A type URL, a duration or a message that does not decode. *)
WellFormed(detail) ==
  /\ detail.decodes
  /\ detail.kind = "retry" => detail.delay >= 0
  /\ detail.kind = "storage" => detail.error # "unspecified"

DetailsValid(status) ==
  status.details # NoDetails =>
    /\ status.envelope = status.code
    /\ \A d \in ToSet(status.details) : WellFormed(d)
    /\ Len(OfKind(status, "retry")) + Len(OfKind(status, "storage")) <= 1

RetryInfo(status) ==
  LET infos == OfKind(status, "retry")
  IN  IF infos = <<>> THEN NoDelay ELSE infos[1].delay

-----------------------------------------------------------------------------
(* classify_read_rows_status: an error of the storage service is the end of
   the stream, a broken connection is not; the server may limit the rate, but
   then has to say for how long. *)
StatusRetried(status) ==
  /\ DetailsValid(status)
  /\ OfKind(status, "storage") = <<>>
  /\ \/ status.broken
     \/ status.code \in {"deadline", "unavailable"}
     \/ status.code = "exhausted" /\ RetryInfo(status) # NoDelay

(* classify_read_rows *)
Retried(failure) ==
  CASE failure.kind = "status"      -> StatusRetried(failure)
    [] failure.kind = "credentials" -> failure.transient
    [] OTHER                        -> FALSE

(* RetryDecision::retry: what the server asks for counts unless the connection
   broke. *)
ServerDelay(failure) ==
  IF failure.kind = "status" /\ ~failure.broken THEN RetryInfo(failure)
  ELSE NoDelay
=============================================================================

--------------------------- MODULE MCObjectUpload ---------------------------
(* Instances of ObjectUpload for TLC. *)
EXTENDS ObjectUpload, TLC

CONSTANTS u1, u2   \* model values

OneUpload  == {u1}
TwoUploads == {u1, u2}

(* One upload whose stream spans three parts and a tail-free end, or two
   parts and a tail, in chunks below, at and above the part size. *)
SixBytes == [u \in OneUpload |-> 6]

(* Two uploads, of two parts and of one part, that compete for two permits:
   the first may wait for its second permit while it holds its first. *)
TwoAndOne == [u \in TwoUploads |-> IF u = u1 THEN 2 ELSE 1]

(* Three bytes of one upload. *)
ThreeBytes == [u \in OneUpload |-> 3]

=============================================================================

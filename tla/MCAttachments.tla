---- MODULE MCAttachments ----
(* Attachments on a small instance. *)
EXTENDS Attachments, TLC
CONSTANTS c1, c2
TwoCalls == {c1, c2}
OneThumbnail == {[dir |-> "thumbnails", base |-> 0]}
ChangesBesideDeletes == c1 :> {"upload", "replace"} @@ c2 :> {"delete"}
====

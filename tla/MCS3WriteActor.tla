--------------------------- MODULE MCS3WriteActor ---------------------------
EXTENDS S3WriteActor

(* Two partition keys, and one file writer per row at most. *)
MCKeys == {"k1", "k2"}
MCWriters == {"w1", "w2", "w3"}

=============================================================================

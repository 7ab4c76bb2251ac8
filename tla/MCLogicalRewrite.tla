--------------------------- MODULE MCLogicalRewrite ---------------------------
(* Instance of LogicalRewrite: one Bool argument p, one Optional<Bool> q. *)
EXTENDS LogicalRewrite

MCBoolArgs == {"p"}
MCOptArgs == {"q"}
==============================================================================

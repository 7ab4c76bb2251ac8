------------------------------ MODULE ExprTerm ------------------------------
(***************************************************************************)
(* Expression nodes shared by the rewrite-rule modules.  A node is a      *)
(* record [op, args, val]: a callable with its children, a literal (val   *)
(* its value), or a free argument (val its name).  Structural equality of *)
(* records stands for the identity test the walker uses to see a change:  *)
(* a rule that does not fire returns its input unchanged.                 *)
(***************************************************************************)
EXTENDS Naturals, Sequences

Node(op, args) == [op |-> op, args |-> args, val |-> "none"]
BoolLit(v) == [op |-> "Bool", args |-> <<>>, val |-> v]
Arg(x) == [op |-> "Arg", args |-> <<>>, val |-> x]

(* ctx.WrapByCallableIf(cond, name, e) *)
WrapIf(cond, name, e) == IF cond THEN Node(name, <<e>>) ELSE e

(* ctx.ChangeChildren(node, kids) and ctx.RenameNode(node, name) *)
ChangeChildren(e, kids) == [e EXCEPT !.args = kids]
RenameNode(e, name) == [e EXCEPT !.op = name]

(* An atom child (an index or a member name), as in Visit. *)
Atom(v) == [op |-> "Atom", args |-> <<>>, val |-> v]

(* Applying a lambda (Builder Apply(...).With(0, r)): the argument x     *)
(* replaced by r in its body; a lambda that binds x again hides it.      *)
RECURSIVE Subst(_, _, _)
Subst(e, x, r) ==
  IF e = Arg(x) THEN r
  ELSE IF e.op = "Lambda" /\ e.val = x THEN e
  ELSE ChangeChildren(e, [i \in DOMAIN e.args |-> Subst(e.args[i], x, r)])

(* ctx.ReplaceNode / ApplyPartial(...).WithNode(old, new): every         *)
(* occurrence of the node old in e replaced by new.                      *)
RECURSIVE ReplaceNode(_, _, _)
ReplaceNode(e, old, new) ==
  IF e = old THEN new
  ELSE ChangeChildren(e, [i \in DOMAIN e.args |-> ReplaceNode(e.args[i], old, new)])
=============================================================================

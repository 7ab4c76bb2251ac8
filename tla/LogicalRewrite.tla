--------------------------- MODULE LogicalRewrite ---------------------------
(***************************************************************************)
(* Rewrite rules of ydb/library/yql/core/common_opt/yql_co_simple1.cpp    *)
(* for the logical callables Not, And, Or, Xor, the comparisons == and    *)
(* !=, Coalesce and If (registered by name at lines 4311-4317, 4036 and   *)
(* 4107), over Bool and Optional<Bool> expressions, and the fixpoint       *)
(* walker that applies them (spec.md 4.3; the walker is not in src/).     *)
(*                                                                         *)
(* An expression is a record [op, args, val]: a callable with its          *)
(* children, a Bool literal (val TRUE or FALSE), Nothing, or a free       *)
(* argument (val its name) of type Bool (BoolArgs) or Optional<Bool>      *)
(* (OptArgs).  Rules are checked against the SQL three-valued meaning of  *)
(* the callables, in which NULL stands for an empty Optional.             *)
(***************************************************************************)
EXTENDS ExprTerm, FiniteSets, SequencesExt

CONSTANTS
  BoolArgs,       \* names of free arguments of type Bool
  OptArgs,        \* names of free arguments of type Optional<Bool>
  NULL,           \* model value: the empty Optional
  MaxCoalesceArgs \* largest number of children of a generated Coalesce

(* MakeBoolNothing: the empty Optional<Bool>. *)
Nothing == Node("Nothing", <<>>)

(***************************************************************************)
(* Type annotation: "bool" (Data Bool), "opt" (Optional<Bool>) or "bad"  *)
(* for an expression the type annotator would reject.                      *)
(***************************************************************************)
RECURSIVE TypeOf(_)
TypeOf(e) ==
  LET n == Len(e.args)
      ts == {TypeOf(e.args[i]) : i \in 1 .. n}
      Logical == IF "bad" \in ts \/ n = 0 THEN "bad"
                 ELSE IF "opt" \in ts THEN "opt" ELSE "bool"
  IN CASE e.op = "Bool" -> "bool"
       [] e.op = "Nothing" -> "opt"
       [] e.op = "Arg" -> IF e.val \in BoolArgs THEN "bool" ELSE "opt"
       [] e.op = "Just" -> IF n = 1 /\ TypeOf(e.args[1]) = "bool" THEN "opt" ELSE "bad"
       [] e.op = "Not" -> IF n = 1 THEN TypeOf(e.args[1]) ELSE "bad"
       [] e.op \in {"And", "Or", "Xor"} -> Logical
       [] e.op \in {"==", "!="} -> IF n = 2 THEN Logical ELSE "bad"
       [] e.op = "Coalesce" ->
            IF n = 0 \/ "bad" \in ts THEN "bad" ELSE TypeOf(e.args[n])
       [] e.op = "If" ->
            LET BadPred(i) == i % 2 = 1 /\ TypeOf(e.args[i]) # "bool"
                BadValue(i) == i % 2 = 0 /\ TypeOf(e.args[i]) # TypeOf(e.args[n])
            IN IF n < 3 \/ n % 2 = 0 \/ "bad" \in ts
                  \/ \E i \in 1 .. n - 1 : BadPred(i) \/ BadValue(i)
               THEN "bad" ELSE TypeOf(e.args[n])
       [] OTHER -> "bad"

IsBoolType(e) == TypeOf(e) = "bool"
IsOptBoolType(e) == TypeOf(e) = "opt"

(***************************************************************************)
(* Three-valued meaning under env (argument name -> TRUE, FALSE or NULL). *)
(***************************************************************************)
RECURSIVE Eval(_, _)
Eval(e, env) ==
  LET n == Len(e.args)
      v(i) == Eval(e.args[i], env)
      vs == {v(i) : i \in 1 .. n}
      Neg(x) == IF x = NULL THEN NULL ELSE ~x
      Parity == Cardinality({i \in 1 .. n : v(i) = TRUE}) % 2 = 1
      FirstTrue == SelectInSeq([i \in 1 .. (n - 1) \div 2 |-> v(2 * i - 1)],
                               LAMBDA x : x = TRUE)
  IN CASE e.op = "Bool" -> e.val
       [] e.op = "Nothing" -> NULL
       [] e.op = "Arg" -> env[e.val]
       [] e.op = "Just" -> v(1)
       [] e.op = "Not" -> Neg(v(1))
       [] e.op = "And" -> IF FALSE \in vs THEN FALSE
                          ELSE IF NULL \in vs THEN NULL ELSE TRUE
       [] e.op = "Or" -> IF TRUE \in vs THEN TRUE
                         ELSE IF NULL \in vs THEN NULL ELSE FALSE
       [] e.op = "Xor" -> IF NULL \in vs THEN NULL ELSE Parity
       [] e.op = "==" -> IF NULL \in vs THEN NULL ELSE v(1) = v(2)
       [] e.op = "!=" -> IF NULL \in vs THEN NULL ELSE v(1) # v(2)
       [] e.op = "Coalesce" ->
            LET nn == SelectInSeq([i \in 1 .. n |-> v(i)], LAMBDA x : x # NULL)
            IN IF nn = 0 THEN NULL ELSE v(nn)
       [] e.op = "If" -> IF FirstTrue = 0 THEN v(n) ELSE v(2 * FirstTrue)

Envs == [BoolArgs -> BOOLEAN] \X [OptArgs -> BOOLEAN \cup {NULL}]
Env(pair) == [x \in BoolArgs \cup OptArgs |->
                IF x \in BoolArgs THEN pair[1][x] ELSE pair[2][x]]

(* How many children of e are callables named op. *)
CountOp(e, op) == Cardinality({i \in 1 .. Len(e.args) : e.args[i].op = op})

(* The children of e, each child named like e replaced by its children. *)
Flatten(e) ==
  FlattenSeq([i \in 1 .. Len(e.args) |->
                IF e.args[i].op = e.op THEN e.args[i].args ELSE <<e.args[i]>>])

(* The children of e with Just(x) replaced by x. *)
StripJust(e) ==
  [i \in 1 .. Len(e.args) |->
     IF e.args[i].op = "Just" THEN e.args[i].args[1] ELSE e.args[i]]

(* Mutant: the decisive literal is the one equal to AndOr. *)
SimplifyLogicalSwappedLiteral(e, andOr) ==
  LET decisive == SelectInSeq(e.args, LAMBDA c : c.op = "Bool" /\ c.val = andOr)
      rest == SelectSeq(e.args, LAMBDA c : c.op # "Bool")
  IN
  IF Len(e.args) = CountOp(e, "Nothing") THEN e.args[1]
  ELSE IF CountOp(e, e.op) > 0 THEN Node(e.op, Flatten(e))
  ELSE IF CountOp(e, "Bool") > 0
    THEN IF decisive > 0 THEN WrapIf(IsOptBoolType(e), "Just", e.args[decisive])
         ELSE IF rest = <<>> THEN WrapIf(IsOptBoolType(e), "Just", BoolLit(andOr))
         ELSE Node(e.op, rest)
  ELSE e

(* Mutant: the literal results are not wrapped in Just for Optional nodes. *)
SimplifyLogicalNoJust(e, andOr) ==
  LET decisive == SelectInSeq(e.args, LAMBDA c : c.op = "Bool" /\ c.val # andOr)
      rest == SelectSeq(e.args, LAMBDA c : c.op # "Bool")
  IN
  IF CountOp(e, "Bool") > 0
    THEN IF decisive > 0 THEN e.args[decisive]
         ELSE IF rest = <<>> THEN BoolLit(andOr) ELSE Node(e.op, rest)
  ELSE e

(***************************************************************************)
(* SimplifyLogical<AndOr>: And (andOr = TRUE) and Or (FALSE).  In order:  *)
(* all children Nothing; a child of the same name (flatten); only Just    *)
(* and Bool-typed children (strip the Justs, wrap the result in Just); a  *)
(* literal: the first one equal to ~andOr decides the result, the others  *)
(* are dropped.  The rule over all-negated children is commented out in   *)
(* the source ("TODO Move to peephole") and is not applied.               *)
(***************************************************************************)
SimplifyLogical(e, andOr) ==
  LET size == Len(e.args)
      justs == CountOp(e, "Just")
      bools == Cardinality({i \in 1 .. size : IsBoolType(e.args[i])})
      decisive == SelectInSeq(e.args, LAMBDA c : c.op = "Bool" /\ c.val # andOr)
      rest == SelectSeq(e.args, LAMBDA c : c.op # "Bool")
  IN
  IF size = CountOp(e, "Nothing") THEN e.args[1]
  ELSE IF CountOp(e, e.op) > 0 THEN Node(e.op, Flatten(e))
  ELSE IF justs > 0 /\ size = justs + bools
    THEN Node("Just", <<Node(e.op, StripJust(e))>>)
  ELSE IF CountOp(e, "Bool") > 0
    THEN IF decisive > 0 THEN WrapIf(IsOptBoolType(e), "Just", e.args[decisive])
         ELSE IF rest = <<>> THEN WrapIf(IsOptBoolType(e), "Just", BoolLit(andOr))
         ELSE Node(e.op, rest)
  ELSE e

(***************************************************************************)
(* SimplifyLogicalXor: a Nothing child is the result; flatten; strip      *)
(* Justs; else negations and literals are folded into one inversion.      *)
(***************************************************************************)
SimplifyLogicalXor(e) ==
  LET size == Len(e.args)
      nothing == SelectInSeq(e.args, LAMBDA c : c.op = "Nothing")
      justs == CountOp(e, "Just")
      bools == Cardinality({i \in 1 .. size : IsBoolType(e.args[i])})
      inverse == (CountOp(e, "Not") +
                  Cardinality({i \in 1 .. size : e.args[i] = BoolLit(TRUE)})) % 2 = 1
      kept == [i \in 1 .. Len(SelectSeq(e.args, LAMBDA c : c.op # "Bool")) |->
                 LET c == SelectSeq(e.args, LAMBDA d : d.op # "Bool")[i]
                 IN IF c.op = "Not" THEN c.args[1] ELSE c]
  IN
  IF nothing > 0 THEN e.args[nothing]
  ELSE IF CountOp(e, e.op) > 0 THEN Node(e.op, Flatten(e))
  ELSE IF justs > 0 /\ size = justs + bools
    THEN Node("Just", <<Node(e.op, StripJust(e))>>)
  ELSE IF CountOp(e, "Bool") + CountOp(e, "Not") > 0
    THEN IF kept = <<>> THEN WrapIf(IsOptBoolType(e), "Just", BoolLit(inverse))
         ELSE WrapIf(inverse, "Not", Node(e.op, kept))
  ELSE e

(* SimplifyLogicalNot *)
SimplifyLogicalNot(e) ==
  LET h == e.args[1] IN
  CASE h.op = "Nothing" -> h
    [] h.op = "Not" -> h.args[1]
    [] h.op = "Just" -> Node("Just", <<Node("Not", h.args)>>)
    [] h.op = "Bool" -> BoolLit(~h.val)
    [] OTHER -> e

(***************************************************************************)
(* OptimizeEquality<Equal>: == (equal = TRUE) and != (FALSE).  Nothing on *)
(* either side gives Nothing; Just over data is stripped (the result      *)
(* wrapped in Just if the other side is data); comparison with a literal  *)
(* is the other side, negated unless the literal equals Equal.            *)
(***************************************************************************)
OptimizeEquality(e, equal) ==
  LET h == e.args[1]
      t == e.args[2]
  IN
  IF h.op = "Nothing" \/ t.op = "Nothing" THEN Nothing
  ELSE IF h.op = "Just" /\ IsBoolType(h.args[1])
    THEN WrapIf(IsBoolType(t), "Just", Node(e.op, <<h.args[1], t>>))
  ELSE IF t.op = "Just" /\ IsBoolType(t.args[1])
    THEN WrapIf(IsBoolType(h), "Just", Node(e.op, <<h, t.args[1]>>))
  ELSE IF h.op = "Bool" THEN WrapIf(equal # h.val, "Not", t)
  ELSE IF t.op = "Bool" THEN WrapIf(equal # t.val, "Not", h)
  ELSE e


(* RemoveNothingFromCoalesce: drop the leading Nothing. *)
RemoveNothingFromCoalesce(e) == ChangeChildren(e, Tail(e.args))

(***************************************************************************)
(* PropagateCoalesceWithConstIntoLogicalOps, called when the last child   *)
(* is a Bool literal.  Over Not it builds Not(Coalesce(x, Not(Child(1)))) *)
(* and over And/Or it pushes Coalesce(child, Tail) into every child: both *)
(* read only the head and one other child.  The Likely branch is left     *)
(* out (Likely is not generated).                                          *)
(***************************************************************************)
PropagateCoalesceWithConstIntoLogicalOps(e) ==
  LET h == e.args[1] IN
  CASE h.op = "Not" ->
         Node("Not", <<Node("Coalesce", <<h.args[1], Node("Not", <<e.args[2]>>)>>)>>)
    [] h.op \in {"And", "Or"} ->
         Node(h.op, [i \in 1 .. Len(h.args) |->
                       Node("Coalesce", <<h.args[i], Last(e.args)>>)])
    [] OTHER -> e

(***************************************************************************)
(* map["Coalesce"]: leading Nothing; leading Just (kept when its type is  *)
(* the last child's, else unwrapped); literal default.  The               *)
(* IsTransparentIfPresent branch needs lambdas and is not generated.       *)
(***************************************************************************)
CoalesceRule(e) ==
  LET h == e.args[1] IN
  IF h.op = "Nothing" THEN RemoveNothingFromCoalesce(e)
  ELSE IF h.op = "Just"
    THEN IF TypeOf(h) = TypeOf(Last(e.args)) THEN h ELSE h.args[1]
  ELSE IF Last(e.args).op = "Bool" THEN PropagateCoalesceWithConstIntoLogicalOps(e)
  ELSE e

(* Mutant: literal branches are canonicalised to a negated predicate,     *)
(* which the negated-predicate rule turns back.                           *)
IfRuleNegateBranches(e) ==
  LET n == Len(e.args)
      lit == SelectInSeq([j \in 1 .. (n - 1) \div 2 |-> e.args[2 * j - 1]],
                         LAMBDA c : c.op = "Bool")
      i == 2 * lit - 1
      kids == IF e.args[i].val THEN SubSeq(e.args, 1, i - 1) \o <<e.args[i + 1]>>
              ELSE SubSeq(e.args, 1, i - 1) \o SubSeq(e.args, i + 2, n)
      lp == n - 2
  IN
  IF lit > 0 THEN IF Len(kids) > 1 THEN Node("If", kids) ELSE kids[1]
  ELSE IF e.args[lp].op = "Not"
    THEN Node("If", [e.args EXCEPT ![lp] = e.args[lp].args[1],
                                    ![lp + 1] = e.args[lp + 2],
                                    ![lp + 2] = e.args[lp + 1]])
  ELSE IF n = 3 /\ e.args[2].op = "Bool" /\ e.args[3].op = "Bool"
          /\ e.args[2].val # e.args[3].val
    THEN Node("If", <<Node("Not", <<e.args[1]>>), e.args[3], e.args[2]>>)
  ELSE e

(***************************************************************************)
(* map["If"]: the first literal predicate (children 1, 3, ... before the  *)
(* else branch) either cuts the tail after its value (TRUE) or removes    *)
(* its pair (FALSE), and a single child left is the result; otherwise a   *)
(* negated last predicate is stripped and its two branches swapped;       *)
(* otherwise If(p, Bool a, Bool b) with a # b is p, negated if b.         *)
(***************************************************************************)
IfRule(e) ==
  LET n == Len(e.args)
      lit == SelectInSeq([j \in 1 .. (n - 1) \div 2 |-> e.args[2 * j - 1]],
                         LAMBDA c : c.op = "Bool")
      i == 2 * lit - 1
      kids == IF e.args[i].val THEN SubSeq(e.args, 1, i - 1) \o <<e.args[i + 1]>>
              ELSE SubSeq(e.args, 1, i - 1) \o SubSeq(e.args, i + 2, n)
      lp == n - 2
  IN
  IF lit > 0 THEN IF Len(kids) > 1 THEN Node("If", kids) ELSE kids[1]
  ELSE IF e.args[lp].op = "Not"
    THEN Node("If", [e.args EXCEPT ![lp] = e.args[lp].args[1],
                                    ![lp + 1] = e.args[lp + 2],
                                    ![lp + 2] = e.args[lp + 1]])
  ELSE IF n = 3 /\ e.args[2].op = "Bool" /\ e.args[3].op = "Bool"
          /\ e.args[2].val # e.args[3].val
    THEN WrapIf(e.args[3].val, "Not", e.args[1])
  ELSE e

(* The callable table: map[name] for the callables modelled here. *)
Rule(e) ==
  CASE e.op = "Not" -> SimplifyLogicalNot(e)
    [] e.op = "And" -> SimplifyLogical(e, TRUE)
    [] e.op = "Or" -> SimplifyLogical(e, FALSE)
    [] e.op = "Xor" -> SimplifyLogicalXor(e)
    [] e.op = "==" -> OptimizeEquality(e, TRUE)
    [] e.op = "!=" -> OptimizeEquality(e, FALSE)
    [] e.op = "Coalesce" -> CoalesceRule(e)
    [] e.op = "If" -> IfRule(e)
    [] OTHER -> e

(***************************************************************************)
(* One pass of the fixpoint walker (spec.md 4.3): rewrite the children    *)
(* first, then apply the node's rule once.                                 *)
(***************************************************************************)
(* The node with its children rewritten is bound once (as an element of a *)
(* set) before its rule looks at it repeatedly.                          *)
RECURSIVE Pass(_)
Pass(e) ==
  CHOOSE r \in {Rule(k) : k \in {ChangeChildren(e, [i \in 1 .. Len(e.args) |-> Pass(e.args[i])])}} : TRUE


(***************************************************************************)
(* Inputs: every well-typed expression of these shapes.  Children are     *)
(* literals, Nothing, the free arguments, their negations, Just over Bool *)
(* ones, and And/Or/Xor of two arguments.  A generated Coalesce has       *)
(* 2 .. MaxCoalesceArgs children, leaves after the first, and a default   *)
(* that is not Nothing.                                                    *)
(***************************************************************************)
Leaves == {BoolLit(TRUE), BoolLit(FALSE), Nothing} \cup
          {Arg(x) : x \in BoolArgs \cup OptArgs}
Children ==
  Leaves \cup {Node("Not", <<l>>) : l \in Leaves}
         \cup {Node("Just", <<l>>) : l \in {l \in Leaves : IsBoolType(l)}}
         \cup {Node(op, <<Arg(x), Arg(y)>>) : op \in {"And", "Or", "Xor"},
                                              x \in BoolArgs, y \in OptArgs}
Preds == {BoolLit(TRUE), BoolLit(FALSE)} \cup
         {Arg(x) : x \in BoolArgs} \cup {Node("Not", <<Arg(x)>>) : x \in BoolArgs}
Inputs ==
  {t \in
     {Node(op, <<c>>) : op \in {"Not", "Just"}, c \in Children}
     \cup {Node(op, <<a, b>>) : op \in {"And", "Or", "Xor", "==", "!="},
                                a \in Children, b \in Children}
     \cup {Node(op, <<a, b, c>>) : op \in {"And", "Or", "Xor"},
                                   a \in Leaves, b \in Leaves, c \in Leaves}
     \cup {Node("Coalesce", <<h>> \o m \o <<d>>) :
             h \in Children, m \in BoundedSeq(Leaves, MaxCoalesceArgs - 2),
             d \in Leaves \ {Nothing}}
     \cup {Node("If", <<p, a, b>>) : p \in Children, a \in Children, b \in Children}
     \cup {Node("If", <<p1, a, p2, b, c>>) :
             p1 \in Preds, p2 \in Preds, a \in Leaves, b \in Leaves, c \in Leaves}
   : TypeOf(t) # "bad"}

VARIABLES
  orig,  \* the expression given to the optimizer
  term   \* the expression after the passes run so far

vars == <<orig, term>>

Init == orig \in Inputs /\ term = orig

(* A pass that changes the expression; the walker then starts another. *)
Step == Pass(term) # term /\ term' = Pass(term) /\ UNCHANGED orig

(* The walker has reached its fixpoint and returns term. *)
Done == Pass(term) = term /\ UNCHANGED vars

Next == Step \/ Done

(* The walker runs passes until none changes the expression. *)
Spec == Init /\ [][Next]_vars /\ WF_vars(Step)

-----------------------------------------------------------------------------
(***************************************************************************)
(* Every pass of the rule table keeps the type annotation of the          *)
(* expression (spec.md 7, type-preserving rewrite): the Just wrappers the *)
(* rules add or strip (WrapByCallableIf(IsOptBoolType(node), "Just",     *)
(* ...), the Coalesce/Just rule) keep Bool and Optional<Bool> apart.      *)
(***************************************************************************)
TypePreserved == TypeOf(term) = TypeOf(orig)

(***************************************************************************)
(* Every pass keeps the three-valued meaning of the expression under every *)
(* assignment of the free arguments (spec.md 4.2: a rule returns a        *)
(* semantically equivalent node): literal folding, flattening, Just       *)
(* stripping, De Morgan-free negation folding of Xor, the Coalesce        *)
(* propagation into Not/And/Or and the If literal and negation rules.     *)
(***************************************************************************)
MeaningPreserved ==
  \A pair \in Envs : Eval(term, Env(pair)) = Eval(orig, Env(pair))

(***************************************************************************)
(* The walker converges: from every input, the passes eventually stop     *)
(* changing the expression (spec.md 4.3, no rule undoes another).         *)
(***************************************************************************)
ReachesFixpoint == <>[](Pass(term) = term)

====

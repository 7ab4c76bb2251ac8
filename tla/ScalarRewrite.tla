---------------------------- MODULE ScalarRewrite -----------------------------
(***************************************************************************)
(* The rules of the peephole optimizer (yql_co_simple1.cpp) for Min and   *)
(* Max (OptimizeMinMax, with the constant folding of integral literals of *)
(* ConstFoldNodeIntAggregate) and for OptionalReduce over data, and the   *)
(* calls the walker of LambdaRewrite applies them to.  Terms, types and   *)
(* meaning are those of LambdaTerm.                                       *)
(***************************************************************************)
EXTENDS LambdaTerm

CONSTANT
  WordBits \* the width of the ui64 and i64 words the fold computes in

ASSUME WordBits \in Nat /\ 2^(WordBits - 1) > Max(DataVals)

(* The callables of this module's table entries. *)
ScalarOps == {"Min", "Max", "OptionalReduce", "SafeCast", "Convert", "AggrCountInit", "AggrCountUpdate",
              "Minus"}
             \cup DistinctOps

(* The number of values of a word. *)
Word == 2^WordBits

(* TMinAggregate and TMaxAggregate: std::min and std::max. *)
TMinAggregate(cur, value) == IF value < cur THEN value ELSE cur
TMaxAggregate(cur, value) == IF cur < value THEN value ELSE cur

(* TCoIntegralCtor: a literal of an integral slot. *)
IsIntegralCtor(x) == x.op \in {"Uint64", "Int32"}

(***************************************************************************)
(* extractValue of ConstIntAggregate: ExtractIntegralValue gives the       *)
(* magnitude and the sign of the literal, and static_cast<TInt>(hasSign ? *)
(* -extracted : extracted) takes the ui64 bits of the signed value, read  *)
(* as unsigned (TInt = ui64) or in two's complement (TInt = i64).         *)
(***************************************************************************)
IntegralValue(x, signed) ==
  LET bits == x.val % Word IN
  IF signed /\ bits >= Word \div 2 THEN bits - Word ELSE bits

(* ConstIntAggregate<TInt>: the aggregate of the values of the literal   *)
(* children, from the first one on, as <<result>> when every child is a  *)
(* literal and there is one (the code returns true), <<>> otherwise.      *)
ConstIntAggregate(values, isMin, signed) ==
  LET agg(cur, value) == IF isMin THEN TMinAggregate(cur, value) ELSE TMaxAggregate(cur, value)
  IN IF Len(values) = 0 \/ \E i \in DOMAIN values : ~IsIntegralCtor(values[i]) THEN <<>>
     ELSE <<FoldLeft(agg, IntegralValue(values[1], signed),
                     [i \in 1 .. Len(values) - 1 |-> IntegralValue(values[i + 1], signed)])>>

(* ConstFoldNodeIntAggregate<TAgg>: in ui64 for a Uint64 node, in i64     *)
(* otherwise, a literal of the node's slot ty; the node itself when the   *)
(* children are not all literals.                                          *)
ConstFoldNodeIntAggregate(e, ty, isMin) ==
  LET result == ConstIntAggregate(e.args, isMin, ty # U) IN
  IF result = <<>> THEN e
  ELSE [op |-> IF ty = U THEN "Uint64" ELSE "Int32", args |-> <<>>, val |-> result[1]]

(* OptimizeMinMax<MinOrMax>: the first Nothing child, if any; else the   *)
(* constant fold over integral literals.                                  *)
OptimizeMinMax(e, ty) ==
  LET nothings == {i \in DOMAIN e.args : e.args[i].op = "Nothing"} IN
  IF nothings # {} THEN e.args[Min(nothings)]
  ELSE IF \A i \in DOMAIN e.args : IsIntegralCtor(e.args[i]) /\ Len(e.args) > 0
  THEN ConstFoldNodeIntAggregate(e, ty, e.op = "Min")
  ELSE e

(* The lambda's body with its two parameters replaced at once, as         *)
(* ReplaceNodes does; the inputs have no lambda inside the body.         *)
RECURSIVE ReplaceArgs(_, _)
ReplaceArgs(x, m) ==
  IF x.op = "Arg" /\ x.val \in DOMAIN m THEN m[x.val]
  ELSE ChangeChildren(x, [i \in DOMAIN x.args |-> ReplaceArgs(x.args[i], m)])

(* RemoveOptionalReduceOverData: when the first input is not an          *)
(* Optional, the lambda's body applied to the two inputs.  ty is the type *)
(* of the first input.                                                    *)
RemoveOptionalReduceOverData(e, ty) ==
  LET lambda == e.args[3] IN
  IF ty.k # "Opt"
  THEN ReplaceArgs(lambda.args[1], (lambda.val[1] :> e.args[1]) @@ (lambda.val[2] :> e.args[2]))
  ELSE e

(* IsSameAnnotation: the two types are the same. *)
IsSameAnnotation(l, r) == l = r

(* CanCompare<true>(l, r) is Comparable: two data types, neither of them  *)
(* Optional.                                                              *)
Comparable(l, r) == l \in {U, I} /\ r \in {U, I}

(* OptimizeDistinctFrom<Not>: IsNotDistinctFrom is <true>.  Over operands *)
(* of the same type AggrEquals (AggrNotEquals); over non-Optional data ==  *)
(* (!=).  ty holds the operand types.  The branch for a Null operand is   *)
(* left out: the terms have no Null type.                                 *)
OptimizeDistinctFrom(e, ty) ==
  LET not == e.op = "IsNotDistinctFrom" IN
  IF IsSameAnnotation(ty[1], ty[2]) THEN RenameNode(e, IF not THEN "AggrEquals" ELSE "AggrNotEquals")
  ELSE IF Comparable(ty[1], ty[2]) THEN RenameNode(e, IF not THEN "==" ELSE "!=")
  ELSE e

(* GetOptionalLevel: the number of Optionals around a type. *)
RECURSIVE GetOptionalLevel(_)
GetOptionalLevel(t) == IF t.k = "Opt" THEN 1 + GetOptionalLevel(t.ts[1]) ELSE 0

(* CastResult<false>(from, to) has MayFail: a cast between two different *)
(* slots (a negative Int32 is no Uint64, a large Uint64 no Int32).       *)
CastMayFail(from, to) == from # to

(***************************************************************************)
(* OptimizeCast<false> (SafeCast): over Nothing, when the node adds no    *)
(* Optional, Nothing of the node's type; over Just, the cast of the item  *)
(* to the node's type; when the node adds an Optional and the cast cannot *)
(* fail, Just of the cast to the item type.  ty holds the node's and the  *)
(* input's types.  The branch for a Null item is left out: the terms have *)
(* no Null type.                                                          *)
(***************************************************************************)
OptimizeCast(e, ty) ==
  LET head == e.args[1] IN
  IF head.op = "Nothing" /\ GetOptionalLevel(ty.node) <= GetOptionalLevel(ty.head)
  THEN ChangeChildren(head, <<TypeNode(ty.node)>>)
  ELSE IF head.op = "Just" THEN ChangeChildren(e, <<head.args[1], TypeNode(ty.node)>>)
  ELSE IF GetOptionalLevel(ty.node) > GetOptionalLevel(ty.head) /\ ~CastMayFail(ty.head, OptItem(ty.node))
  THEN Node("Just", <<ChangeChildren(e, <<head, TypeNode(OptItem(ty.node))>>)>>)
  ELSE e

(* The literal callable of an integral slot. *)
LiteralOf(t, n) == [op |-> IF t = U THEN "Uint64" ELSE "Int32", args |-> <<>>, val |-> n]

(* AllowIntegralConversion(literal, false, slot): the literal's value is *)
(* in the range of the slot.                                              *)
AllowIntegralConversion(x, t) == t = I \/ x.val >= 0

(* map["Convert"]: over data, a Bool literal to a numeric slot is the     *)
(* literal 1 or 0, an integral literal whose value the slot holds is that *)
(* literal of the slot.  ty holds the node's and the input's types.        *)
ConvertRule(e, ty) ==
  LET head == e.args[1] IN
  IF ty.head \notin {U, I, B} THEN e
  ELSE IF head.op = "Bool" THEN LiteralOf(ty.node, IF head.val THEN 1 ELSE 0)
  ELSE IF IsIntegralCtor(head) /\ AllowIntegralConversion(head, ty.node) THEN LiteralOf(ty.node, head.val)
  ELSE e

(* map["AggrCountInit"] and map["AggrCountUpdate"]: a non-Optional or     *)
(* Just input counts one (1, Inc of the state), Nothing none (0, the       *)
(* state).  ty is the input's type.                                       *)
AggrCountRule(e, ty) ==
  LET head == e.args[1]
      init == e.op = "AggrCountInit"
  IN IF ty.k # "Opt" \/ head.op = "Just"
     THEN IF init THEN UintLit(1) ELSE Node("Inc", <<e.args[2]>>)
     ELSE IF head.op = "Nothing" THEN IF init THEN UintLit(0) ELSE e.args[2]
     ELSE e

(* Mutant of MinusRule: the literal is negated under the Minus, which is  *)
(* kept (ChangeChild of the node instead of its head).                   *)
MinusRuleNegateInPlace(e) ==
  CASE e.args[1].op = "Minus" -> e.args[1].args[1]
    [] e.args[1].op = "Int32" -> Node("Minus", <<IntLit(-e.args[1].val)>>)
    [] OTHER -> e

(* map["Minus"]: Minus over Minus is the inner operand; over an integral *)
(* literal, the literal with its value negated (ExtractIntegralValue and *)
(* GetIntegralAtomValue, outside this repository, are the negation).     *)
MinusRule(e) ==
  CASE e.args[1].op = "Minus" -> e.args[1].args[1]
    [] e.args[1].op = "Int32" -> IntLit(-e.args[1].val)
    [] OTHER -> e

(* map["Min"], map["Max"], map["OptionalReduce"], map["IsDistinctFrom"], *)
(* map["IsNotDistinctFrom"], map["SafeCast"], map["Convert"] and the      *)
(* AggrCount entries.  ts holds the type annotations the rules read,      *)
(* computed once per node: the node's, then each child's.                *)
ScalarRule(e, ts) ==
  CASE e.op = "OptionalReduce" -> RemoveOptionalReduceOverData(e, ts[2])
    [] e.op \in DistinctOps -> OptimizeDistinctFrom(e, Tail(ts))
    [] e.op = "SafeCast" -> OptimizeCast(e, [node |-> ts[1], head |-> ts[2]])
    [] e.op = "Convert" -> ConvertRule(e, [node |-> ts[1], head |-> ts[2]])
    [] e.op \in {"AggrCountInit", "AggrCountUpdate"} -> AggrCountRule(e, ts[2])
    [] e.op = "Minus" -> MinusRule(e)
    [] OTHER -> OptimizeMinMax(e, ts[1])

-----------------------------------------------------------------------------
(***************************************************************************)
(* Inputs: Min and Max over Uint64 and Int32 literals (one, two, negative) *)
(* with and without an argument among them, over Optionals with a Nothing *)
(* child; OptionalReduce over data and over Optionals with a lambda that  *)
(* uses both parameters and one that uses one; IsDistinctFrom and         *)
(* IsNotDistinctFrom over operands of the same type, of two data types,   *)
(* and of an Optional and a datum; SafeCast of data, Optionals, Just,     *)
(* Nothing and literals to each slot and its Optional; Convert of Bool,    *)
(* integral literals and arguments; AggrCountInit and AggrCountUpdate of  *)
(* data, Optionals, Just and Nothing; Minus of an argument, of literals   *)
(* and of Minus.                                                          *)
(***************************************************************************)
MinMaxArgs ==
  {<<UintLit(1)>>, <<UintLit(1), UintLit(0)>>, <<UintLit(0), Arg("u")>>,
   <<IntLit(-1), IntLit(1)>>, <<IntLit(1), Arg("i"), IntLit(-1)>>,
   <<Node("Just", <<Arg("u")>>), EmptyOf(Cont("Opt", U))>>, <<Arg("o"), Arg("u")>>,
   <<Arg("u"), EmptyOf(Cont("Opt", U)), EmptyOf(Cont("Opt", U))>>}
ReduceLambdas ==
  {Lambda2("x", "y", Node("Max", <<Arg("y"), Arg("x")>>)), Lambda2("x", "y", Arg("y"))}
Counted == {Arg("u"), Arg("o"), Node("Just", <<Arg("u")>>), EmptyOf(Cont("Opt", U)), Arg("i")}
ScalarCalls ==
  {Node(op, a) : op \in {"Min", "Max"}, a \in MinMaxArgs}
  \cup {Node("OptionalReduce", <<x, y, f>>) :
          <<x, y>> \in {<<Arg("u"), UintLit(1)>>, <<Arg("o"), Node("Just", <<UintLit(0)>>)>>},
          f \in ReduceLambdas}
  \cup {Node(op, xy) : op \in DistinctOps,
                       xy \in {<<Arg("u"), UintLit(1)>>, <<Arg("u"), Arg("i")>>, <<Arg("o"), Arg("u")>>,
                              <<Arg("o"), Arg("o")>>, <<Node("Just", <<Arg("i")>>), Arg("u")>>}}
  \cup {Node("SafeCast", <<x, TypeNode(r)>>) :
          x \in {Arg("u"), Arg("i"), Arg("o"), Node("Just", <<Arg("u")>>), Node("Just", <<Arg("i")>>),
                 EmptyOf(Cont("Opt", U)), UintLit(1), IntLit(-1)},
          r \in {U, I, Cont("Opt", U), Cont("Opt", I)}}
  \cup {Node("Convert", <<x, TypeNode(r)>>) :
          x \in {BoolLit(TRUE), BoolLit(FALSE), UintLit(1), IntLit(-1), IntLit(1), Arg("u"), Arg("p"), Arg("o")},
          r \in {U, I}}
  \cup {Node("Minus", <<x>>) :
          x \in {Arg("i"), IntLit(-1), IntLit(1), Node("Minus", <<Arg("i")>>),
                 Node("Minus", <<Node("Minus", <<IntLit(1)>>)>>)}}
  \cup {Node("AggrCountInit", <<x>>) : x \in Counted}
  \cup {Node("AggrCountUpdate", <<x, st>>) : x \in Counted, st \in {Arg("u"), UintLit(1)}}
====

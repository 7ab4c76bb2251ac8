---------------------------- MODULE LambdaRewrite ----------------------------
(***************************************************************************)
(* The rules of the peephole optimizer (yql_co_simple1.cpp) for the       *)
(* callables that take a lambda: Map and Filter become FlatMap, FlatMap    *)
(* (SimpleFlatMap) fuses with and sheds its input and its lambda, the     *)
(* While family folds a constant predicate, and Fold/Fold1 over an empty  *)
(* struct or tuple state drop the fold.  They are applied to a fixpoint by *)
(* the walker of spec.md 4.3, which carries the types of the lambda        *)
(* parameters in scope.  Types and meaning are those of LambdaTerm.       *)
(***************************************************************************)
EXTENDS LambdaTerm, ReorderRewrite, CollectionRewrite, ScalarRewrite

CONSTANT SkipInclusivePreds \* the constant predicates SkipWhileInclusive inputs have

(* The flatmap callable of the same order as e: FlatMap for an unordered  *)
(* e, OrderedFlatMap for an ordered one.  (Being the first use of a node *)
(* field here, it also makes TLC compare nodes by callable before value.) *)
OrderedAs(e, name) == IF e.op \in Unordered THEN name ELSE "Ordered" \o name

-----------------------------------------------------------------------------
(* The lambda of e (child 2), its body and its parameter. *)
LamBody(e) == e.args[2].args[1]
LamArg(e) == Arg(e.args[2].val)
(* The type annotations the rules read, computed once per node: the node's, *)
(* its input's, the body of its lambda child 2 (Bad if none) and the state *)
(* child of Fold (Bad otherwise).                                        *)
NodeTypes(e, tenv) ==
  [self |-> TypeOf(e, tenv), input |-> TypeOf(e.args[1], tenv),
   lam |-> IF e.args[2].op = "Lambda" THEN TypeIn(e.args[2].args[1], e, 2, tenv) ELSE Bad,
   state |-> IF e.op = "Fold" THEN TypeOf(e.args[2], tenv) ELSE Bad]
(* e over another input, and ctx.SwapWithHead(e): the head's callable    *)
(* over e, e over the head's child.                                      *)
WithInput(e, x) == ChangeChildren(e, <<x, e.args[2]>>)
SwapWithHead(e) == ChangeChildren(e.args[1], <<WithInput(e, e.args[1].args[1])>>)
(* Apply(lambda).With(0, "item"): the body with the parameter renamed. *)
AsItem(e, x) == Subst(x, e.args[2].val, Arg("item"))

(* ConvertMapToFlatmap: Map(list, f) is FlatMap(list, item -> Just(f(item))). *)
ConvertMapToFlatmap(e) ==
  Node(OrderedAs(e, "FlatMap"), <<e.args[1], Lambda("item", Node("Just", <<AsItem(e, LamBody(e))>>))>>)

(* ConvertFilterToFlatmap: a limit becomes a Take over the Filter without *)
(* it; otherwise FlatMap(list, item -> OptionalIf(p(item), item)).        *)
ConvertFilterToFlatmap(e) ==
  IF Len(e.args) = 3
  THEN Node("Take", <<Node(e.op, <<e.args[1], e.args[2]>>), e.args[3]>>)
  ELSE Node(OrderedAs(e, "FlatMap"),
            <<e.args[1], Lambda("item", Node("OptionalIf", <<AsItem(e, LamBody(e)), Arg("item")>>))>>)

(* ExtractPredicateFromFlatmapOverListIf: FlatMap(ListIf(p, v), f) is    *)
(* FlatOptionalIf(p, f(v)) for an Optional lambda, FlatListIf(p, f(v))   *)
(* otherwise (a stream or flow f(v) through ForwardList), converted back *)
(* to the FlatMap's kind.                                                *)
ExtractPredicateFromFlatmapOverListIf(e, ty) ==
  LET lk == ty.lam.k
      isOptional == lk = "Opt"
      needWrap == ~isOptional /\ lk # "List"
      item == WrapIf(needWrap, "ForwardList", ReplaceNode(LamBody(e), LamArg(e), e.args[1].args[2]))
      ret == Node(IF isOptional THEN "FlatOptionalIf" ELSE "FlatListIf", <<e.args[1].args[1], item>>)
      nk == ty.self.k
  IN IF isOptional /\ nk = "List" THEN Node("ToList", <<ret>>)
     ELSE IF nk = "Flow" THEN Node("ToFlow", <<ret>>)
     ELSE IF nk = "Stream" THEN Node("ToStream", <<ret>>)
     ELSE ret

(* ExtractPredicateFromFlatmapOverFlatListIf: FlatMap(FlatListIf(p, l), f) *)
(* is FlatListIf(p, FlatMap(l, f)) for a list result, the head's callable *)
(* otherwise.                                                            *)
ExtractPredicateFromFlatmapOverFlatListIf(e, ty) ==
  Node(IF ty.self.k = "List" THEN "FlatListIf" ELSE e.args[1].op,
       <<e.args[1].args[1], WithInput(e, e.args[1].args[2])>>)

(* FuseJustOrSingleAsListWithFlatmap: f applied to the single item; over *)
(* AsList an Optional result becomes a list, a stream one ForwardList.    *)
FuseJustOrSingleAsListWithFlatmap(e, ty) ==
  LET result == ReplaceNode(LamBody(e), LamArg(e), e.args[1].args[1])
      lk == ty.lam.k
  IN IF e.args[1].op = "Just" THEN result
     ELSE IF lk \in {"List", "Flow"} THEN result
     ELSE IF lk = "Opt" THEN Node("ToList", <<result>>)
     ELSE Node("ForwardList", <<result>>)

(* FuseToListWithFlatmap: FlatMap(ToList(o), f) is FlatMap(o, f), made a  *)
(* list again when f yields an Optional or a stream.                     *)
FuseToListWithFlatmap(e, ty) ==
  LET lk == ty.lam.k
      result == WithInput(e, e.args[1].args[1])
  IN IF lk = "Opt" THEN Node("ToList", <<result>>)
     ELSE IF lk = "Stream" THEN Node("ForwardList", <<result>>)
     ELSE result

(* Mutant of IdentityFlatMap: the input is returned without ToList. *)
IdentityFlatMapNoToList(e, ty) ==
  LET body == LamBody(e)
      type == ItemType(ty.input)
  IN IF body.args[1] = LamArg(e) \/ (ItemType(ty.lam) = type /\ IsSingleton(type))
     THEN e.args[1] ELSE e

(* SimpleFlatMap, a lambda returning Just(x) or AsList(x): the identity  *)
(* lambda (or one from a singleton type to itself) leaves the input, as a *)
(* list when the FlatMap made an Optional one.  (The ExtractMembers case  *)
(* needs a non-empty struct item, which this model has not.)              *)
IdentityFlatMap(e, ty) ==
  LET body == LamBody(e)
      type == ItemType(ty.input)
      isIdentical == body.args[1] = LamArg(e)
      sameType == ItemType(ty.lam) = type
      toList == ty.self.k = "List" /\ ty.input.k = "Opt"
  IN IF isIdentical \/ (sameType /\ IsSingleton(type)) THEN WrapIf(toList, "ToList", e.args[1]) ELSE e

(* SimpleFlatMap: an empty input or an empty lambda result is the empty  *)
(* container of the FlatMap's type.                                      *)
EmptyFlatMap(e, ty) ==
  IF IsEmptyContainer(e.args[1]) \/ IsEmptyContainer(LamBody(e)) THEN EmptyOf(ty.self) ELSE e

(* SimpleFlatMap: a lambda ListIf(p, v) over a non-Optional input becomes *)
(* item -> OptionalIf(p(item), v(item)).                                  *)
ListIfToOptionalIf(e, ty) ==
  IF ty.input.k # "Opt" /\ LamBody(e).op = "ListIf"
  THEN ChangeChildren(e, <<e.args[1], Lambda("item", Node("OptionalIf",
                                <<AsItem(e, LamBody(e).args[1]), AsItem(e, LamBody(e).args[2])>>))>>)
  ELSE e

(* Mutant of SkipTupleRebuild: any Nth of the parameter counts, not only *)
(* the one at its own position.                                          *)
SkipTupleRebuildAnyIndex(e, ty) ==
  LET tup == LamBody(e).args[1]
      inner == ItemType(ty.input)
  IN IF /\ LamBody(e).op = "Just" /\ tup.op = "Tuple" /\ Len(tup.args) > 0
        /\ \A i \in 1 .. Len(tup.args) : tup.args[i].op = "Nth" /\ tup.args[i].args[1] = LamArg(e)
        /\ inner.k = "Tup" /\ Len(inner.ts) = Len(tup.args)
     THEN e.args[1] ELSE e

(* SimpleFlatMap: x -> Just((Nth(x, 0), ..., Nth(x, n - 1))) over a tuple *)
(* of size n rebuilds each item: the FlatMap is its input.                *)
SkipTupleRebuild(e, ty) ==
  LET body == LamBody(e)
      tup == body.args[1]
      k == Len(tup.args)
      inner == ItemType(ty.input)
  IN IF /\ body.op = "Just" /\ tup.op = "Tuple" /\ k > 0
        /\ \A i \in 1 .. k : tup.args[i] = Nth(LamArg(e), i - 1)
        /\ inner.k = "Tup" /\ Len(inner.ts) = k
     THEN e.args[1] ELSE e

(* SimpleFlatMap<Ordered>: the first rule whose guard holds. *)
SimpleFlatMap(e, ty) ==
  LET h == e.args[1]
      body == LamBody(e)
      r1 == IF IsJustOrSingleAsList(body) THEN IdentityFlatMap(e, ty) ELSE e
      r2 == EmptyFlatMap(e, ty)
      r3 == ListIfToOptionalIf(e, ty)
  IN IF e.op = "FlatMap" /\ IsListReorder(h) THEN WithInput(e, h.args[1])
     ELSE IF h.op \in {"ListIf", "OptionalIf"} THEN ExtractPredicateFromFlatmapOverListIf(e, ty)
     ELSE IF h.op \in {"FlatListIf", "FlatOptionalIf"} THEN ExtractPredicateFromFlatmapOverFlatListIf(e, ty)
     ELSE IF h.op \in {"ToStream", "ToFlow"} /\ IsJustOrSingleAsList(h.args[1]) THEN SwapWithHead(e)
     ELSE IF IsJustOrSingleAsList(h) THEN FuseJustOrSingleAsListWithFlatmap(e, ty)
     ELSE IF h.op = "ToList" THEN FuseToListWithFlatmap(e, ty)
     ELSE IF h.op = "FromFlow"
          THEN IF ty.self.k = "Stream" THEN SwapWithHead(e) ELSE WithInput(e, h.args[1])
     ELSE IF body.op = "AsList" /\ Len(body.args) = 1 /\ ty.input.k # "Opt"
          THEN ChangeChildren(e, <<h, Lambda(e.args[2].val, RenameNode(body, "Just"))>>)
     ELSE IF r1 # e THEN r1
     ELSE IF r2 # e THEN r2
     ELSE IF r3 # e THEN r3
     ELSE SkipTupleRebuild(e, ty)

(* OptimizeWhile<TakeOrSkip, Inclusive>: over an empty container the     *)
(* input; with a constant predicate the input, Take(input, 1) or empty.  *)
OptimizeWhile(e, ty) ==
  LET takeOrSkip == e.op \in {"TakeWhile", "TakeWhileInclusive"}
      inclusive == e.op \in {"TakeWhileInclusive", "SkipWhileInclusive"}
      t == ty.self
      body == LamBody(e)
  IN IF Len(e.args[1].args) = 1 /\ e.args[1].op = GetEmptyCollectionName(t) THEN e.args[1]
     ELSE IF body.op # "Bool" THEN e
     ELSE IF takeOrSkip = body.val THEN e.args[1]
     ELSE IF inclusive THEN Node("Take", <<e.args[1], UintLit(1)>>)
     ELSE EmptyOf(t)

(* map["Fold"]: an empty struct or tuple state is the result. *)
FoldRule(e, ty) ==
  LET st == ty.state IN
  IF st.k \in {"Struct", "Tup"} /\ Len(st.ts) = 0 THEN e.args[2] ELSE e

(* map["Fold1"]: an empty struct or tuple state is OptionalIf(HasItems). *)
Fold1Rule(e, ty) ==
  LET st == ty.lam
      hasItems == Node("HasItems", <<e.args[1]>>)
  IN IF st.k = "Struct" /\ Len(st.ts) = 0 THEN Node("OptionalIf", <<hasItems, Node("AsStruct", <<>>)>>)
     ELSE IF st.k = "Tup" /\ Len(st.ts) = 0 THEN Node("OptionalIf", <<hasItems, Node("Tuple", <<>>)>>)
     ELSE e

(* The optimizer's callback map for these callables. *)
TypedRule(e, ty) ==
  CASE e.op \in MapOps -> ConvertMapToFlatmap(e)
    [] e.op \in FilterOps -> ConvertFilterToFlatmap(e)
    [] e.op \in FlatMapOps -> SimpleFlatMap(e, ty)
    [] e.op \in WhileOps -> OptimizeWhile(e, ty)
    [] e.op = "Fold" -> FoldRule(e, ty)
    [] e.op = "Fold1" -> Fold1Rule(e, ty)

Rule(e, tenv) ==
  CASE e.op \in MapOps \cup FilterOps \cup FlatMapOps \cup WhileOps \cup {"Fold", "Fold1"} ->
         CHOOSE r \in {TypedRule(e, ty) : ty \in {NodeTypes(e, tenv)}} : TRUE
    [] e.op \in SortOps -> ReorderRule(e, tenv)
    [] e.op \in CollectionOps ->
         CHOOSE r \in {CollectionRule(e, ts) : ts \in {TypesOf(<<e>> \o e.args, tenv)}} : TRUE
    [] e.op \in ScalarOps ->
         CHOOSE r \in {ScalarRule(e, ts) : ts \in {TypesOf(<<e>> \o e.args, tenv)}} : TRUE
    [] OTHER -> e

(* One pass of the fixpoint walker: children first, then the node's rule. *)
RECURSIVE Pass(_, _)
RECURSIVE PassChildren(_, _, _)
PassChildren(e, i, tenv) ==
  IF i > Len(e.args) THEN <<>>
  ELSE LET first == CHOOSE r \in {Pass(e.args[i], env) : env \in {ChildEnv(e, i, tenv)}} : TRUE
           rest == PassChildren(e, i + 1, tenv)
       IN <<first>> \o rest

Pass(e, tenv) ==
  CHOOSE r \in {Rule(k, tenv) : k \in {ChangeChildren(e, PassChildren(e, 1, tenv))}} : TRUE

(***************************************************************************)
(* Inputs: free arguments of list, Optional, stream and flow types, and   *)
(* well-typed Map, Filter, FlatMap, While and Fold calls, and the Sort,   *)
(* AssumeSorted, Top and TopSort calls of ReorderRewrite, over inputs of  *)
(* every shape the rules look at.                                         *)
(***************************************************************************)
T2 == Tup(<<U, U>>)
T0 == Tup(<<>>)
ArgTypes ==
  ("u" :> U) @@ ("p" :> B) @@ ("l" :> Cont("List", U)) @@ ("o" :> Cont("Opt", U))
  @@ ("s" :> Cont("Stream", U)) @@ ("f" :> Cont("Flow", U)) @@ ("lb" :> Cont("List", B))
  @@ ("lt" :> Cont("List", T2)) @@ ("ot" :> Cont("Opt", T2)) @@ ("le" :> Cont("List", T0))
  @@ ("pt" :> Tup(<<B>>)) @@ ("l1" :> Cont("List", Tup(<<U>>)))
  @@ ("i" :> I) @@ ("d" :> DictOf(U, U)) @@ ("tg" :> Tagged(U))
  @@ ("lo" :> Cont("List", Tup(<<Cont("Opt", U), Cont("Opt", U)>>)))

N1(op, x) == Node(op, <<x>>)
N2(op, x, y) == Node(op, <<x, y>>)
P == Arg("p")
InList ==
  {Arg("l"), N1("Reverse", Arg("l")), N1("AsList", Arg("u")), N2("ListIf", P, Arg("u")),
   N2("FlatListIf", P, Arg("l")), N1("ToList", Arg("o")), EmptyOf(Cont("List", U))}
InOpt ==
  {Arg("o"), N1("Just", Arg("u")), N2("OptionalIf", P, Arg("u")), N2("FlatOptionalIf", P, Arg("o")),
   EmptyOf(Cont("Opt", U))}
InStream ==
  {Arg("s"), N1("ToStream", N1("Just", Arg("u"))), N1("ToStream", N1("AsList", Arg("u"))),
   N1("FromFlow", Arg("f")), EmptyOf(Cont("Stream", U))}
InFlow ==
  {Arg("f"), N1("ToFlow", N1("Just", Arg("u"))), N1("ToFlow", N1("AsList", Arg("u"))),
   EmptyOf(Cont("Flow", U))}
(* Lambdas over a Uint64 item, yielding each kind of container. *)
Lambdas ==
  {Lambda("x", b) :
     b \in {N1("Just", X), N1("Just", UintLit(1)), N2("OptionalIf", P, X), EmptyOf(Cont("Opt", U)),
            N1("AsList", X), N2("AsList", X, X), N2("ListIf", P, X), EmptyOf(Cont("List", U)),
            N1("ToStream", N1("Just", X)), EmptyOf(Cont("Stream", U)),
            N1("ToFlow", N2("AsList", X, X)), EmptyOf(Cont("Flow", U))}}
(* Lambdas over tuple items: a rebuild, a swap, a shorter tuple; over    *)
(* empty tuples: the identity and a constant.                            *)
Z == Arg("z")
TupleLambdas ==
  {Lambda("z", N1("Just", Node("Tuple", <<Nth(Z, 0), Nth(Z, 1)>>))),
   Lambda("z", N1("Just", Node("Tuple", <<Nth(Z, 1), Nth(Z, 0)>>))),
   Lambda("z", N1("Just", Node("Tuple", <<Nth(Z, 0)>>))),
   Lambda("w", N1("Just", Arg("w"))), Lambda("w", N1("Just", Node("Tuple", <<>>))),
   Lambda("w", N1("AsList", Node("Tuple", <<>>)))}
FlatMaps ==
  {N2(op, x, f) : op \in FlatMapOps,
                  x \in InList \cup InOpt \cup InStream \cup InFlow \cup {Arg("lt"), Arg("ot"), Arg("le")},
                  f \in Lambdas \cup TupleLambdas}
Maps ==
  {N2(op, x, f) : op \in MapOps, x \in {Arg("l"), Arg("o"), Arg("s"), N1("Reverse", Arg("l"))},
                  f \in {Lambda("x", X), Lambda("x", UintLit(1)), Lambda("x", Node("Tuple", <<X, X>>))}}
  \cup {N2(op, Arg("lt"), Lambda("z", Node("Tuple", <<Nth(Z, 0), Nth(Z, 1)>>))) : op \in MapOps}
Filters ==
  {Node(op, <<x, f>> \o lim) :
     op \in FilterOps, lim \in {<<>>, <<UintLit(1)>>},
     <<x, f>> \in {<<Arg("l"), Lambda("x", P)>>, <<Arg("s"), Lambda("x", P)>>,
                   <<Arg("lb"), Lambda("y", Arg("y"))>>}}
  \cup {N2("OrderedMap", N2("Filter", Arg("l"), Lambda("x", P)), Lambda("x", X))}
(* SkipWhileInclusive only with a constant predicate of SkipInclusivePreds. *)
Whiles ==
  {e \in {N2(op, x, f) :
            op \in WhileOps,
            <<x, f>> \in {<<x1, Lambda("x", b)>> :
                            x1 \in {Arg("l"), Arg("s"), Arg("f"), EmptyOf(Cont("List", U)),
                                    EmptyOf(Cont("Stream", U))},
                            b \in {BoolLit(TRUE), BoolLit(FALSE), P}}
                         \cup {<<Arg("lb"), Lambda("y", Arg("y"))>>}} :
     e.op = "SkipWhileInclusive" => LamBody(e).op = "Bool" /\ LamBody(e).val \in SkipInclusivePreds}
Folds ==
  {Node("Fold", <<Arg("l"), Node("Tuple", <<>>), Lambda2("i", "st", Arg("st"))>>),
   Node("Fold", <<Arg("l"), Node("AsStruct", <<>>), Lambda2("i", "st", Node("AsStruct", <<>>))>>),
   Node("Fold", <<Arg("l"), Arg("u"), Lambda2("i", "st", Arg("i"))>>),
   Node("Fold1", <<Arg("l"), Lambda("i", Node("Tuple", <<>>)), Lambda2("i", "st", Arg("st"))>>),
   Node("Fold1", <<Arg("l"), Lambda("i", Node("AsStruct", <<>>)), Lambda2("i", "st", Arg("st"))>>),
   Node("Fold1", <<Arg("lb"), Lambda("i", Arg("i")), Lambda2("i", "st", Arg("i"))>>)}
(* FlatListIf and FlatOptionalIf over a stream or a flow: the annotator  *)
(* of these callables is not in this repository, so the inputs whose     *)
(* rewrite builds one are left out.                                      *)
Unannotated(e) ==
  /\ e.op \in FlatMapOps /\ e.args[1].op \in {"FlatListIf", "FlatOptionalIf"}
  /\ TypeOf(e, ArgTypes).k \in {"Stream", "Flow"}
Inputs ==
  {e \in FlatMaps \cup Maps \cup Filters \cup Whiles \cup Folds \cup ReorderCalls \cup CollectionCalls
              \cup ScalarCalls :
     TypeOf(e, ArgTypes) # Bad /\ ~Unannotated(e)}

(* Every assignment of values to the arguments e uses. *)
EnvsOf(e) ==
  LET vals == [a \in FreeArgs(e) |-> ValuesOf(ArgTypes[a])] IN
  {env \in [DOMAIN vals -> UNION Range(vals)] : \A a \in DOMAIN vals : env[a] \in vals[a]}

VARIABLES
  orig,     \* the expression given to the optimizer
  term,     \* the expression after the passes run so far
  changed   \* whether the last pass changed the expression (TRUE before the first)

vars == <<orig, term, changed>>

Init == orig \in Inputs /\ term = orig /\ changed = TRUE

(* A pass of the walker; while a pass changes the expression, the walker *)
(* starts another.                                                       *)
Step ==
  /\ changed
  /\ term' = Pass(term, ArgTypes)
  /\ changed' = (term' # term)
  /\ UNCHANGED orig

(* The last pass changed nothing: the optimizer returns the expression. *)
Done == ~changed /\ UNCHANGED vars

Next == Step \/ Done

Spec == Init /\ [][Next]_vars /\ WF_vars(Step)

-----------------------------------------------------------------------------
(* Every expression the walker produces is accepted by the annotator: the *)
(* fused and extracted forms put each callable over a container it takes, *)
(* and no lambda parameter is left outside its lambda.                    *)
TypeOK == TypeOf(term, ArgTypes) # Bad

(* A rewrite keeps the node's type: the ToList, ForwardList, ToFlow and   *)
(* ToStream wrappers SimpleFlatMap adds must restore the kind the FlatMap *)
(* had for every pair of input and lambda kinds.                          *)
TypePreserved == TypeOf(term, ArgTypes) = TypeOf(orig, ArgTypes)

(* A rewrite only narrows the values an expression may have under every   *)
(* assignment of the arguments: an ordered callable keeps its order, and  *)
(* the fused, extracted and dropped forms compute what the original did.  *)
MeaningPreserved == \A env \in EnvsOf(orig) : Outs(term, env) \subseteq Outs(orig, env)

(***************************************************************************)
(* The walker converges: from every input the passes eventually stop      *)
(* changing the expression (spec.md 4.3).  No rule of the lambda, reorder, *)
(* collection and scalar families rebuilds what another one (or itself)   *)
(* rewrites: FlatMap fuse and extract, the If and empty forms, ToDict and *)
(* LMap over their inputs, the Minus fold.                                *)
(***************************************************************************)
ReachesFixpoint == <>(~changed)
====

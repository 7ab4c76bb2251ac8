----------------------------- MODULE LambdaTerm -----------------------------
(***************************************************************************)
(* The expressions the rules over lambdas rewrite (LambdaRewrite,         *)
(* ReorderRewrite): their types, as the annotator gives them, and their   *)
(* meaning.  The unordered callables (FlatMap, Map, Filter, Top) promise  *)
(* no order, and Sort none among equal keys, so the meaning of an         *)
(* expression is the set of values it may have, and a rewrite is correct *)
(* when it only narrows that set.                                         *)
(***************************************************************************)
EXTENDS ExprTerm, Integers, FiniteSets, SequencesExt, TLC

CONSTANTS
  DataVals, \* the values of a Uint64 item
  MaxLen    \* the longest value of a list, stream or flow argument

-----------------------------------------------------------------------------
(***************************************************************************)
(* Types.  Containers (List, Opt, Stream, Flow) have one item type; a     *)
(* tuple type is a sequence; the only struct type is the empty one.  Bad  *)
(* is what the annotator would reject.                                    *)
(***************************************************************************)
Ty(k, ts) == [k |-> k, ts |-> ts]
U == Ty("U", <<>>)
I == Ty("I", <<>>)      \* Int32: a signed slot
B == Ty("B", <<>>)
Bad == Ty("bad", <<>>)
Cont(k, t) == Ty(k, <<t>>)
Tup(ts) == Ty("Tup", ts)
EmptyStruct == Ty("Struct", <<>>)
(* A dictionary type has a key and a payload type; a tagged type wraps   *)
(* one type (the tag name is left out).                                  *)
DictOf(k, p) == Ty("Dict", <<k, p>>)
Tagged(t) == Ty("Tagged", <<t>>)
Vd == Ty("Void", <<>>)
Kinds == {"List", "Opt", "Stream", "Flow"}
SeqKinds == {"List", "Stream", "Flow"}
ItemType(t) == IF t.k \in Kinds THEN t.ts[1] ELSE Bad
(* RemoveOptionalType: the item of an Optional, any other type itself. *)
OptItem(t) == IF t.k = "Opt" THEN t.ts[1] ELSE t

(* TTypeAnnotationNode::IsSingleton, for the types of this model. *)
IsSingleton(t) == t.k \in {"Tup", "Struct"} /\ t.ts = <<>>

(* The kind of FlatMap(input, lambda), as tabled in                      *)
(* FuseJustOrSingleAsListWithFlatmap: rows the lambda's kind, columns the *)
(* input's, "-" a combination the annotator rejects.                     *)
(*   input    F L S O  /  lambda L F L S L  /  lambda S F L S S           *)
(*   lambda O F L S O  /  lambda F F F - F                                *)
FlatMapKind(ik, lk) ==
  CASE ik = "Flow" -> "Flow"
    [] ik = "List" -> IF lk = "Flow" THEN "Flow" ELSE "List"
    [] ik = "Stream" -> IF lk = "Flow" THEN "bad" ELSE "Stream"
    [] ik = "Opt" -> lk

(* GetEmptyCollectionName(type): the callable of an empty container. *)
GetEmptyCollectionName(t) ==
  CASE t.k \in {"Stream", "Flow"} -> "EmptyIterator"
    [] t.k = "List" -> "List"
    [] t.k = "Opt" -> "Nothing"
    [] OTHER -> "none"

TypeNode(t) == [op |-> "Type", args |-> <<>>, val |-> t]
UintLit(n) == [op |-> "Uint64", args |-> <<>>, val |-> n]
IntLit(n) == [op |-> "Int32", args |-> <<>>, val |-> n]
Lambda(x, body) == [op |-> "Lambda", args |-> <<body>>, val |-> x]
(* The two-parameter lambda of Fold: val is <<item, state>>. *)
Lambda2(x, st, body) == [op |-> "Lambda2", args |-> <<body>>, val |-> <<x, st>>]
Nth(x, i) == [op |-> "Nth", args |-> <<x>>, val |-> i]
VoidNode == Node("Void", <<>>)
(* The settings child of ToDict: the set of its setting atoms. *)
Settings(S) == [op |-> "Settings", args |-> <<>>, val |-> S]

(* An empty container of type t, as GetEmptyCollectionName and ExpandType *)
(* build it.                                                             *)
EmptyOf(t) == Node(GetEmptyCollectionName(t), <<TypeNode(t)>>)

(* IsEmptyContainer: a List, Nothing or EmptyIterator with only its type. *)
IsEmptyContainer(e) == e.op \in {"List", "Nothing", "EmptyIterator"} /\ Len(e.args) = 1

(* IsJustOrSingleAsList *)
IsJustOrSingleAsList(e) == e.op \in {"Just", "AsList"} /\ Len(e.args) = 1

(* A key-payload pair of AsDict or Dict: a tuple literal of two items. *)
IsPair(x, tx) == x.op = "Tuple" /\ tx.k = "Tup" /\ Len(tx.ts) = 2

(* The element indices SkipNullElements filters on: those of its         *)
(* Elements child, or every element of the item tuple when it has none.   *)
NullElements(e, item) == IF Len(e.args) = 2 THEN e.args[2].val ELSE {i - 1 : i \in DOMAIN item.ts}

(* IsListReorder: a callable that only reorders its list. *)
IsListReorder(e) == e.op = "Reverse"

MapOps == {"Map", "OrderedMap"}
FilterOps == {"Filter", "OrderedFilter"}
FlatMapOps == {"FlatMap", "OrderedFlatMap"}
WhileOps == {"TakeWhile", "SkipWhile", "TakeWhileInclusive", "SkipWhileInclusive"}
(* LMap applies its lambda to the stream of its input's items. *)
LMapOps == {"LMap", "OrderedLMap"}
Unordered == {"Map", "Filter", "FlatMap", "MultiMap", "Extract", "LMap"}
MultiMapOps == {"MultiMap", "OrderedMultiMap"}
DistinctOps == {"IsDistinctFrom", "IsNotDistinctFrom"}
SortOps == {"Sort", "AssumeSorted", "Top", "TopSort"}
TopOps == {"Top", "TopSort"}

(* Of the Sort family, the key lambda is the last child and the ascending *)
(* flags the one before; Top and TopSort have the count as child 2.       *)
KeyLambda(e) == e.args[Len(e.args)]
Asc(e) == e.args[Len(e.args) - 1]

(* A sort key is a Uint64 or a tuple of them; the ascending flags are one *)
(* Bool for the whole key, or a tuple of Bools, one per key item.         *)
KeyOK(k) == k = U \/ (k.k = "Tup" /\ Len(k.ts) >= 1 /\ \A i \in DOMAIN k.ts : k.ts[i] = U)
AscOK(a, k) ==
  \/ a = B /\ KeyOK(k)
  \/ /\ a.k = "Tup" /\ Len(a.ts) >= 1 /\ \A i \in DOMAIN a.ts : a.ts[i] = B
     /\ KeyOK(k) /\ k.k = "Tup" /\ Len(k.ts) = Len(a.ts)

(***************************************************************************)
(* The types the parameters of lambda child i of e are bound to: the item *)
(* of the input for Map, Filter, FlatMap, the While family and Fold1's    *)
(* first lambda; the item and the state for a Fold lambda; the items as  *)
(* a stream for LMap.  head is the type of the input.                    *)
(***************************************************************************)
RECURSIVE TypeOf(_, _), ParamTypes(_, _, _), ParamsOver(_, _, _, _), ChildEnv(_, _, _), TypeIn(_, _, _, _)

ParamsOver(e, i, head, tenv) ==
  LET item == ItemType(head)
      \* the state of a Fold: its child 2, or the body of Fold1's first lambda
      state == IF e.op = "Fold" THEN <<e.args[2], tenv>>
               ELSE <<e.args[2].args[1], (e.args[2].val :> item) @@ tenv>>
      \* the lambda of LMap takes the items as a stream (a flow over a flow)
      stream == Cont(IF head.k = "Flow" THEN "Flow" ELSE "Stream", item)
  IN IF e.args[i].op = "Lambda" THEN <<IF e.op \in LMapOps THEN stream ELSE item>>
     ELSE IF e.op = "OptionalReduce" THEN <<OptItem(head), OptItem(head)>>
     ELSE <<item, CHOOSE t \in {TypeOf(x[1], x[2]) : x \in {state}} : TRUE>>
(* The same, the input's type computed once. *)
ParamTypes(e, i, tenv) ==
  CHOOSE ps \in {ParamsOver(e, i, head, tenv) : head \in {TypeOf(e.args[1], tenv)}} : TRUE

(* The scope of child i: a lambda binds its parameters. *)
ChildEnv(e, i, tenv) ==
  LET pt == ParamTypes(e, i, tenv) IN
  CASE e.args[i].op = "Lambda" -> (e.args[i].val :> pt[1]) @@ tenv
    [] e.args[i].op = "Lambda2" ->
         (e.args[i].val[1] :> pt[1]) @@ (e.args[i].val[2] :> pt[2]) @@ tenv
    [] OTHER -> tenv

(* The type of x in the scope of child i of e. *)
TypeIn(x, e, i, tenv) == CHOOSE t \in {TypeOf(x, env) : env \in {ChildEnv(e, i, tenv)}} : TRUE

(* The types of the expressions of sequence es, each computed once. *)
RECURSIVE TypesOf(_, _)
TypesOf(es, tenv) ==
  IF es = <<>> THEN <<>>
  ELSE LET first == TypeOf(Head(es), tenv)
           rest == TypesOf(Tail(es), tenv)
       IN <<first>> \o rest

(* The types of the bodies of each lambda child of e from index i on, in  *)
(* its scope, computed once per node; <<>> for a child that is no lambda.  *)
RECURSIVE BodyTypes(_, _, _)
BodyTypes(e, i, tenv) ==
  IF i > Len(e.args) THEN <<>>
  ELSE LET x == e.args[i]
           first == IF x.op \in {"Lambda", "Lambda2"}
                    THEN CHOOSE ts \in {TypesOf(x.args, env) : env \in {ChildEnv(e, i, tenv)}} : TRUE
                    ELSE <<>>
           rest == BodyTypes(e, i + 1, tenv)
       IN <<first>> \o rest

(***************************************************************************)
(* Type annotation of the callables, under tenv, the types of the free    *)
(* arguments and of the lambda parameters in scope.                       *)
(***************************************************************************)
TypeOf(e, tenv) ==
  LET n == Len(e.args)
      ts == TypesOf(e.args, tenv)
      t(i) == ts[i]
      ls == BodyTypes(e, 1, tenv)
      \* the type of the body of lambda child i
      lam(i) == IF ls[i] # <<>> THEN ls[i][1] ELSE Bad
      kindIs(i, S) == t(i).k \in S
      typeArg(S) == IF n = 1 /\ e.args[1].op = "Type" /\ e.args[1].val.k \in S
                    THEN e.args[1].val ELSE Bad
      lk == lam(2).k
  IN CASE e.op = "Arg" -> IF e.val \in DOMAIN tenv THEN tenv[e.val] ELSE Bad
       [] e.op = "Uint64" -> U
       [] e.op = "Int32" -> I
       [] e.op = "Bool" -> B
       [] e.op = "Just" -> IF n = 1 /\ t(1) # Bad THEN Cont("Opt", t(1)) ELSE Bad
       [] e.op = "Nothing" -> typeArg({"Opt"})
       [] e.op = "List" -> IF n >= 1 /\ e.args[1].op = "Type" /\ e.args[1].val.k = "List"
                              /\ \A i \in 2 .. n : t(i) = ItemType(e.args[1].val)
                           THEN e.args[1].val ELSE Bad
       [] e.op = "EmptyIterator" -> typeArg({"Stream", "Flow"})
       [] e.op = "AsList" -> IF n >= 1 /\ t(1) # Bad /\ \A i \in 1 .. n : t(i) = t(1)
                             THEN Cont("List", t(1)) ELSE Bad
       [] e.op = "Tuple" -> IF \A i \in 1 .. n : t(i) # Bad THEN Tup(ts) ELSE Bad
       [] e.op = "AsStruct" -> IF n = 0 THEN EmptyStruct ELSE Bad
       [] e.op = "Nth" -> IF n = 1 /\ t(1).k = "Tup" /\ e.val + 1 \in DOMAIN t(1).ts
                          THEN t(1).ts[e.val + 1] ELSE Bad
       [] e.op = "ToList" -> IF n = 1 /\ kindIs(1, {"Opt"}) THEN Cont("List", ItemType(t(1))) ELSE Bad
       [] e.op = "ToStream" -> IF n = 1 /\ kindIs(1, {"List", "Opt", "Stream"})
                               THEN Cont("Stream", ItemType(t(1))) ELSE Bad
       [] e.op = "ToFlow" -> IF n = 1 /\ kindIs(1, Kinds) THEN Cont("Flow", ItemType(t(1))) ELSE Bad
       [] e.op = "ForwardList" -> IF n = 1 /\ kindIs(1, {"Stream", "Flow"})
                                  THEN Cont("List", ItemType(t(1))) ELSE Bad
       [] e.op = "FromFlow" -> IF n = 1 /\ kindIs(1, {"Flow"}) THEN Cont("Stream", ItemType(t(1))) ELSE Bad
       [] e.op = "Reverse" -> IF n = 1 /\ kindIs(1, {"List"}) THEN t(1) ELSE Bad
       [] e.op = "HasItems" -> IF n = 1 /\ kindIs(1, {"List"}) THEN B ELSE Bad
       [] e.op = "Take" -> IF n = 2 /\ kindIs(1, SeqKinds) /\ t(2) = U THEN t(1) ELSE Bad
       [] e.op \in {"ListIf", "OptionalIf"} ->
            IF n = 2 /\ t(1) = B /\ t(2) # Bad
            THEN Cont(IF e.op = "ListIf" THEN "List" ELSE "Opt", t(2)) ELSE Bad
       [] e.op = "FlatListIf" -> IF n = 2 /\ t(1) = B /\ kindIs(2, {"List"}) THEN t(2) ELSE Bad
       [] e.op = "FlatOptionalIf" -> IF n = 2 /\ t(1) = B /\ kindIs(2, {"Opt"}) THEN t(2) ELSE Bad
       [] e.op \in FlatMapOps ->
            IF n = 2 /\ kindIs(1, Kinds) /\ lk \in Kinds /\ FlatMapKind(t(1).k, lk) # "bad"
            THEN Cont(FlatMapKind(t(1).k, lk), ItemType(lam(2))) ELSE Bad
       [] e.op \in MapOps ->
            IF n = 2 /\ kindIs(1, Kinds) /\ lam(2) # Bad THEN Cont(t(1).k, lam(2)) ELSE Bad
       [] e.op \in LMapOps ->
            IF n = 2 /\ kindIs(1, SeqKinds) /\ lk \in SeqKinds THEN Cont(t(1).k, ItemType(lam(2))) ELSE Bad
       [] e.op \in FilterOps ->
            IF n \in {2, 3} /\ kindIs(1, Kinds) /\ lam(2) = B /\ (n = 3 => t(3) = U)
            THEN t(1) ELSE Bad
       [] e.op \in WhileOps -> IF n = 2 /\ kindIs(1, SeqKinds) /\ lam(2) = B THEN t(1) ELSE Bad
       [] e.op = "Fold" ->
            IF n = 3 /\ kindIs(1, {"List"}) /\ t(2) # Bad /\ lam(3) = t(2) THEN t(2) ELSE Bad
       [] e.op = "Fold1" ->
            IF n = 3 /\ kindIs(1, {"List"}) /\ lam(2) # Bad /\ lam(3) = lam(2)
            THEN Cont("Opt", lam(2)) ELSE Bad
       [] e.op \in SortOps ->
            IF /\ n = (IF e.op \in TopOps THEN 4 ELSE 3) /\ kindIs(1, {"List"})
               /\ (e.op \in TopOps => t(2) = U) /\ AscOK(t(n - 1), lam(n))
            THEN t(1) ELSE Bad
       [] e.op = "AsDict" -> IF n >= 1 /\ \A i \in 1 .. n : IsPair(e.args[i], t(i)) /\ t(i) = t(1)
                             THEN Ty("Dict", t(1).ts) ELSE Bad
       [] e.op = "Dict" ->
            IF n >= 1 /\ e.args[1].op = "Type" /\ e.args[1].val.k = "Dict"
               /\ \A i \in 2 .. n : IsPair(e.args[i], t(i)) /\ t(i) = Tup(e.args[1].val.ts)
            THEN e.args[1].val ELSE Bad
       [] e.op \in {"Lookup", "Contains"} ->
            IF n = 2 /\ kindIs(1, {"Dict"}) /\ t(2) = t(1).ts[1]
            THEN IF e.op = "Lookup" THEN Cont("Opt", t(1).ts[2]) ELSE B ELSE Bad
       [] e.op = "ListHas" ->
            IF n = 2 /\ kindIs(1, {"List"}) /\ t(2) = ItemType(t(1)) /\ t(2) \in {U, B} THEN B ELSE Bad
       [] e.op = "ToDict" ->
            LET st == e.args[4].val IN
            IF /\ n = 4 /\ kindIs(1, {"List"}) /\ e.args[4].op = "Settings"
               /\ lam(2) \notin {Bad, Vd} /\ lam(3) # Bad
               /\ Cardinality(st \cap {"Hashed", "Sorted"}) = 1 /\ Cardinality(st \cap {"One", "Many"}) = 1
            THEN DictOf(lam(2), IF "Many" \in st THEN Cont("List", lam(3)) ELSE lam(3)) ELSE Bad
       [] e.op = "DictFromKeys" ->
            IF n = 2 /\ e.args[1].op = "Type" /\ kindIs(2, {"Tup"})
               /\ \A j \in DOMAIN t(2).ts : t(2).ts[j] = e.args[1].val
            THEN DictOf(e.args[1].val, Vd) ELSE Bad
       [] e.op = "Void" -> IF n = 0 THEN Vd ELSE Bad
       [] e.op = "Minus" -> IF n = 1 /\ t(1) = I THEN I ELSE Bad
       [] e.op = "DictItems" -> IF n = 1 /\ kindIs(1, {"Dict"}) THEN Cont("List", Tup(t(1).ts)) ELSE Bad
       [] e.op = "DictKeys" -> IF n = 1 /\ kindIs(1, {"Dict"}) THEN Cont("List", t(1).ts[1]) ELSE Bad
       [] e.op = "DictPayloads" -> IF n = 1 /\ kindIs(1, {"Dict"}) THEN Cont("List", t(1).ts[2]) ELSE Bad
       [] e.op = "Unordered" -> IF n = 1 /\ kindIs(1, SeqKinds) THEN t(1) ELSE Bad
       [] e.op = "SkipNullElements" ->
            LET item == ItemType(t(1)) IN
            IF /\ n \in {1, 2} /\ kindIs(1, Kinds) /\ item.k = "Tup"
               /\ (n = 2 => e.args[2].op = "Elements")
               /\ \A i \in NullElements(e, item) : i + 1 \in DOMAIN item.ts /\ item.ts[i + 1].k = "Opt"
            THEN t(1) ELSE Bad
       [] e.op = "AsTagged" -> IF n = 1 /\ t(1) # Bad THEN Tagged(t(1)) ELSE Bad
       [] e.op = "Untag" -> IF n = 1 /\ kindIs(1, {"Tagged"}) THEN t(1).ts[1] ELSE Bad
       [] e.op \in {"Min", "Max"} ->
            IF n >= 1 /\ \E d \in {U, I} : \A i \in 1 .. n : t(i) \in {d, Cont("Opt", d)}
            THEN IF \E i \in 1 .. n : kindIs(i, {"Opt"}) THEN Cont("Opt", OptItem(t(1))) ELSE t(1)
            ELSE Bad
       [] e.op = "OptionalReduce" ->
            IF n = 3 /\ t(1) # Bad /\ t(2) = t(1) /\ lam(3) = OptItem(t(1)) THEN t(1) ELSE Bad
       [] e.op \in {"Extract", "OrderedExtract"} ->
            LET item == ItemType(t(1)) IN
            IF n = 1 /\ kindIs(1, SeqKinds) /\ item.k = "Tup" /\ e.val + 1 \in DOMAIN item.ts
            THEN Cont(t(1).k, item.ts[e.val + 1]) ELSE Bad
       [] e.op \in MultiMapOps ->
            IF /\ n = 2 /\ kindIs(1, {"List"}) /\ e.args[2].op = "Lambda" /\ lam(2) # Bad
               /\ \A j \in DOMAIN ls[2] : ls[2][j] = lam(2)
            THEN Cont("List", lam(2)) ELSE Bad
       [] e.op \in DistinctOps \cup {"AggrEquals", "AggrNotEquals"} ->
            IF n = 2 /\ OptItem(t(1)) \in {U, I} /\ OptItem(t(2)) \in {U, I} THEN B ELSE Bad
       [] e.op = "SafeCast" ->
            LET r == e.args[2].val IN
            IF n = 2 /\ e.args[2].op = "Type" /\ OptItem(t(1)) \in {U, I} /\ OptItem(r) \in {U, I}
            THEN IF r.k = "Opt" \/ kindIs(1, {"Opt"}) \/ OptItem(t(1)) # r THEN Cont("Opt", OptItem(r)) ELSE r
            ELSE Bad
       [] e.op = "Convert" ->
            LET r == e.args[2].val IN
            IF n = 2 /\ e.args[2].op = "Type" /\ r \in {U, I} /\ OptItem(t(1)) \in {B, r}
            THEN IF kindIs(1, {"Opt"}) THEN Cont("Opt", r) ELSE r ELSE Bad
       [] e.op = "AggrCountInit" -> IF n = 1 /\ t(1) # Bad /\ ~kindIs(1, SeqKinds \cup {"Dict"}) THEN U ELSE Bad
       [] e.op = "AggrCountUpdate" ->
            IF n = 2 /\ t(1) # Bad /\ ~kindIs(1, SeqKinds \cup {"Dict"}) /\ t(2) = U THEN U ELSE Bad
       [] e.op = "Inc" -> IF n = 1 /\ t(1) = U THEN U ELSE Bad
       [] e.op \in {"==", "!="} -> IF n = 2 /\ t(1) \in {U, I} /\ t(2) \in {U, I} THEN B ELSE Bad
       [] OTHER -> Bad

-----------------------------------------------------------------------------
(***************************************************************************)
(* Meaning.  A value is a number ("d"), a Boolean ("b"), a tuple ("tup"),  *)
(* the empty struct ("struct"), or the sequence of items of a container   *)
(* ("seq": a list, a stream, a flow, or an Optional of length 0 or 1).    *)
(* Outs(e, env) is the set of values e may have under env.               *)
(***************************************************************************)
Val(k, v) == [k |-> k, v |-> v]
EmptySeq == Val("seq", <<>>)
VoidVal == Val("void", <<>>)

(* The sequences that pick one element of each set of sequence ss. *)
Picks(ss) == {r \in [DOMAIN ss -> UNION Range(ss)] : \A j \in DOMAIN ss : r[j] \in ss[j]}

(* Every order of the items of a container value. *)
Reorders(x) == {Val("seq", [i \in DOMAIN x.v |-> x.v[p[i]]]) : p \in Permutations(DOMAIN x.v)}

(* The index of the first item whose predicate value is FALSE, or one    *)
(* past the end.                                                          *)
FirstFalse(ps) == LET f == {j \in DOMAIN ps : ~ps[j].v} IN
                  IF f = {} THEN Len(ps) + 1 ELSE Min(f)

(* TakeWhile, SkipWhile and their Inclusive forms over items xs with     *)
(* predicate values ps.  TakeWhileInclusive keeps the first item that     *)
(* fails; SkipWhileInclusive drops it, the dual of TakeWhileInclusive.    *)
WhileResult(op, xs, ps) ==
  LET k == FirstFalse(ps) IN
  CASE op = "TakeWhile" -> SubSeq(xs, 1, k - 1)
    [] op = "SkipWhile" -> SubSeq(xs, k, Len(xs))
    [] op = "TakeWhileInclusive" -> SubSeq(xs, 1, Min({k, Len(xs)}))
    [] op = "SkipWhileInclusive" -> SubSeq(xs, k + 1, Len(xs))

(* The items of xs whose predicate value in ps is TRUE. *)
Kept(xs, ps) == FlattenSeq([j \in DOMAIN xs |-> IF ps[j].v THEN <<xs[j]>> ELSE <<>>])

RECURSIVE Outs(_, _)

(* The states a Fold lambda (child i of e) may reach from st over items  *)
(* xs[j..].                                                              *)
RECURSIVE FoldFrom(_, _, _, _, _, _)
FoldFrom(e, i, xs, j, st, env) ==
  IF j > Len(xs) THEN {st}
  ELSE UNION {FoldFrom(e, i, xs, j + 1, s2, env) :
                s2 \in Outs(e.args[i].args[1],
                            (e.args[i].val[1] :> xs[j]) @@ (e.args[i].val[2] :> st) @@ env)}

(* Sort keys as integer tuples, and the direction of each key item. *)
KeyInts(k) == IF k.k = "tup" THEN [i \in DOMAIN k.v |-> k.v[i].v] ELSE <<k.v>>
Dirs(a, n) == IF a.k = "b" THEN [i \in 1 .. n |-> a.v] ELSE [i \in DOMAIN a.v |-> a.v[i].v]

(* Key ka comes strictly before kb under the directions d. *)
Before(ka, kb, d) ==
  \E i \in DOMAIN ka : /\ \A j \in 1 .. i - 1 : ka[j] = kb[j]
                       /\ ka[i] # kb[i] /\ (ka[i] < kb[i]) = d[i]

(* The arrangements of the items of x sorted by the key lambda k with   *)
(* the ascending flags a, in any order among equal keys.                *)
SortedOrders(x, a, k, env) ==
  LET key(v) == KeyInts(CHOOSE kv \in Outs(k.args[1], (k.val :> v) @@ env) : TRUE)
      d == Dirs(a, Len(key(x.v[1])))
  IN IF x.v = <<>> THEN {x}
     ELSE {q \in Reorders(x) :
             \A i, j \in DOMAIN q.v : i < j => ~Before(key(q.v[j]), key(q.v[i]), d)}

(* The dictionaries of the key-payload pairs ps (tuple values): one      *)
(* payload per key.  Which of the payloads of a repeated key the runtime  *)
(* keeps is not in this repository, so any one may.                       *)
DictsOf(ps) ==
  LET ks == {ps[i].v[1] : i \in DOMAIN ps} IN
  {Val("dict", f) : f \in {g \in [ks -> {ps[i].v[2] : i \in DOMAIN ps}] :
                            \A k \in ks : \E i \in DOMAIN ps : ps[i].v = <<k, g[k]>>}}

(* The items of dictionary d in any order: its pairs, keys or payloads. *)
DictLists(op, d) ==
  LET item(k) == CASE op = "DictItems" -> Val("tup", <<k, d.v[k]>>)
                   [] op = "DictKeys" -> k
                   [] op = "DictPayloads" -> d.v[k]
  IN {Val("seq", [i \in DOMAIN ks |-> item(ks[i])]) : ks \in SetToSeqs(DOMAIN d.v)}

(* The items of an Optional, a datum as its one item; Lifted compares    *)
(* the numbers of them as a NULL-aware aggregate key does.              *)
Items(x) == IF x.k = "seq" THEN x.v ELSE <<x>>
Lifted(x) == [j \in DOMAIN Items(x) |-> Items(x)[j].v]

(* The largest Int32. *)
Int32Max == 2147483647

(* The first c items of q. *)
Prefix(q, c) == Val("seq", SubSeq(q.v, 1, Min({c, Len(q.v)})))

Outs(e, env) ==
  LET n == Len(e.args)
      O(i) == Outs(e.args[i], env)
      \* the values of the body of lambda child i applied to x
      Body(i, x) == Outs(e.args[i].args[1], (e.args[i].val :> x) @@ env)
      \* every choice of values of the children, a lambda child ignored
      kids == Picks([i \in 1 .. n |-> IF e.args[i].op = "Lambda" THEN {EmptySeq} ELSE O(i)])
      \* every choice of the lambda's values over the items of the input
      calls(x) == Picks([j \in DOMAIN x.v |-> Body(2, x.v[j])])
      ordered(r) == IF e.op \in Unordered THEN Reorders(r) ELSE {r}
      \* the limit of Filter: its third child, or none
      limits == IF n = 3 THEN {l.v : l \in O(3)} ELSE {MaxLen * MaxLen}
      Det(v) ==
        CASE e.op = "Just" -> Val("seq", <<v[1]>>)
          [] e.op \in {"Nothing", "EmptyIterator"} -> EmptySeq
          [] e.op = "List" -> Val("seq", Tail(v))
          [] e.op = "AsList" -> Val("seq", v)
          [] e.op = "Tuple" -> Val("tup", v)
          [] e.op = "AsStruct" -> Val("struct", <<>>)
          [] e.op = "Nth" -> v[1].v[e.val + 1]
          [] e.op \in {"ToList", "ToStream", "ToFlow", "ForwardList", "FromFlow"} -> v[1]
          [] e.op = "Reverse" -> Val("seq", Reverse(v[1].v))
          [] e.op = "HasItems" -> Val("b", v[1].v # <<>>)
          [] e.op = "Take" -> Val("seq", SubSeq(v[1].v, 1, Min({v[2].v, Len(v[1].v)})))
          [] e.op \in {"ListIf", "OptionalIf"} -> IF v[1].v THEN Val("seq", <<v[2]>>) ELSE EmptySeq
          [] e.op \in {"FlatListIf", "FlatOptionalIf"} -> IF v[1].v THEN v[2] ELSE EmptySeq
          [] e.op = "Fold" -> v[2]
          [] e.op = "Lookup" -> IF v[2] \in DOMAIN v[1].v THEN Val("seq", <<v[1].v[v[2]]>>) ELSE EmptySeq
          [] e.op = "Contains" -> Val("b", v[2] \in DOMAIN v[1].v)
          [] e.op = "ListHas" -> Val("b", v[2] \in Range(v[1].v))
          [] e.op = "SkipNullElements" ->
               LET idx == IF n = 2 THEN e.args[2].val ELSE {i - 1 : i \in DOMAIN v[1].v[1].v}
                   kept(r) == \A i \in idx : r.v[i + 1].v # <<>>
               IN Val("seq", SelectSeq(v[1].v, kept))
          [] e.op \in {"AsTagged", "Untag"} -> v[1]
          [] e.op \in {"IsNotDistinctFrom", "AggrEquals", "=="} -> Val("b", Lifted(v[1]) = Lifted(v[2]))
          [] e.op \in {"IsDistinctFrom", "AggrNotEquals", "!="} -> Val("b", Lifted(v[1]) # Lifted(v[2]))
          [] e.op \in {"Min", "Max"} ->
               LET opt == {i \in DOMAIN v : v[i].k = "seq"}
                   data == [i \in DOMAIN v |-> IF i \in opt THEN v[i].v[1] ELSE v[i]]
                   ds == {data[i].v : i \in DOMAIN v}
                   m == Val(data[1].k, IF e.op = "Min" THEN Min(ds) ELSE Max(ds))
               IN IF \E i \in opt : v[i].v = <<>> THEN EmptySeq
                  ELSE IF opt = {} THEN m ELSE Val("seq", <<m>>)
          [] e.op = "SafeCast" ->
               LET r == OptItem(e.args[2].val)
                   kd == IF r = U THEN "d" ELSE "i"
                   src == Items(v[1])
                   fits == src # <<>> /\ (IF r = U THEN src[1].v >= 0 ELSE src[1].v <= Int32Max)
               IN IF e.args[2].val.k # "Opt" /\ v[1].k = kd THEN Val(kd, src[1].v)
                  ELSE IF fits THEN Val("seq", <<Val(kd, src[1].v)>>) ELSE EmptySeq
          [] e.op = "Convert" ->
               LET kd == IF OptItem(e.args[2].val) = U THEN "d" ELSE "i"
                   num(x) == Val(kd, IF x.k = "b" THEN IF x.v THEN 1 ELSE 0 ELSE x.v)
               IN IF v[1].k = "seq" THEN Val("seq", [j \in DOMAIN v[1].v |-> num(v[1].v[j])]) ELSE num(v[1])
          [] e.op = "AggrCountInit" -> Val("d", Len(Items(v[1])))
          [] e.op = "AggrCountUpdate" -> Val("d", v[2].v + Len(Items(v[1])))
          [] e.op = "Inc" -> Val("d", v[1].v + 1)
          [] e.op = "Void" -> VoidVal
          [] e.op = "DictFromKeys" -> Val("dict", [k \in Range(v[2].v) |-> VoidVal])
          [] e.op = "Minus" -> Val("i", -v[1].v)
          [] OTHER -> v
  IN CASE e.op = "Arg" -> {env[e.val]}
       [] e.op = "Uint64" -> {Val("d", e.val)}
       [] e.op = "Int32" -> {Val("i", e.val)}
       [] e.op = "Bool" -> {Val("b", e.val)}
       [] e.op \in {"Type", "Settings"} -> {Val("type", <<>>)}
       [] e.op \in FlatMapOps ->
            UNION {UNION {ordered(Val("seq", FlattenSeq([j \in DOMAIN r |-> r[j].v]))) : r \in calls(x)} :
                     x \in O(1)}
       [] e.op \in MapOps ->
            UNION {UNION {ordered(Val("seq", r)) : r \in calls(x)} : x \in O(1)}
       [] e.op \in LMapOps -> UNION {UNION {ordered(r) : r \in Body(2, x)} : x \in O(1)}
       [] e.op \in FilterOps ->
            UNION {UNION {UNION {{Val("seq", SubSeq(y.v, 1, Min({lim, Len(y.v)}))) :
                                    y \in ordered(Val("seq", Kept(x.v, r)))} : lim \in limits} :
                          r \in calls(x)} :
                     x \in O(1)}
       [] e.op \in WhileOps ->
            UNION {{Val("seq", WhileResult(e.op, x.v, r)) : r \in calls(x)} : x \in O(1)}
       [] e.op = "Fold" ->
            UNION {UNION {FoldFrom(e, 3, x.v, 1, st, env) : st \in O(2)} : x \in O(1)}
       [] e.op = "Fold1" ->
            UNION {IF x.v = <<>> THEN {EmptySeq}
                   ELSE {Val("seq", <<s>>) : s \in UNION {FoldFrom(e, 3, x.v, 2, s0, env) :
                                                            s0 \in Body(2, x.v[1])}} :
                     x \in O(1)}
       [] e.op \in {"Extract", "OrderedExtract"} ->
            UNION {ordered(Val("seq", [j \in DOMAIN x.v |-> x.v[j].v[e.val + 1]])) : x \in O(1)}
       [] e.op \in MultiMapOps ->
            LET bodies(x) == Picks([j \in DOMAIN e.args[2].args |->
                                      Outs(e.args[2].args[j], (e.args[2].val :> x) @@ env)])
            IN UNION {UNION {ordered(Val("seq", FlattenSeq(r))) :
                               r \in Picks([j \in DOMAIN x.v |-> bodies(x.v[j])])} : x \in O(1)}
       [] e.op = "OptionalReduce" ->
            LET both(a, b) == Outs(e.args[3].args[1],
                                   (e.args[3].val[1] :> a) @@ (e.args[3].val[2] :> b) @@ env)
            IN UNION {CASE a.k # "seq" -> both(a, b)
                        [] a.v = <<>> -> {b}
                        [] b.v = <<>> -> {a}
                        [] OTHER -> {Val("seq", <<r>>) : r \in both(a.v[1], b.v[1])} :
                        a \in O(1), b \in O(2)}
       [] e.op = "AsDict" -> UNION {DictsOf(v) : v \in kids}
       [] e.op = "Dict" -> UNION {DictsOf(Tail(v)) : v \in kids}
       [] e.op = "ToDict" ->
            LET pairs(x) == Picks([j \in DOMAIN x.v |->
                                     {Val("tup", <<k, p>>) : k \in Body(2, x.v[j]), p \in Body(3, x.v[j])}])
                \* Many: the payloads of each key, in an order the runtime (not in
                \* this repository) chooses
                grouped(ps) ==
                  LET ks == {ps[j].v[1] : j \in DOMAIN ps}
                      of(k) == LET has(p) == p.v[1] = k
                                   sel == SelectSeq(ps, has)
                               IN Val("seq", [j \in DOMAIN sel |-> sel[j].v[2]])
                  IN {Val("dict", g) : g \in Picks([k \in ks |-> Reorders(of(k))])}
            IN UNION {UNION {IF "Many" \in e.args[4].val THEN grouped(ps) ELSE DictsOf(ps) : ps \in pairs(x)} :
                        x \in O(1)}
       [] e.op \in {"DictItems", "DictKeys", "DictPayloads"} -> UNION {DictLists(e.op, d) : d \in O(1)}
       [] e.op = "Unordered" -> UNION {Reorders(x) : x \in O(1)}
       [] e.op = "AssumeSorted" -> O(1)
       [] e.op = "Sort" -> UNION {SortedOrders(x, a, KeyLambda(e), env) : x \in O(1), a \in O(2)}
       [] e.op = "TopSort" ->
            UNION {{Prefix(q, c.v) : q \in SortedOrders(x, a, KeyLambda(e), env)} :
                     x \in O(1), c \in O(2), a \in O(3)}
       [] e.op = "Top" ->
            UNION {UNION {Reorders(Prefix(q, c.v)) : q \in SortedOrders(x, a, KeyLambda(e), env)} :
                     x \in O(1), c \in O(2), a \in O(3)}
       [] OTHER -> {Det(v) : v \in kids}

-----------------------------------------------------------------------------
(* Every value of a type: containers up to MaxLen items (an Optional up  *)
(* to one) over the data values DataVals (and their negations for an     *)
(* Int32 item).                                                          *)
RECURSIVE ValuesOf(_)
ValuesOf(t) ==
  CASE t.k = "U" -> {Val("d", d) : d \in DataVals}
    [] t.k = "I" -> {Val("i", d) : d \in DataVals \cup {-d : d \in DataVals}}
    [] t.k = "B" -> {Val("b", b) : b \in BOOLEAN}
    [] t.k = "Tup" -> {Val("tup", r) : r \in Picks([i \in DOMAIN t.ts |-> ValuesOf(t.ts[i])])}
    [] t.k = "Struct" -> {Val("struct", <<>>)}
    [] t.k = "Tagged" -> ValuesOf(t.ts[1])
    [] t.k = "Dict" ->
         UNION {{Val("dict", f) : f \in [ks -> ValuesOf(t.ts[2])]} : ks \in SUBSET ValuesOf(t.ts[1])}
    [] t.k \in Kinds ->
         {Val("seq", r) : r \in BoundedSeq(ValuesOf(t.ts[1]), IF t.k = "Opt" THEN 1 ELSE MaxLen)}

(* The argument names an expression uses and does not bind. *)
RECURSIVE FreeArgs(_)
FreeArgs(e) ==
  IF e.op = "Arg" THEN {e.val}
  ELSE (UNION {FreeArgs(e.args[i]) : i \in DOMAIN e.args})
         \ (CASE e.op = "Lambda" -> {e.val} [] e.op = "Lambda2" -> Range(e.val) [] OTHER -> {})
====

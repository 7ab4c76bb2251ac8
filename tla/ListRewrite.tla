---------------------------- MODULE ListRewrite ----------------------------
(***************************************************************************)
(* Rewrite rules of ydb/library/yql/core/common_opt/yql_co_simple1.cpp    *)
(* for lists, optionals, streams and flows of Uint64: Take, Skip, Length, *)
(* HasItems, Extend, Reverse, List, ToList, ToOptional/Head/Last,         *)
(* ListIf/OptionalIf, FlatListIf/FlatOptionalIf, Collect, ToFlow,         *)
(* ForwardList, Iterator, LazyList, Append/Prepend, Optional, Min, the    *)
(* comparisons and Unwrap, applied by the fixpoint walker of spec.md 4.3. *)
(*                                                                         *)
(* Types are strings: "U" Uint64, "B" Bool, "OU" Optional<Uint64>, "OB"   *)
(* Optional<Bool>, "LU" List<Uint64>, "SU" Stream<Uint64>, "FU"           *)
(* Flow<Uint64>.  A type child (ExpandType) is a node "Type" whose val is *)
(* the type it denotes.  Unordered callables (Extend) have a set of       *)
(* possible results, so the meaning of an expression is the set of its    *)
(* possible values, and a rewrite is correct when it only narrows it.     *)
(***************************************************************************)
EXTENDS ExprTerm, Integers, FiniteSets, SequencesExt

CONSTANTS
  Elems,      \* the Uint64 values of stream elements
  Counts,     \* the Uint64 values of the free count argument n
  MaxStream,  \* longest value of the free stream argument s
  UintMod,    \* 2^w: Uint64 arithmetic wraps modulo 2^w
  FlowOfOptional  \* whether inputs contain ToFlow over an Optional

UintLit(n) == [op |-> "Uint64", args |-> <<>>, val |-> n]
TypeNode(t) == [op |-> "Type", args |-> <<>>, val |-> t]

(* GetEmptyCollectionName(type): the callable of an empty container. *)
GetEmptyCollectionName(t) ==
  CASE t \in {"SU", "FU"} -> "EmptyIterator"
    [] t = "LU" -> "List"
    [] t \in {"OU", "OB"} -> "Nothing"

(* IsEmptyContainer: a List, Nothing or EmptyIterator with only its type. *)
IsEmptyContainer(e) ==
  e.op \in {"List", "Nothing", "EmptyIterator"} /\ Len(e.args) = 1

(***************************************************************************)
(* Type annotation of the callables; "bad" for what the annotator would   *)
(* reject.  s is the free Stream<Uint64> argument, n the free Uint64 one. *)
(***************************************************************************)
RECURSIVE TypeOf(_)
TypeOf(e) ==
  LET n == Len(e.args)
      t(i) == TypeOf(e.args[i])
      All(i0, S) == \A i \in i0 .. n : t(i) \in S
      Seqs == {"LU", "SU", "FU"}
  IN CASE e.op = "Uint64" -> "U"
       [] e.op = "Bool" -> "B"
       [] e.op = "Type" -> "T"
       [] e.op = "Arg" -> IF e.val = "s" THEN "SU" ELSE "U"
       [] e.op = "AsList" -> IF n >= 1 /\ All(1, {"U"}) THEN "LU" ELSE "bad"
       [] e.op = "List" -> IF n >= 1 /\ e.args[1] = TypeNode("LU") /\ All(2, {"U"})
                           THEN "LU" ELSE "bad"
       [] e.op \in {"Nothing", "EmptyIterator"} ->
            IF n = 1 /\ e.args[1].op = "Type" /\ GetEmptyCollectionName(e.args[1].val) = e.op
            THEN e.args[1].val ELSE "bad"
       [] e.op = "Just" -> IF n = 1 /\ t(1) = "U" THEN "OU"
                           ELSE IF n = 1 /\ t(1) = "B" THEN "OB" ELSE "bad"
       [] e.op = "Optional" -> IF n = 2 /\ e.args[1] = TypeNode("OU") /\ t(2) = "U"
                               THEN "OU" ELSE "bad"
       [] e.op = "Iterator" -> IF n = 1 /\ t(1) = "LU" THEN "SU" ELSE "bad"
       [] e.op = "FromFlow" -> IF n = 1 /\ t(1) = "FU" THEN "SU" ELSE "bad"
       [] e.op = "ForwardList" -> IF n = 1 /\ t(1) \in {"SU", "FU"} THEN "LU" ELSE "bad"
       [] e.op = "Collect" -> IF n = 1 /\ t(1) \in Seqs THEN "LU" ELSE "bad"
       [] e.op = "LazyList" -> IF n = 1 /\ t(1) = "LU" THEN "LU" ELSE "bad"
       [] e.op = "ToFlow" -> IF n = 1 /\ t(1) \in Seqs \cup {"OU"} THEN "FU" ELSE "bad"
       [] e.op = "ToList" -> IF n = 1 /\ t(1) = "OU" THEN "LU" ELSE "bad"
       [] e.op \in {"ToOptional", "Head", "Last"} -> IF n = 1 /\ t(1) = "LU" THEN "OU" ELSE "bad"
       [] e.op \in {"Take", "Skip"} -> IF n = 2 /\ t(1) \in Seqs /\ t(2) = "U" THEN t(1) ELSE "bad"
       [] e.op = "Length" -> IF n = 1 /\ t(1) = "LU" THEN "U" ELSE "bad"
       [] e.op = "HasItems" -> IF n = 1 /\ t(1) = "LU" THEN "B" ELSE "bad"
       [] e.op = "Reverse" -> IF n = 1 /\ t(1) = "LU" THEN "LU" ELSE "bad"
       [] e.op \in {"Extend", "OrderedExtend"} -> IF n >= 1 /\ All(1, {"LU"}) THEN "LU" ELSE "bad"
       [] e.op = "Append" -> IF n = 2 /\ t(1) = "LU" /\ t(2) = "U" THEN "LU" ELSE "bad"
       [] e.op = "Prepend" -> IF n = 2 /\ t(1) = "U" /\ t(2) = "LU" THEN "LU" ELSE "bad"
       [] e.op \in {"ListIf", "OptionalIf"} ->
            IF n = 2 /\ t(1) = "B" /\ t(2) = "U"
            THEN IF e.op = "ListIf" THEN "LU" ELSE "OU" ELSE "bad"
       [] e.op = "FlatListIf" -> IF n = 2 /\ t(1) = "B" /\ t(2) = "LU" THEN "LU" ELSE "bad"
       [] e.op = "FlatOptionalIf" -> IF n = 2 /\ t(1) = "B" /\ t(2) = "OU" THEN "OU" ELSE "bad"
       [] e.op = "Min" -> IF n >= 1 /\ All(1, {"U", "OU"})
                          THEN IF All(1, {"U"}) THEN "U" ELSE "OU" ELSE "bad"
       [] e.op = "-" -> IF n = 2 /\ All(1, {"U"}) THEN "U" ELSE "bad"
       [] e.op \in {"==", ">"} -> IF n = 2 /\ All(1, {"U", "OU"})
                                  THEN IF All(1, {"U"}) THEN "B" ELSE "OB" ELSE "bad"
       [] e.op = "If" -> IF n = 3 /\ t(1) = "B" /\ t(2) = t(3) /\ t(2) # "bad"
                         THEN t(2) ELSE "bad"
       [] e.op = "Unwrap" -> IF n = 1 /\ t(1) = "OU" THEN "U" ELSE "bad"
       [] e.op = "ToStream" -> IF n = 1 /\ t(1) \in {"LU", "SU", "OU"} THEN "SU" ELSE "bad"
       [] OTHER -> "bad"

IsOptional(e) == TypeOf(e) \in {"OU", "OB"}

(***************************************************************************)
(* Meaning.  A value is a number, a Boolean, a type name, or a sequence   *)
(* (a list, a stream, a flow, or an Optional of length 0 or 1);           *)
(* "error" is the failure of Unwrap over an empty Optional.  Outs is the  *)
(* set of values the expression may have under env.                      *)
(***************************************************************************)
RECURSIVE Perms(_)
Perms(sq) ==
  IF sq = <<>> THEN {<<>>}
  ELSE UNION {{<<sq[i]>> \o p : p \in Perms(RemoveAt(sq, i))} : i \in 1 .. Len(sq)}
SeqMin(a, b) == IF a < b THEN a ELSE b

Apply(e, v, env) ==
  LET n == Len(e.args)
      opt(i) == TypeOf(e.args[i]) \in {"OU", "OB"}
      absent == \E i \in 1 .. n : opt(i) /\ v[i] = <<>>
      plain(i) == IF opt(i) THEN v[i][1] ELSE v[i]
      anyOpt == \E i \in 1 .. n : opt(i)
      Lift(x) == IF absent THEN <<>> ELSE IF anyOpt THEN <<x>> ELSE x
      FoldMin == FoldLeft(SeqMin, plain(1), [i \in 1 .. n - 1 |-> plain(i + 1)])
      len == IF n > 0 /\ v[1] \in Seq(Elems) THEN Len(v[1]) ELSE 0
  IN CASE e.op \in {"Uint64", "Bool", "Type"} -> e.val
       [] e.op = "Arg" -> env[e.val]
       [] e.op = "AsList" -> v
       [] e.op = "List" -> Tail(v)
       [] e.op \in {"Just", "Optional"} -> <<v[n]>>
       [] e.op \in {"Nothing", "EmptyIterator"} -> <<>>
       [] e.op \in {"Iterator", "FromFlow", "ForwardList", "Collect", "LazyList",
                    "ToFlow", "ToList", "ToStream"} -> v[1]
       [] e.op \in {"ToOptional", "Head"} -> IF len = 0 THEN <<>> ELSE <<v[1][1]>>
       [] e.op = "Last" -> IF len = 0 THEN <<>> ELSE <<v[1][len]>>
       [] e.op = "Take" -> [i \in 1 .. SeqMin(v[2], len) |-> v[1][i]]
       [] e.op = "Skip" -> [i \in 1 .. len - SeqMin(v[2], len) |-> v[1][SeqMin(v[2], len) + i]]
       [] e.op = "Length" -> len
       [] e.op = "HasItems" -> len > 0
       [] e.op = "Reverse" -> Reverse(v[1])
       [] e.op = "OrderedExtend" -> FlattenSeq(v)
       [] e.op = "Append" -> v[1] \o <<v[2]>>
       [] e.op = "Prepend" -> <<v[1]>> \o v[2]
       [] e.op \in {"ListIf", "OptionalIf"} -> IF v[1] THEN <<v[2]>> ELSE <<>>
       [] e.op \in {"FlatListIf", "FlatOptionalIf"} -> IF v[1] THEN v[2] ELSE <<>>
       [] e.op = "Min" -> Lift(FoldMin)
       [] e.op = "-" -> (v[1] + UintMod - v[2]) % UintMod
       [] e.op = "==" -> Lift(plain(1) = plain(2))
       [] e.op = ">" -> Lift(plain(1) > plain(2))
       [] e.op = "If" -> IF v[1] THEN v[2] ELSE v[3]
       [] e.op = "Unwrap" -> IF v[1] = <<>> THEN "error" ELSE v[1][1]

RECURSIVE Outs(_, _)

(* The tuples of possible values of the expressions in sequence es. *)
RECURSIVE OutsTuples(_, _)
OutsTuples(es, env) ==
  IF es = <<>> THEN {<<>>}
  ELSE LET first == Outs(Head(es), env)
           rest == OutsTuples(Tail(es), env)
       IN {<<x>> \o t : x \in first, t \in rest}

Outs(e, env) ==
  LET tuples == OutsTuples(e.args, env) IN
  IF e.op = "Extend" THEN UNION {Perms(FlattenSeq(t)) : t \in tuples}
  ELSE {Apply(e, t, env) : t \in tuples}

Envs == [s : BoundedSeq(Elems, MaxStream), n : Counts]

-----------------------------------------------------------------------------
(* The empty container of e's own type: ctx.NewCallable(GetEmptyCollectionName(type), {ExpandType(type)}) *)
EmptyOf(e) == Node(GetEmptyCollectionName(TypeOf(e)), <<TypeNode(TypeOf(e))>>)

(* map["Skip"]: Skip(x, Uint64 '0) is x. *)
SkipRule(e) ==
  IF e.args[2].op = "Uint64" /\ e.args[2].val = 0 THEN e.args[1] ELSE e

(* map["Take"]: Take(x, Uint64 '0) is the empty container of its type. *)
TakeRule(e) ==
  IF e.args[2].op = "Uint64" /\ e.args[2].val = 0 THEN EmptyOf(e) ELSE e

(* Take or Skip over ForwardList or Collect, the shape the Length and     *)
(* HasItems rules fold.                                                   *)
OverForward(x, op) == x.op = op /\ x.args[1].op \in {"ForwardList", "Collect"}

(* Mutant of LengthRule: the Skip branch subtracts n without the Min. *)
LengthRuleSkipNoMin(e) ==
  IF OverForward(e.args[1], "Skip")
  THEN Node("-", <<Node("Length", <<e.args[1].args[1]>>), e.args[1].args[2]>>)
  ELSE e

(***************************************************************************)
(* map["Length"]: the literal size of AsList and List; over Take of a     *)
(* forward list Min(n, Length(l)); over Skip Length(l) - Min(n,           *)
(* Length(l)).  (The reorder, window and FlatMap branches need callables  *)
(* that are not generated.)                                               *)
(***************************************************************************)
LengthRule(e) ==
  LET h == e.args[1]
      len == Node("Length", <<IF OverForward(h, "Take") \/ OverForward(h, "Skip")
                              THEN h.args[1] ELSE h>>)
  IN CASE h.op = "AsList" -> UintLit(Len(h.args))
       [] h.op = "List" -> UintLit(Len(h.args) - 1)
       [] OverForward(h, "Take") -> Node("Min", <<h.args[2], len>>)
       [] OverForward(h, "Skip") -> Node("-", <<len, Node("Min", <<h.args[2], len>>)>>)
       [] OTHER -> e

(***************************************************************************)
(* map["HasItems"]: TRUE over Append/Insert/Prepend; the literal size of  *)
(* AsList and List; over Take of a forward list If(0 == n, FALSE,         *)
(* HasItems(l)); over Skip Length(l) > n.                                 *)
(***************************************************************************)
HasItemsRule(e) ==
  LET h == e.args[1] IN
  CASE h.op \in {"Append", "Insert", "Prepend"} -> BoolLit(TRUE)
    [] h.op = "AsList" -> BoolLit(Len(h.args) > 0)
    [] h.op = "List" -> BoolLit(Len(h.args) > 1)
    [] OverForward(h, "Take") ->
         Node("If", <<Node("==", <<UintLit(0), h.args[2]>>), BoolLit(FALSE),
                      Node("HasItems", <<h.args[1]>>)>>)
    [] OverForward(h, "Skip") ->
         Node(">", <<Node("Length", <<h.args[1]>>), h.args[2]>>)
    [] OTHER -> e

(***************************************************************************)
(* map["Extend"], ["OrderedExtend"]: one child is the result; the first   *)
(* child that is empty is dropped (the other child is the result when     *)
(* there are two), or an inner Extend is spliced in; else the first run   *)
(* of two or more adjacent AsLists is fused into one AsList.              *)
(***************************************************************************)
ExtendRule(e) ==
  LET n == Len(e.args)
      k == e.args
      hit == SelectInSeq(k, LAMBDA c : IsEmptyContainer(c) \/ c.op \in {"Extend", "OrderedExtend"})
      run == SelectInSeq([i \in 1 .. n - 1 |-> <<k[i].op, k[i + 1].op>>],
                         LAMBDA pr : pr = <<"AsList", "AsList">>)
      j == CHOOSE j \in run + 2 .. n + 1 :
             /\ \A m \in run .. j - 1 : k[m].op = "AsList"
             /\ (j = n + 1 \/ k[j].op # "AsList")
      fused == ChangeChildren(k[run], FlattenSeq([m \in 1 .. j - run |-> k[run + m - 1].args]))
  IN
  IF n = 1 THEN k[1]
  ELSE IF hit > 0 /\ IsEmptyContainer(k[hit])
    THEN IF n = 2 THEN k[3 - hit] ELSE ChangeChildren(e, RemoveAt(k, hit))
  ELSE IF hit > 0
    THEN ChangeChildren(e, SubSeq(k, 1, hit - 1) \o k[hit].args \o SubSeq(k, hit + 1, n))
  ELSE IF run > 0
    THEN IF j - run = n THEN fused
         ELSE ChangeChildren(e, SubSeq(k, 1, run - 1) \o <<fused>> \o SubSeq(k, j, n))
  ELSE e

(* map["ForwardList"]: over Iterator(l) it is l; over ToFlow(x) it is x,  *)
(* kept under ForwardList when x is a stream.                             *)
ForwardListRule(e) ==
  LET h == e.args[1] IN
  CASE h.op = "Iterator" -> h.args[1]
    [] h.op = "ToFlow" -> WrapIf(TypeOf(h.args[1]) = "SU", "ForwardList", h.args[1])
    [] OTHER -> e

(* map["Iterator"]: Iterator(ForwardList(x)) is x, under FromFlow for a flow. *)
IteratorRule(e) ==
  IF Len(e.args) = 1 /\ e.args[1].op = "ForwardList"
  THEN WrapIf(TypeOf(e.args[1].args[1]) = "FU", "FromFlow", e.args[1].args[1])
  ELSE e

(***************************************************************************)
(* map["Reverse"]: Reverse of Reverse; Reverse over the unordered Extend  *)
(* is dropped; a literal list of 0 or 1 items is its own reverse; an      *)
(* AsList of more is reversed in place.                                   *)
(***************************************************************************)
ReverseRule(e) ==
  LET h == e.args[1]
      count == IF h.op = "List" THEN Len(h.args) - 1 ELSE Len(h.args)
  IN CASE h.op = "Reverse" -> h.args[1]
       [] h.op \in {"Map", "FlatMap", "Filter", "Extend"} -> h
       [] h.op \in {"List", "AsList"} /\ count <= 1 -> h
       [] h.op = "AsList" -> ChangeChildren(h, Reverse(h.args))
       [] OTHER -> e

(***************************************************************************)
(* map["ToList"]: over Nothing the empty List; over Just(x) AsList(x);    *)
(* over Head/ToOptional(l) Take(l, Uint64 '1); over OptionalIf ListIf.    *)
(***************************************************************************)
ToListRule(e) ==
  LET h == e.args[1] IN
  CASE h.op = "Nothing" -> Node("List", <<TypeNode(TypeOf(e))>>)
    [] h.op = "Just" -> Node("AsList", h.args)
    [] h.op \in {"Head", "ToOptional"} -> Node("Take", <<h.args[1], UintLit(1)>>)
    [] h.op = "OptionalIf" -> RenameNode(h, "ListIf")
    [] OTHER -> e

(* map["List"]: a List with items is an AsList of them. *)
ListRule(e) == IF Len(e.args) > 1 THEN Node("AsList", Tail(e.args)) ELSE e

(* map["Optional"]: Optional(type, x) is Just(x). *)
OptionalRule(e) == Node("Just", <<Last(e.args)>>)

(***************************************************************************)
(* OptimizeContainerIf<IsList>: ListIf/OptionalIf with a literal          *)
(* predicate is AsList/Just(x) or the empty List/Nothing of x's type.     *)
(***************************************************************************)
OptimizeContainerIf(e, isList) ==
  IF e.args[1].op = "Bool"
  THEN IF e.args[1].val
       THEN Node(IF isList THEN "AsList" ELSE "Just", <<e.args[2]>>)
       ELSE Node(IF isList THEN "List" ELSE "Nothing",
                 <<TypeNode(IF isList THEN "LU" ELSE "OU")>>)
  ELSE e

(***************************************************************************)
(* OptimizeFlatContainerIf<IsList>: FlatListIf(p, AsList(x)) is           *)
(* ListIf(p, x) (FlatOptionalIf over Just likewise); with a literal       *)
(* predicate it is the container or the empty one of its type.  The       *)
(* branch over an empty container computes a result it never returns.     *)
(* Not modelled: the fuse with a predicate FlatMap (IsPredicateFlatMap,    *)
(* the And of both predicates); no input here has such a FlatMap tail.     *)
(***************************************************************************)
OptimizeFlatContainerIf(e, isList) ==
  LET t == e.args[2] IN
  IF Len(t.args) = 1 /\ t.op = (IF isList THEN "AsList" ELSE "Just")
    THEN Node(IF isList THEN "ListIf" ELSE "OptionalIf", <<e.args[1], t.args[1]>>)
  ELSE IF e.args[1].op = "Bool"
    THEN IF e.args[1].val THEN t ELSE EmptyOf(e)
  ELSE e

(* Mutant of OptimizeToOptional: the item of an AsList is not wrapped in Just. *)
OptimizeToOptionalNoJust(e, headOrTail) ==
  IF e.args[1].op = "AsList"
  THEN IF headOrTail THEN e.args[1].args[1] ELSE Last(e.args[1].args)
  ELSE e

(***************************************************************************)
(* OptimizeToOptional<HeadOrTail>: ToOptional/Head (first) and Last over  *)
(* ToList(x) are x; over AsList Just of the first or last item; over an   *)
(* empty List Nothing.                                                    *)
(***************************************************************************)
OptimizeToOptional(e, headOrTail) ==
  LET h == e.args[1] IN
  CASE h.op = "ToList" -> h.args[1]
    [] h.op = "AsList" -> Node("Just", <<IF headOrTail THEN h.args[1] ELSE Last(h.args)>>)
    [] Len(h.args) = 1 /\ h.op = "List" -> EmptyOf(e)
    [] OTHER -> e

(***************************************************************************)
(* OptimizeInsert<AppendOrPrepend>: Append(l, x) / Prepend(x, l) over an  *)
(* empty container is AsList(x), over AsList the item joins it.           *)
(***************************************************************************)
OptimizeInsert(e, appendOrPrepend) ==
  LET list == IF appendOrPrepend THEN e.args[1] ELSE e.args[2]
      item == IF appendOrPrepend THEN e.args[2] ELSE e.args[1]
  IN IF IsEmptyContainer(list) THEN Node("AsList", <<item>>)
     ELSE IF list.op = "AsList"
       THEN ChangeChildren(list, IF appendOrPrepend THEN list.args \o <<item>>
                                 ELSE <<item>> \o list.args)
     ELSE e

(***************************************************************************)
(* OptimizeToFlow: over Nothing an EmptyIterator; ForwardList, LazyList   *)
(* and ToStream under it are dropped, and so is Iterator over a list.     *)
(***************************************************************************)
OptimizeToFlow(e) ==
  LET h == e.args[1] IN
  CASE h.op = "Nothing" -> Node("EmptyIterator", <<TypeNode(TypeOf(e))>>)
    [] h.op \in {"ForwardList", "LazyList", "ToStream"} -> ChangeChildren(e, h.args)
    [] Len(h.args) = 1 /\ h.op = "Iterator" /\ TypeOf(h.args[1]) = "LU" ->
         ChangeChildren(e, h.args)
    [] OTHER -> e

(***************************************************************************)
(* OptimizeCollect: ForwardList and LazyList under it are dropped, and so *)
(* is Iterator over a list; Collect over a list it would copy is dropped. *)
(***************************************************************************)
OptimizeCollect(e) ==
  LET h == e.args[1] IN
  CASE h.op \in {"ForwardList", "LazyList"} -> ChangeChildren(e, h.args)
    [] Len(h.args) = 1 /\ h.op = "Iterator" /\ TypeOf(h.args[1]) = "LU" ->
         ChangeChildren(e, h.args)
    [] h.op \in {"Collect", "List", "ListIf", "AsList"} -> h
    [] OTHER -> e

(* DropDuplicate: LazyList(LazyList(x)) is LazyList(x). *)
DropDuplicate(e) == IF e.args[1].op = e.op THEN e.args[1].args[1] ELSE e

(* map["ToStream"]: over Nothing an EmptyIterator. *)
ToStreamRule(e) ==
  IF e.args[1].op = "Nothing" THEN Node("EmptyIterator", <<TypeNode(TypeOf(e))>>) ELSE e

(***************************************************************************)
(* OptimizeMinMax<true> with ConstFoldNodeIntAggregate<TMinAggregate>:    *)
(* a Nothing child is the result; Uint64 literals only fold to one.       *)
(***************************************************************************)
OptimizeMinMax(e) ==
  LET k == e.args
      nothing == SelectInSeq(k, LAMBDA c : c.op = "Nothing")
  IN IF nothing > 0 THEN k[nothing]
     ELSE IF Len(k) > 0 /\ \A i \in 1 .. Len(k) : k[i].op = "Uint64"
       THEN UintLit(FoldLeft(SeqMin, k[1].val, [i \in 1 .. Len(k) - 1 |-> k[i + 1].val]))
     ELSE e

(* OptimizeCompare: a comparison with Nothing is Nothing<Bool>. *)
OptimizeCompare(e) ==
  IF e.args[1].op = "Nothing" \/ e.args[2].op = "Nothing"
  THEN Node("Nothing", <<TypeNode("OB")>>) ELSE e

(* Mutant of OptimizeEquality: the operands are swapped where no case applies. *)
OptimizeEqualitySwapsOperands(e) ==
  LET h == e.args[1]
      t == e.args[2]
  IN IF h.op = "Nothing" \/ t.op = "Nothing" THEN Node("Nothing", <<TypeNode("OB")>>)
     ELSE IF h.op = "Just" /\ TypeOf(h.args[1]) = "U"
       THEN WrapIf(TypeOf(t) = "U", "Just", Node(e.op, <<h.args[1], t>>))
     ELSE IF t.op = "Just" /\ TypeOf(t.args[1]) = "U"
       THEN WrapIf(TypeOf(h) = "U", "Just", Node(e.op, <<h, t.args[1]>>))
     ELSE Node(e.op, <<t, h>>)

(***************************************************************************)
(* OptimizeEquality<true> for Uint64 operands: Nothing on either side     *)
(* gives Nothing<Bool>; Just over data is stripped, the result wrapped in *)
(* Just when the other side is data.                                      *)
(***************************************************************************)
OptimizeEquality(e) ==
  LET h == e.args[1]
      t == e.args[2]
  IN IF h.op = "Nothing" \/ t.op = "Nothing" THEN Node("Nothing", <<TypeNode("OB")>>)
     ELSE IF h.op = "Just" /\ TypeOf(h.args[1]) = "U"
       THEN WrapIf(TypeOf(t) = "U", "Just", Node(e.op, <<h.args[1], t>>))
     ELSE IF t.op = "Just" /\ TypeOf(t.args[1]) = "U"
       THEN WrapIf(TypeOf(h) = "U", "Just", Node(e.op, <<h, t.args[1]>>))
     ELSE e

(* map["Unwrap"]: Unwrap(Just(x)) is x. *)
UnwrapRule(e) == IF e.args[1].op = "Just" THEN e.args[1].args[1] ELSE e

(* The callable table: map[name] for the callables modelled here. *)
Rule(e) ==
  CASE e.op = "Skip" -> SkipRule(e)
    [] e.op = "Take" -> TakeRule(e)
    [] e.op = "Length" -> LengthRule(e)
    [] e.op = "HasItems" -> HasItemsRule(e)
    [] e.op \in {"Extend", "OrderedExtend"} -> ExtendRule(e)
    [] e.op = "ForwardList" -> ForwardListRule(e)
    [] e.op = "Iterator" -> IteratorRule(e)
    [] e.op = "Reverse" -> ReverseRule(e)
    [] e.op = "ToList" -> ToListRule(e)
    [] e.op = "List" -> ListRule(e)
    [] e.op = "Optional" -> OptionalRule(e)
    [] e.op = "ListIf" -> OptimizeContainerIf(e, TRUE)
    [] e.op = "OptionalIf" -> OptimizeContainerIf(e, FALSE)
    [] e.op = "FlatListIf" -> OptimizeFlatContainerIf(e, TRUE)
    [] e.op = "FlatOptionalIf" -> OptimizeFlatContainerIf(e, FALSE)
    [] e.op \in {"ToOptional", "Head"} -> OptimizeToOptional(e, TRUE)
    [] e.op = "Last" -> OptimizeToOptional(e, FALSE)
    [] e.op \in {"Append", "Insert"} -> OptimizeInsert(e, TRUE)
    [] e.op = "Prepend" -> OptimizeInsert(e, FALSE)
    [] e.op = "ToFlow" -> OptimizeToFlow(e)
    [] e.op = "Collect" -> OptimizeCollect(e)
    [] e.op = "LazyList" -> DropDuplicate(e)
    [] e.op = "ToStream" -> ToStreamRule(e)
    [] e.op = "Min" -> OptimizeMinMax(e)
    [] e.op = ">" -> OptimizeCompare(e)
    [] e.op = "==" -> OptimizeEquality(e)
    [] e.op = "Unwrap" -> UnwrapRule(e)
    [] OTHER -> e

(* One pass of the fixpoint walker: children first, then the node's rule. *)
(* The node with its children rewritten is bound once (as an element of a *)
(* set) before its rule looks at it repeatedly.                          *)
RECURSIVE Pass(_)
Pass(e) ==
  CHOOSE r \in {Rule(k) : k \in {ChangeChildren(e, [i \in 1 .. Len(e.args) |-> Pass(e.args[i])])}} : TRUE

-----------------------------------------------------------------------------
(***************************************************************************)
(* Inputs: well-typed expressions of one callable over small pools of     *)
(* Uint64 (U), list (L), stream (S), flow (F), Optional (O) and Bool (B)  *)
(* children, built from literals, the free stream s and the free count n. *)
(***************************************************************************)
S0 == Arg("s")
U0 == UintLit(0)
U1 == UintLit(1)
N == Arg("n")
FL == Node("ForwardList", <<S0>>)
EmptyList == Node("List", <<TypeNode("LU")>>)
PoolU == {U0, U1, N}
PoolL == {FL, Node("Collect", <<S0>>), EmptyList, Node("List", <<TypeNode("LU"), U1>>),
          Node("AsList", <<U0>>), Node("AsList", <<U1, U0>>)}
PoolCut == {Node(op, <<x, c>>) : op \in {"Take", "Skip"},
                                 x \in {FL, Node("Collect", <<S0>>)}, c \in {U1, N}}
PoolS == {S0, Node("Iterator", <<Node("AsList", <<U1>>)>>), Node("ToStream", <<FL>>)}
PoolF == {Node("ToFlow", <<S0>>), Node("ToFlow", <<Node("AsList", <<U0>>)>>)}
PoolO == {Node("Nothing", <<TypeNode("OU")>>), Node("Just", <<U1>>), Node("Head", <<FL>>)}
PoolB == {BoolLit(TRUE), BoolLit(FALSE), Node("HasItems", <<FL>>)}
Un(ops, pool) == {Node(op, <<x>>) : op \in ops, x \in pool}
Bin(ops, p1, p2) == {Node(op, <<x, y>>) : op \in ops, x \in p1, y \in p2}
FlowIn == PoolL \cup PoolS \cup {Node("LazyList", <<FL>>)} \cup
          (IF FlowOfOptional THEN PoolO ELSE {})
Inputs ==
  {t \in
     Bin({"Take", "Skip"}, PoolL \cup PoolS \cup PoolF, PoolU)
     \cup Un({"Length", "HasItems", "Reverse"},
             PoolL \cup PoolCut \cup Bin({"Append"}, {EmptyList, FL}, {U1})
                   \cup {Node("Reverse", <<FL>>), Node("Extend", <<FL, Node("AsList", <<U1>>)>>)})
     \cup Bin({"Extend", "OrderedExtend"}, PoolL, PoolL)
     \cup {Node(op, <<a, b, c>>) : op \in {"Extend", "OrderedExtend"},
             a \in {EmptyList, Node("AsList", <<U0>>), FL},
             b \in {Node("AsList", <<U1>>),
                    Node("Extend", <<Node("AsList", <<U0>>), Node("AsList", <<U1>>)>>)},
             c \in {Node("AsList", <<U1>>), EmptyList}}
     \cup Un({"ToList"}, PoolO \cup Bin({"OptionalIf"}, PoolB, {U1}))
     \cup Un({"ToOptional", "Head", "Last"}, PoolL \cup Un({"ToList"}, PoolO))
     \cup Bin({"ListIf", "OptionalIf"}, PoolB, PoolU)
     \cup Bin({"FlatListIf"}, PoolB, PoolL) \cup Bin({"FlatOptionalIf"}, PoolB, PoolO)
     \cup Un({"Collect", "ForwardList", "Iterator", "ToFlow", "LazyList", "ToStream"},
             PoolL \cup PoolS \cup PoolF \cup PoolO
                   \cup Un({"ToFlow"}, FlowIn)
                   \cup Un({"ForwardList", "LazyList", "Iterator"}, PoolL \cup PoolS \cup PoolF))
     \cup Bin({"Append", "Insert"}, PoolL, PoolU) \cup Bin({"Prepend"}, PoolU, PoolL)
     \cup Bin({"Min", "==", ">"}, PoolU \cup PoolO, PoolU \cup PoolO)
     \cup Un({"Unwrap"}, PoolO)
     \cup Bin({"Optional"}, {TypeNode("OU")}, PoolU)
     \cup {Node("List", <<TypeNode("LU"), a, b>>) : a \in PoolU, b \in PoolU}
   : TypeOf(t) # "bad"}

VARIABLES
  orig,     \* the expression given to the optimizer
  term,     \* the expression after the passes run so far
  nextTerm  \* the result of the pass the walker runs next, Pass(term)

vars == <<orig, term, nextTerm>>

Init == orig \in Inputs /\ term = orig /\ nextTerm = Pass(orig)

(* A pass that changes the expression; the walker then starts another. *)
Step ==
  /\ nextTerm # term
  /\ term' = nextTerm
  /\ nextTerm' = Pass(nextTerm)
  /\ UNCHANGED orig

(* The walker has reached its fixpoint and returns term. *)
Done == nextTerm = term /\ UNCHANGED vars

Next == Step \/ Done

Spec == Init /\ [][Next]_vars /\ WF_vars(Step)

-----------------------------------------------------------------------------
(***************************************************************************)
(* Every pass keeps the type of the expression (spec.md 7): the empty     *)
(* containers the rules build from ExpandType, the AsList/Just and        *)
(* ListIf/OptionalIf they trade, and the stream/flow/list conversions     *)
(* they drop (ForwardList over ToFlow, Iterator over ForwardList).        *)
(***************************************************************************)
TypePreserved == TypeOf(term) = TypeOf(orig)

(***************************************************************************)
(* Every pass only narrows the possible values of the expression under    *)
(* every stream s and count n (spec.md 4.2): Length/HasItems of Take and  *)
(* Skip in Uint64 arithmetic, Extend splicing and fusing, the Reverse,    *)
(* Collect, ToFlow and container-If rules.                                *)
(***************************************************************************)
MeaningRefined == \A env \in Envs : Outs(term, env) \subseteq Outs(orig, env)

(* The walker converges on every input (spec.md 4.3). *)
ReachesFixpoint == <>[](nextTerm = term)
=============================================================================

--------------------------- MODULE CollectionRewrite ---------------------------
(***************************************************************************)
(* The rules of the peephole optimizer (yql_co_simple1.cpp) for the       *)
(* membership tests over literal containers (ListHas, Contains, Lookup:   *)
(* OptimizeContains), the item lists of an empty Dict (OptimizeDictItems),*)
(* Unordered, the fusion of SkipNullElements and Untag over AsTagged, and *)
(* the calls the walker of LambdaRewrite applies them to.  Terms, types   *)
(* and meaning are those of LambdaTerm.                                   *)
(***************************************************************************)
EXTENDS LambdaTerm

(* The callables of this module's table entries. *)
CollectionOps ==
  {"ListHas", "Contains", "Lookup", "DictItems", "DictKeys", "DictPayloads", "Unordered",
   "SkipNullElements", "Untag", "Extract", "OrderedExtract", "ToDict"}
  \cup MultiMapOps \cup LMapOps

(***************************************************************************)
(* OptimizeContains<IsList, IsLookup>: ListHas is <true>, Contains        *)
(* <false>, Lookup <false, true>.  The item (the key of a dict pair) is    *)
(* compared with the tested node by identity, here by structure, as after *)
(* the common subexpressions are merged.  SkipCallables is the identity   *)
(* on these inputs, and the heads of Contains are dictionaries, never the *)
(* data that go to OptimizeEquality.  ty is the node's type.              *)
(***************************************************************************)
OptimizeContains(e, ty) ==
  LET isList == e.op = "ListHas"
      isLookup == e.op = "Lookup"
      c == e.args[1]
      key(x) == IF isList THEN x ELSE x.args[1]
      \* the children of c from index from on that hold the tested node
      found(from) == {i \in from .. Len(c.args) : key(c.args[i]) = e.args[2]}
      instant(i) == IF isLookup THEN Node("Just", <<c.args[i].args[2]>>) ELSE BoolLit(TRUE)
  IN CASE c.op = (IF isList THEN "AsList" ELSE "AsDict") ->
            IF found(1) # {} THEN instant(Min(found(1))) ELSE e
       [] c.op = (IF isList THEN "List" ELSE "Dict") /\ Len(c.args) = 1 ->
            IF isLookup THEN EmptyOf(ty) ELSE BoolLit(FALSE)
       [] c.op = (IF isList THEN "List" ELSE "Dict") ->
            IF found(2) # {} THEN instant(Min(found(2))) ELSE e
       [] OTHER -> e

(* OptimizeDictItems: DictItems, DictKeys or DictPayloads of an empty     *)
(* Dict is the empty List of the node's type ty.                         *)
OptimizeDictItems(e, ty) ==
  IF Len(e.args[1].args) = 1 /\ e.args[1].op = "Dict" THEN EmptyOf(ty) ELSE e

(* map["Unordered"]: Unordered over AsList is the literal; over          *)
(* AssumeSorted it takes the unsorted input.                              *)
UnorderedRule(e) ==
  CASE e.args[1].op = "AsList" -> e.args[1]
    [] e.args[1].op = "AssumeSorted" -> ChangeChildren(e, <<e.args[1].args[1]>>)
    [] OTHER -> e

(* The Elements child of SkipNullElements: the element indices, a set as *)
(* the TSet<TStringBuf> the rule collects them in.                        *)
Elements(S) == [op |-> "Elements", args |-> <<>>, val |-> S]

(* map["SkipNullElements"]: over another SkipNullElements, both with an  *)
(* element list, one SkipNullElements over the inner input with the union *)
(* of the lists.                                                          *)
FuseSkipNullElements(e) ==
  LET inner == e.args[1] IN
  IF /\ Len(e.args) = 2 /\ inner.op = "SkipNullElements" /\ Len(inner.args) = 2
  THEN Node("SkipNullElements", <<inner.args[1], Elements(e.args[2].val \cup inner.args[2].val)>>)
  ELSE e

(* map["Untag"]: Untag over AsTagged is the tagged value. *)
UntagRule(e) == IF e.args[1].op = "AsTagged" THEN e.args[1].args[1] ELSE e

(* CanonizeMultiMap<Ordered>: (Ordered)FlatMap with a copy of the lambda *)
(* whose bodies are the items of one AsList.                              *)
CanonizeMultiMap(e) ==
  Node(IF e.op = "OrderedMultiMap" THEN "OrderedFlatMap" ELSE "FlatMap",
       <<e.args[1], Lambda(e.args[2].val, Node("AsList", e.args[2].args))>>)

(* ExpandExtract<Ordered>: (Ordered)Map of the input with the lambda that *)
(* takes the member (struct items) or the item (tuple items) the node's   *)
(* index names.  ty is the input's type.                                  *)
ExpandExtract(e, ty) ==
  LET isStruct == ItemType(ty).k = "Struct"
      x == Arg("x")
  IN Node(IF e.op = "OrderedExtract" THEN "OrderedMap" ELSE "Map",
          <<e.args[1], Lambda("x", IF isStruct THEN [op |-> "Member", args |-> <<x>>, val |-> e.val]
                                   ELSE Nth(x, e.val))>>)

(***************************************************************************)
(* map["ToDict"]: over an empty container, the empty Dict of the node's    *)
(* type ty; over AsList with a Void payload, for a hashed dict of one     *)
(* payload per key, DictFromKeys of the key lambda applied to each item;  *)
(* over DictItems of another ToDict of the same kind (Hashed or not),     *)
(* with the key lambda x -> Nth(x, 0), the payload lambda x -> Nth(x, 1)  *)
(* and no Many, the inner ToDict.  ParseToDictSettings reads the setting  *)
(* atoms.                                                                 *)
(***************************************************************************)
ToDictRule(e, ty) ==
  LET head == e.args[1]
      keyLambda == e.args[2]
      payloadLambda == e.args[3]
      settings == e.args[4].val
      inner == head.args[1]
      \* the lambda's body is Nth(i) of its own parameter
      isNth(l, i) == l.args[1].op = "Nth" /\ l.args[1].val = i /\ l.args[1].args[1] = Arg(l.val)
      sameType == ("Hashed" \in settings) = ("Hashed" \in inner.args[4].val)
  IN IF IsEmptyContainer(head) THEN Node("Dict", <<TypeNode(ty)>>)
     ELSE IF /\ head.op = "AsList" /\ payloadLambda.args[1].op = "Void"
             /\ "Many" \notin settings /\ "Hashed" \in settings
     THEN Node("DictFromKeys",
               <<TypeNode(ty.ts[1]),
                 Node("Tuple", [i \in DOMAIN head.args |->
                                  Subst(keyLambda.args[1], keyLambda.val, head.args[i])])>>)
     ELSE IF /\ head.op = "DictItems" /\ inner.op = "ToDict" /\ sameType
             /\ isNth(keyLambda, 0) /\ isNth(payloadLambda, 1) /\ "Many" \notin settings
     THEN inner
     ELSE e

(***************************************************************************)
(* map["LMap"], map["OrderedLMap"]: over an empty input, or with a lambda *)
(* whose body is an empty container, the empty container of the node's    *)
(* type ty.  CanRewriteToEmptyContainer holds: no node here carries a     *)
(* multi (variant) constraint.                                            *)
(***************************************************************************)
LMapRule(e, ty) ==
  IF IsEmptyContainer(e.args[1]) \/ IsEmptyContainer(e.args[2].args[1]) THEN EmptyOf(ty) ELSE e

(* The table entries of CollectionOps.  ts holds the type annotations,  *)
(* computed once per node: the node's, then each child's.                *)
CollectionRule(e, ts) ==
  CASE e.op \in {"ListHas", "Contains", "Lookup"} -> OptimizeContains(e, ts[1])
    [] e.op \in {"DictItems", "DictKeys", "DictPayloads"} -> OptimizeDictItems(e, ts[1])
    [] e.op = "Unordered" -> UnorderedRule(e)
    [] e.op = "SkipNullElements" -> FuseSkipNullElements(e)
    [] e.op = "Untag" -> UntagRule(e)
    [] e.op \in MultiMapOps -> CanonizeMultiMap(e)
    [] e.op \in {"Extract", "OrderedExtract"} -> ExpandExtract(e, ts[2])
    [] e.op = "ToDict" -> ToDictRule(e, ts[1])
    [] e.op \in LMapOps -> LMapRule(e, ts[1])

-----------------------------------------------------------------------------
(***************************************************************************)
(* Inputs: the membership tests over list and dict literals (with a key   *)
(* twice, and empty) and over arguments, with keys that are and are not   *)
(* among the items; the item lists of an empty and of an argument dict;   *)
(* Unordered over each kind of input; SkipNullElements over itself with   *)
(* and without element lists; Untag over AsTagged and over an argument;  *)
(* MultiMap and OrderedMultiMap with one and two bodies; Extract and      *)
(* OrderedExtract of each item of a list of pairs.                        *)
(***************************************************************************)
Pair(k, p) == Node("Tuple", <<k, p>>)
UU == DictOf(U, U)
DictInputs ==
  {Node("AsDict", <<Pair(Arg("u"), UintLit(1))>>),
   Node("AsDict", <<Pair(Arg("u"), UintLit(1)), Pair(UintLit(0), Arg("u"))>>),
   Node("AsDict", <<Pair(Arg("u"), UintLit(0)), Pair(Arg("u"), UintLit(1))>>),
   Node("Dict", <<TypeNode(UU)>>), Node("Dict", <<TypeNode(UU), Pair(Arg("u"), UintLit(1))>>),
   Arg("d")}
ListInputs ==
  {Node("AsList", <<Arg("u")>>), Node("AsList", <<UintLit(1), Arg("u")>>),
   Node("List", <<TypeNode(Cont("List", U))>>), Node("List", <<TypeNode(Cont("List", U)), Arg("u")>>),
   Arg("l")}
Keys == {Arg("u"), UintLit(0)}
Lo == Arg("lo")
SkipNulls ==
  {Node("SkipNullElements", <<x>> \o es) :
     x \in {Lo} \cup {Node("SkipNullElements", <<Lo>> \o i) :
                        i \in {<<>>, <<Elements({0})>>, <<Elements({0, 1})>>}},
     es \in {<<>>, <<Elements({1})>>, <<Elements({0})>>}}
(* ToDict over a list argument, list literals (of keys, one with a key    *)
(* twice, and of pairs), the empty list, and DictItems of ToDicts of     *)
(* either kind and of a dict argument; with key lambdas x -> x and x -> Nth(x, 0), payload lambdas  *)
(* x -> Void, x -> x and x -> Nth(x, 1), and every kind of dict.         *)
Xd == Arg("x")
ToDictKinds == {{h, m} : h \in {"Hashed", "Sorted"}, m \in {"One", "Many"}}
PairDicts ==
  {Node("ToDict", <<Arg("lt"), Lambda("x", Nth(Xd, 0)), Lambda("x", Nth(Xd, 1)), Settings(s)>>) :
     s \in {{"Hashed", "One"}, {"Sorted", "Many"}}}
ToDicts ==
  {Node("ToDict", <<h, Lambda("x", k), Lambda("x", p), Settings(s)>>) :
     h \in {Arg("l"), Node("AsList", <<Arg("u"), UintLit(1)>>), Node("AsList", <<Arg("u"), Arg("u")>>),
            Node("AsList", <<Pair(Arg("u"), UintLit(1)), Pair(UintLit(1), UintLit(0))>>),
            EmptyOf(Cont("List", U)), Node("DictItems", <<Arg("d")>>)}
            \cup {Node("DictItems", <<i>>) : i \in PairDicts},
     k \in {Xd, Nth(Xd, 0)}, p \in {VoidNode, Xd, Nth(Xd, 1)}, s \in ToDictKinds}

(* LMap and OrderedLMap over each kind of input and an empty one, with   *)
(* the identity, a Take and an empty body.                                *)
LMaps ==
  {Node(op, <<x, Lambda("x", b)>>) :
     op \in LMapOps,
     x \in {Arg("l"), Arg("s"), Arg("f"), EmptyOf(Cont("List", U)), EmptyOf(Cont("Stream", U))},
     b \in {Xd, Node("Take", <<Xd, UintLit(1)>>), EmptyOf(Cont("List", U))}}

CollectionCalls ==
  {Node(op, <<d, k>>) : op \in {"Contains", "Lookup"}, d \in DictInputs, k \in Keys}
  \cup {Node("ListHas", <<l, k>>) : l \in ListInputs, k \in Keys}
  \cup {Node(op, <<d>>) : op \in {"DictItems", "DictKeys", "DictPayloads"},
                          d \in {Node("Dict", <<TypeNode(UU)>>), Arg("d")}}
  \cup {Node("Unordered", <<x>>) :
          x \in {Node("AsList", <<UintLit(1), Arg("u")>>), Arg("l"), Arg("s"),
                 Node("AssumeSorted", <<Arg("l"), BoolLit(TRUE), Lambda("x", Arg("x"))>>)}}
  \cup SkipNulls
  \cup {Node(op, <<x, [op |-> "Lambda", args |-> bs, val |-> "x"]>>) :
          op \in MultiMapOps, x \in {Arg("l"), Node("AsList", <<UintLit(1)>>)},
          bs \in {<<Arg("x")>>, <<Arg("x"), UintLit(0)>>}}
  \cup {[op |-> op, args |-> <<x>>, val |-> i] :
          op \in {"Extract", "OrderedExtract"}, i \in {0, 1},
          x \in {Arg("lt"), Node("AsList", <<Pair(Arg("u"), UintLit(1))>>)}}
  \cup ToDicts
  \cup LMaps
  \cup {Node("Untag", <<x>>) : x \in {[op |-> "AsTagged", args |-> <<Arg("u")>>, val |-> "a"], Arg("tg")}}
====

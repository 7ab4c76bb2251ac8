---------------------------- MODULE ReorderRewrite ----------------------------
(***************************************************************************)
(* The rule of the peephole optimizer (yql_co_simple1.cpp) for the        *)
(* callables that order a list by a key lambda: Sort, AssumeSorted, Top   *)
(* and TopSort, all handled by OptimizeReorder<IsTop, IsSort>, and the    *)
(* calls the walker of LambdaRewrite applies it to.  Terms, types, values *)
(* and the typing and meaning of the four callables are those of          *)
(* LambdaTerm.                                                            *)
(***************************************************************************)
EXTENDS LambdaTerm

CONSTANT
  ArgCountOverLiteral \* whether TopSort with a count argument gets a literal list

(* OptimizeReorder<IsTop, IsSort>: Sort is <false, true>, AssumeSorted    *)
(* <false, false>, Top <true, false>, TopSort <true, true>.               *)
IsTop(e) == e.op \in TopOps
IsSort(e) == e.op \in {"Sort", "TopSort"}

(* The type of the body of the key lambda. *)
KeyType(e, tenv) == TypeIn(KeyLambda(e).args[1], e, Len(e.args), tenv)

-----------------------------------------------------------------------------
(***************************************************************************)
(* OptimizeReorder<IsTop, IsSort>.  ty holds the                          *)
(* type annotations the rule reads: the input's, the ascending flags' and *)
(* the key's.  The branches that read sorted constraints are left out.    *)
(***************************************************************************)
(* The number of items of a List or AsList literal, or -1 for any other. *)
LiteralSize(x) ==
  CASE x.op = "AsList" -> Len(x.args)
    [] x.op = "List" -> Len(x.args) - 1
    [] OTHER -> -1

(* The key lambda does not use its parameter (its dependency scope is not *)
(* the lambda).                                                         *)
ConstantKey(e) == KeyLambda(e).val \notin FreeArgs(KeyLambda(e).args[1])

(* Unpacking a key of one tuple item: the item of a tuple literal, else  *)
(* input -> Nth(key(input), 0).                                           *)
UnpackKey(e) ==
  LET k == KeyLambda(e) IN
  IF k.args[1].op = "Tuple" THEN Lambda(k.val, k.args[1].args[1])
  ELSE Lambda("input", Nth(Subst(k.args[1], k.val, Arg("input")), 0))

(* Mutant of OptimizeReorder: a constant key makes Top its input, as it *)
(* does Sort, instead of a Take of count items.                          *)
OptimizeReorderConstTop(e, ty) ==
  IF ConstantKey(e) THEN e.args[1] ELSE e

(* In the order of the code: an empty input; Sort over a reorder; a     *)
(* constant key; one ascending flag or key item in a tuple; a zero count *)
(* or a literal within the count for Top; a literal of at most one item  *)
(* for Sort and TopSort; AssumeSorted over AssumeSorted.                 *)
OptimizeReorder(e, ty) ==
  LET n == Len(e.args)
      head == e.args[1]
      with(name, x) == Node(name, <<x, Asc(e), KeyLambda(e)>>)
  IN IF (IsSort(e) \/ IsTop(e)) /\ Len(head.args) = 1 /\ head.op = GetEmptyCollectionName(ty.input)
     THEN IF IsSort(e) THEN with("AssumeSorted", head) ELSE head
     ELSE IF IsSort(e) /\ IsListReorder(head) THEN ChangeChildren(e, <<head.args[1]>> \o Tail(e.args))
     ELSE IF ConstantKey(e)
     THEN IF IsTop(e) THEN Node("Take", <<head, e.args[2]>>) ELSE head
     ELSE IF ty.asc.k = "Tup" /\ Len(ty.asc.ts) = 1
     THEN [e EXCEPT !.args[n - 1] = IF Asc(e).op = "Tuple" THEN Asc(e).args[1] ELSE Nth(Asc(e), 0)]
     ELSE IF ty.key.k = "Tup" /\ Len(ty.key.ts) = 1 THEN [e EXCEPT !.args[n] = UnpackKey(e)]
     ELSE IF IsTop(e) /\ e.args[2].op = "Uint64" /\ e.args[2].val = 0
     THEN IF IsSort(e) THEN with("AssumeSorted", EmptyOf(ty.input)) ELSE EmptyOf(ty.input)
     ELSE IF IsTop(e) /\ e.args[2].op = "Uint64" /\ 0 <= LiteralSize(head) /\ LiteralSize(head) <= e.args[2].val
     THEN IF IsSort(e) THEN with(IF LiteralSize(head) > 1 THEN "Sort" ELSE "AssumeSorted", head)
          ELSE head
     ELSE IF IsSort(e) /\ 0 <= LiteralSize(head) /\ LiteralSize(head) <= 1 THEN RenameNode(e, "AssumeSorted")
     ELSE IF ~IsSort(e) /\ ~IsTop(e) /\ head.op = e.op THEN ChangeChildren(e, <<head.args[1]>> \o Tail(e.args))
     ELSE e

(* The type annotations OptimizeReorder reads, computed once per node. *)
ReorderTypes(e, tenv) ==
  [input |-> TypeOf(e.args[1], tenv), asc |-> TypeOf(Asc(e), tenv), key |-> KeyType(e, tenv)]

(* The table entries map["Sort"], map["AssumeSorted"], map["Top"] and     *)
(* map["TopSort"].                                                        *)
ReorderRule(e, tenv) ==
  CHOOSE r \in {OptimizeReorder(e, ty) : ty \in {ReorderTypes(e, tenv)}} : TRUE

-----------------------------------------------------------------------------
(***************************************************************************)
(* Inputs: Sort, AssumeSorted, Top and TopSort over a list argument, its   *)
(* reverse, literals of one and two items and the empty list, with keys  *)
(* that are the item, a one-item tuple of it (literal or not), a pair, or *)
(* a constant, each kind of ascending flags, and literal and argument     *)
(* counts; Sort over a Map; and AssumeSorted over AssumeSorted.           *)
(***************************************************************************)
X == Arg("x")
Tuple(xs) == Node("Tuple", xs)
SortInputs ==
  {Arg("l"), Node("Reverse", <<Arg("l")>>), Node("AsList", <<Arg("u")>>),
   Node("AsList", <<Arg("u"), UintLit(1)>>), EmptyOf(Cont("List", U)), Arg("l1"),
   Node("Map", <<Arg("l"), Lambda("x", X)>>)}
SortKeys ==
  {Lambda("x", X), Lambda("x", Tuple(<<X>>)), Lambda("x", Tuple(<<X, UintLit(1)>>)),
   Lambda("x", UintLit(1)), Lambda("x", Tuple(<<UintLit(1)>>)), Lambda("y", Arg("y"))}
SortAscs ==
  {BoolLit(TRUE), BoolLit(FALSE), Arg("p"), Tuple(<<BoolLit(TRUE)>>), Arg("pt"),
   Tuple(<<BoolLit(TRUE), BoolLit(FALSE)>>)}
SortCounts == {UintLit(0), UintLit(1), UintLit(2), Arg("u")}

(* TopSort with an argument count over a literal of at most one item, *)
(* only when ArgCountOverLiteral.                                       *)
ArgCountLiteral(e) ==
  e.op = "TopSort" /\ e.args[2].op = "Arg" /\ 0 <= LiteralSize(e.args[1]) /\ LiteralSize(e.args[1]) <= 1

(* The calls, before the type check LambdaRewrite applies to its inputs. *)
ReorderCalls ==
  {e \in UNION {{Node(op, <<x>> \o c \o <<a, k>>) :
                    x \in SortInputs, a \in SortAscs, k \in SortKeys,
                    c \in IF op \in TopOps THEN {<<cnt>> : cnt \in SortCounts} ELSE {<<>>}} :
                   op \in SortOps} :
     ArgCountLiteral(e) => ArgCountOverLiteral}
  \cup {Node("AssumeSorted", <<Node("AssumeSorted", <<Arg("l"), BoolLit(TRUE), Lambda("x", X)>>),
                              BoolLit(FALSE), Lambda("z", Arg("z"))>>)}
====

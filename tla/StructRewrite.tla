---------------------------- MODULE StructRewrite ----------------------------
(***************************************************************************)
(* The struct, tuple, variant and Optional rules of the peephole         *)
(* optimizer (yql_co_simple1.cpp): Struct, Member, Nth, AsStruct, HasNull, *)
(* Plus, Guess, Way, Visit and VariantItem, applied to a fixpoint by the  *)
(* walker of spec.md 4.3.  HasNull builds IfPresent and Visit with        *)
(* lambdas, so terms have lambdas and the walker carries the types of the *)
(* lambda parameters in scope.                                            *)
(***************************************************************************)
EXTENDS ExprTerm, Integers, FiniteSets, SequencesExt, TLC

CONSTANTS
  DataVals,    \* the values of a Uint64 argument
  NullItems    \* whether arguments may hold Null-typed items

-----------------------------------------------------------------------------
(***************************************************************************)
(* Types.  A struct type maps member names to types (the annotator keeps  *)
(* members sorted, so two structs of the same members are one type); a    *)
(* tuple type is a sequence.  Bad is what the annotator would reject.     *)
(***************************************************************************)
Ty(k, ts) == [k |-> k, ts |-> ts]
U == Ty("U", <<>>)
B == Ty("B", <<>>)
NullT == Ty("Null", <<>>)
Bad == Ty("bad", <<>>)
Opt(t) == Ty("Opt", <<t>>)
Tup(ts) == Ty("Tup", ts)
StructT(f) == Ty("Struct", f)
Var(u) == Ty("Var", <<u>>)
Ui32 == Ty("Ui32", <<>>)
Utf8 == Ty("Utf8", <<>>)

(* The alternatives of a variant type, as the atoms that name them: the *)
(* 0-based index of a tuple item as text, or a struct member name; and   *)
(* the type of each.                                                     *)
TupIdx == <<"0", "1", "2">>
Alts(vt) == IF vt.ts[1].k = "Tup" THEN {TupIdx[i] : i \in DOMAIN vt.ts[1].ts} ELSE DOMAIN vt.ts[1].ts
AltType(vt, idx) ==
  IF vt.k # "Var" THEN Bad
  ELSE IF idx \notin Alts(vt) THEN Bad
  ELSE IF vt.ts[1].k = "Tup" THEN vt.ts[1].ts[CHOOSE i \in DOMAIN vt.ts[1].ts : TupIdx[i] = idx]
  ELSE vt.ts[1].ts[idx]

(* TTypeAnnotationNode::IsOptionalOrNull *)
IsOptionalOrNull(t) == t.k \in {"Opt", "Null"}

(* HasOptionalOrNull: an Optional or Null anywhere inside the type. *)
RECURSIVE HasOptionalOrNull(_)
HasOptionalOrNull(t) ==
  \/ IsOptionalOrNull(t)
  \/ t.k \in {"Tup", "Struct", "Var"} /\ \E i \in DOMAIN t.ts : HasOptionalOrNull(t.ts[i])

(* RemoveOptionalType *)
RemoveOptional(t) == IF t.k = "Opt" THEN t.ts[1] ELSE t

Item(name, e) == [op |-> "Item", args |-> <<e>>, val |-> name]
TypeNode(t) == [op |-> "Type", args |-> <<>>, val |-> t]
UintLit(n) == [op |-> "Uint64", args |-> <<>>, val |-> n]
Lambda(x, body) == [op |-> "Lambda", args |-> <<body>>, val |-> x]
Member(x, m) == [op |-> "Member", args |-> <<x>>, val |-> m]

(* Member of a struct, or of an Optional struct (Optional unless the      *)
(* member already is Optional or Null); Nth likewise, 0-based.            *)
FieldType(t, f, ok(_)) ==
  LET s == RemoveOptional(t) IN
  IF ~ok(s) \/ f \notin DOMAIN s.ts THEN Bad
  ELSE IF t.k = "Opt" /\ ~IsOptionalOrNull(s.ts[f]) THEN Opt(s.ts[f])
  ELSE s.ts[f]
MemberType(t, name) == FieldType(t, name, LAMBDA s : s.k = "Struct")
NthType(t, i) == FieldType(t, i + 1, LAMBDA s : s.k = "Tup")

(***************************************************************************)
(* Type annotation; tenv gives the types of the arguments in scope.  A    *)
(* lambda is typed where it is used, with its parameter's type.           *)
(***************************************************************************)
RECURSIVE TypeOf(_, _)

(* The types of the expressions of sequence es, each computed once. *)
RECURSIVE TypesOf(_, _)
TypesOf(es, tenv) ==
  IF es = <<>> THEN <<>>
  ELSE LET first == TypeOf(Head(es), tenv)
           rest == TypesOf(Tail(es), tenv)
       IN <<first>> \o rest

TypeOf(e, tenv) ==
  LET n == Len(e.args)
      ts == TypesOf(e.args, tenv)
      t(i) == ts[i]
      lam(i, pt) == IF e.args[i].op = "Lambda"
                    THEN TypeOf(e.args[i].args[1], (e.args[i].val :> pt) @@ tenv)
                    ELSE Bad
      ItemsType(its) ==
        LET names == {its[i].val : i \in DOMAIN its} IN
        IF /\ \A i \in DOMAIN its : its[i].op = "Item" /\ Len(its[i].args) = 1
           /\ Cardinality(names) = Len(its)
        THEN LET f == [nm \in names |-> LET i == CHOOSE i \in DOMAIN its : its[i].val = nm
                                        IN TypeOf(its[i].args[1], tenv)]
             IN IF \E nm \in names : f[nm] = Bad THEN Bad ELSE StructT(f)
        ELSE Bad
      allOk == \A i \in 1 .. n : t(i) # Bad
      \* over an Optional variant, the result is Optional
      vt == RemoveOptional(t(1))
      OverOpt(r) == IF t(1).k = "Opt" THEN Opt(r) ELSE r
      altTypes == {AltType(vt, a) : a \in Alts(vt)}
      \* Visit(v, idx1, lambda1, ..., [default]): handler i is idx(i), lambda 2i+1
      h == (n - 1) \div 2
      idx(i) == e.args[2 * i].val
      results == {lam(2 * i + 1, AltType(t(1), idx(i))) : i \in 1 .. h}
                 \cup (IF n % 2 = 0 THEN {t(n)} ELSE {})
      VisitType ==
        IF /\ n >= 2 /\ t(1).k = "Var"
           /\ \A i \in 1 .. h : e.args[2 * i].op = "Atom" /\ idx(i) \in Alts(t(1))
           /\ Cardinality({idx(i) : i \in 1 .. h}) = h
           /\ n % 2 = 0 \/ {idx(i) : i \in 1 .. h} = Alts(t(1))
           \* one lambda node has one parameter type
           /\ \A i, j \in 1 .. h : e.args[2 * i + 1] = e.args[2 * j + 1]
                                  => AltType(t(1), idx(i)) = AltType(t(1), idx(j))
           /\ Cardinality(results) = 1 /\ Bad \notin results
        THEN CHOOSE r \in results : TRUE ELSE Bad
  IN CASE e.op = "Arg" -> IF e.val \in DOMAIN tenv THEN tenv[e.val] ELSE Bad
       [] e.op = "Uint64" -> U
       [] e.op = "Bool" -> B
       [] e.op = "Null" -> NullT
       [] e.op = "Just" -> IF n = 1 /\ allOk THEN Opt(t(1)) ELSE Bad
       [] e.op = "Nothing" -> IF n = 1 /\ e.args[1].op = "Type" /\ e.args[1].val.k = "Opt"
                              THEN e.args[1].val ELSE Bad
       [] e.op = "AsStruct" -> ItemsType(e.args)
       [] e.op = "Struct" -> IF n >= 1 /\ e.args[1].op = "Type"
                                /\ ItemsType(Tail(e.args)) = e.args[1].val
                             THEN e.args[1].val ELSE Bad
       [] e.op = "Member" -> IF n = 1 THEN MemberType(t(1), e.val) ELSE Bad
       [] e.op = "Nth" -> IF n = 1 THEN NthType(t(1), e.val) ELSE Bad
       [] e.op = "Tuple" -> IF allOk THEN Tup([i \in 1 .. n |-> t(i)]) ELSE Bad
       [] e.op = "HasNull" -> IF n = 1 /\ allOk THEN B ELSE Bad
       [] e.op = "Or" -> IF n >= 1 /\ \A i \in 1 .. n : t(i) = B THEN B ELSE Bad
       [] e.op = "Plus" -> IF n = 1 /\ t(1) = U THEN U ELSE Bad
       [] e.op = "IfPresent" ->
            IF n = 3 /\ t(1).k = "Opt" /\ t(3) # Bad /\ lam(2, t(1).ts[1]) = t(3)
            THEN t(3) ELSE Bad
       [] e.op = "FlatMap" ->
            IF n = 2 /\ t(1).k = "Opt" /\ lam(2, t(1).ts[1]).k = "Opt"
            THEN lam(2, t(1).ts[1]) ELSE Bad
       [] e.op = "OptionalIf" -> IF n = 2 /\ t(1) = B /\ t(2) # Bad THEN Opt(t(2)) ELSE Bad
       [] e.op = "Variant" ->
            IF /\ n = 2 /\ e.args[2].op = "Type" /\ e.args[2].val.k = "Var" /\ t(1) # Bad
               /\ AltType(e.args[2].val, e.val) = t(1)
            THEN e.args[2].val ELSE Bad
       [] e.op = "Guess" -> IF n = 1 /\ AltType(vt, e.val) # Bad THEN Opt(AltType(vt, e.val)) ELSE Bad
       [] e.op = "Way" ->
            IF n = 1 /\ vt.k = "Var" THEN OverOpt(IF vt.ts[1].k = "Tup" THEN Ui32 ELSE Utf8) ELSE Bad
       [] e.op = "VariantItem" ->
            IF n = 1 /\ vt.k = "Var" /\ Cardinality(altTypes) = 1
            THEN OverOpt(CHOOSE a \in altTypes : TRUE) ELSE Bad
       [] e.op = "Visit" -> VisitType
       [] e.op = "TryMember" ->
            LET st == RemoveOptional(t(1))
                m == e.args[2].val
                optional(ft) == t(1).k = "Opt" \/ IsOptionalOrNull(t(3)) \/ ft.k = "Opt"
            IN IF n # 3 \/ e.args[2].op # "Atom" \/ st.k # "Struct" \/ t(3) = Bad THEN Bad
               ELSE IF m \notin DOMAIN st.ts
               THEN IF t(1).k = "Opt" /\ ~IsOptionalOrNull(t(3)) THEN Opt(t(3)) ELSE t(3)
               ELSE IF RemoveOptional(t(3)) # RemoveOptional(st.ts[m]) /\ t(3) # NullT THEN Bad
               ELSE IF optional(st.ts[m]) THEN Opt(RemoveOptional(st.ts[m])) ELSE st.ts[m]
       [] e.op = "Uint32" -> Ui32
       [] e.op = "Utf8" -> Utf8
       [] OTHER -> Bad

-----------------------------------------------------------------------------
(***************************************************************************)
(* Meaning.  A value is a record [k, v]: a Uint64 ("d"), a Bool ("b"),   *)
(* an alternative's index or name ("w"), an Optional ("opt", v a sequence *)
(* of length 0 or 1), a tuple ("tup"), a struct ("struct", v a function   *)
(* of the member names) or a variant ("var", v the pair of alternative    *)
(* and payload).  Null is the empty Optional, as at run time.             *)
(***************************************************************************)
Val(k, v) == [k |-> k, v |-> v]
Empty == Val("opt", <<>>)

RECURSIVE HasNullValue(_)
HasNullValue(x) ==
  CASE x.k = "opt" -> x.v = <<>> \/ HasNullValue(x.v[1])
    [] x.k \in {"tup", "struct"} -> \E i \in DOMAIN x.v : HasNullValue(x.v[i])
    [] x.k = "var" -> HasNullValue(x.v[2])
    [] OTHER -> FALSE

(* A field of a struct or tuple value; over an Optional one, flattened.  *)
Field(x, f) ==
  IF x.k # "opt" THEN x.v[f]
  ELSE IF x.v = <<>> THEN Empty
  ELSE IF x.v[1].v[f].k = "opt" THEN x.v[1].v[f]
  ELSE Val("opt", <<x.v[1].v[f]>>)

RECURSIVE Eval(_, _)
Eval(e, env) ==
  LET n == Len(e.args)
      v(i) == Eval(e.args[i], env)
      Call(i, x) == Eval(e.args[i].args[1], (e.args[i].val :> x) @@ env)
      \* f applied to a value, or inside an Optional one
      OverOptV(x, f(_)) == IF x.k # "opt" THEN f(x) ELSE IF x.v = <<>> THEN Empty ELSE Val("opt", <<f(x.v[1])>>)
      GuessV(x) == IF x.v[1] = e.val THEN Val("opt", <<x.v[2]>>) ELSE Empty
      hs(x) == {i \in 1 .. (n - 1) \div 2 : e.args[2 * i].val = x.v[1]}
      VisitV(x) == IF hs(x) = {} THEN v(n) ELSE Call(2 * (CHOOSE i \in hs(x) : TRUE) + 1, x.v[2])
      StructOf(its) == Val("struct", [nm \in {its[i].val : i \in DOMAIN its} |->
                         Eval((CHOOSE it \in Range(its) : it.val = nm).args[1], env)])
  IN CASE e.op = "Arg" -> env[e.val]
       [] e.op = "Uint64" -> Val("d", e.val)
       [] e.op = "Bool" -> Val("b", e.val)
       [] e.op \in {"Null", "Nothing"} -> Empty
       [] e.op = "Just" -> Val("opt", <<v(1)>>)
       [] e.op = "AsStruct" -> StructOf(e.args)
       [] e.op = "Struct" -> StructOf(Tail(e.args))
       [] e.op = "Member" -> Field(v(1), e.val)
       [] e.op = "Nth" -> Field(v(1), e.val + 1)
       [] e.op = "Tuple" -> Val("tup", [i \in 1 .. n |-> v(i)])
       [] e.op = "HasNull" -> Val("b", HasNullValue(v(1)))
       [] e.op = "Or" -> Val("b", \E i \in 1 .. n : v(i).v)
       [] e.op = "Plus" -> v(1)
       [] e.op = "IfPresent" -> IF v(1).v = <<>> THEN v(3) ELSE Call(2, v(1).v[1])
       [] e.op = "FlatMap" -> IF v(1).v = <<>> THEN Empty ELSE Call(2, v(1).v[1])
       [] e.op \in {"Uint32", "Utf8"} -> Val("w", e.val)
       [] e.op = "OptionalIf" -> IF v(1).v THEN Val("opt", <<v(2)>>) ELSE Empty
       [] e.op = "Variant" -> Val("var", <<e.val, v(1)>>)
       [] e.op = "Guess" ->
            IF v(1).k # "opt" THEN GuessV(v(1)) ELSE IF v(1).v = <<>> THEN Empty ELSE GuessV(v(1).v[1])
       [] e.op = "Way" -> OverOptV(v(1), LAMBDA x : Val("w", x.v[1]))
       [] e.op = "VariantItem" -> OverOptV(v(1), LAMBDA x : x.v[2])
       [] e.op = "Visit" -> VisitV(v(1))
       [] e.op = "TryMember" ->
            LET x == v(1)
                d == v(3)
                present == x.k # "opt" \/ x.v # <<>>
                st == IF x.k = "opt" THEN x.v[1] ELSE x
                lift(y) == IF (x.k = "opt" \/ d.k = "opt") /\ y.k # "opt" THEN Val("opt", <<y>>) ELSE y
            IN IF present /\ e.args[2].val \in DOMAIN st.v THEN lift(st.v[e.args[2].val]) ELSE lift(d)

(* Every value of a type, over the data values DataVals. *)
RECURSIVE ValuesOf(_)
ValuesOf(t) ==
  CASE t.k = "U" -> {Val("d", d) : d \in DataVals}
    [] t.k = "B" -> {Val("b", b) : b \in BOOLEAN}
    [] t.k = "Null" -> {Empty}
    [] t.k = "Opt" -> {Empty} \cup {Val("opt", <<x>>) : x \in ValuesOf(t.ts[1])}
    [] t.k = "Tup" ->
         {Val("tup", f) : f \in {g \in [DOMAIN t.ts -> UNION {ValuesOf(t.ts[i]) : i \in DOMAIN t.ts}] :
                                   \A i \in DOMAIN t.ts : g[i] \in ValuesOf(t.ts[i])}}
    [] t.k = "Struct" ->
         {Val("struct", f) : f \in {g \in [DOMAIN t.ts -> UNION {ValuesOf(t.ts[m]) : m \in DOMAIN t.ts}] :
                                      \A m \in DOMAIN t.ts : g[m] \in ValuesOf(t.ts[m])}}
    [] t.k = "Var" -> UNION {{Val("var", <<a, x>>) : x \in ValuesOf(AltType(t, a))} : a \in Alts(t)}

(* The argument names an expression uses and does not bind. *)
RECURSIVE FreeArgs(_)
FreeArgs(e) ==
  IF e.op = "Arg" THEN {e.val}
  ELSE (UNION {FreeArgs(e.args[i]) : i \in DOMAIN e.args})
         \ (IF e.op = "Lambda" THEN {e.val} ELSE {})

-----------------------------------------------------------------------------
(* Member names in the annotator's sorted order. *)
Names == <<"a", "b">>

(* map["Struct"]: Struct(type, items) is AsStruct(items). *)
StructRule(e) == Node("AsStruct", IF Len(e.args) > 0 THEN Tail(e.args) ELSE <<>>)

(* ExtractMember: the value of the first item of the name; the ENSURE     *)
(* fails (a node no annotator accepts) when there is none.                 *)
ExtractMember(e) ==
  LET its == e.args[1].args
      i == SelectInSeq(its, LAMBDA it : it.val = e.val)
  IN IF i = 0 THEN Node("EnsureFailed", <<>>) ELSE its[i].args[1]

(***************************************************************************)
(* map["Member"]: over AsStruct the item's value; over Just(s) Member(s),  *)
(* in Just unless the member is Optional or Null; over Nothing a Nothing  *)
(* of the node's type.  (The ExtractMembers branch has no input here.)    *)
(***************************************************************************)
MemberRule(e, tenv) ==
  LET h == e.args[1] IN
  CASE h.op = "AsStruct" -> ExtractMember(e)
    [] h.op = "Just" ->
         WrapIf(~IsOptionalOrNull(MemberType(TypeOf(h.args[1], tenv), e.val)), "Just",
                ChangeChildren(e, <<h.args[1]>>))
    [] h.op = "Nothing" -> ChangeChildren(h, <<TypeNode(TypeOf(e, tenv))>>)
    [] OTHER -> e

(* Mutant of NthRule: Nth over Just always wraps the result in Just. *)
NthRuleAlwaysJust(e, tenv) ==
  IF e.args[1].op = "Just" THEN Node("Just", <<ChangeChildren(e, <<e.args[1].args[1]>>)>>) ELSE e

(***************************************************************************)
(* map["Nth"]: over a tuple literal its item; over Just(t) Nth(t), in Just *)
(* unless the item type is Optional; over Nothing a Nothing of the node's *)
(* type.                                                                  *)
(***************************************************************************)
NthRule(e, tenv) ==
  LET h == e.args[1] IN
  CASE h.op = "Tuple" -> h.args[e.val + 1]
    [] h.op = "Just" ->
         WrapIf(NthType(TypeOf(h.args[1], tenv), e.val).k # "Opt", "Just",
                ChangeChildren(e, <<h.args[1]>>))
    [] h.op = "Nothing" -> ChangeChildren(h, <<TypeNode(TypeOf(e, tenv))>>)
    [] OTHER -> e

(* The Visit branch of OptimizeAsStruct: every handler and the default  *)
(* rebuild the AsStruct over their own result in place of the Visit.     *)
AsStructOverVisit(e, from) ==
  ChangeChildren(from, [j \in DOMAIN from.args |->
    IF j = 1 \/ from.args[j].op = "Atom" THEN from.args[j]
    ELSE IF from.args[j].op = "Lambda"
         THEN Lambda(from.args[j].val, ReplaceNode(e, from, from.args[j].args[1]))
    ELSE ReplaceNode(e, from, from.args[j])])

(* Mutant of OptimizeAsStruct: AsStruct is turned back into Struct. *)
OptimizeAsStructToStruct(e, tenv) == Node("Struct", <<TypeNode(TypeOf(e, tenv))>> \o e.args)

(***************************************************************************)
(* OptimizeAsStruct: AsStruct(n1: Member(x, n1), ...) over one struct x   *)
(* of exactly those members is x; over a Visit of more members, the     *)
(* AsStruct moves into the Visit.                                         *)
(***************************************************************************)
OptimizeAsStruct(e, tenv) ==
  LET its == e.args
      from == its[1].args[1].args[1]
  IN IF ~ /\ Len(its) > 0
          /\ \A i \in 1 .. Len(its) : its[i].args[1].op = "Member"
                                      /\ its[i].val = its[i].args[1].val
                                      /\ its[i].args[1].args[1] = from
          /\ TypeOf(from, tenv).k = "Struct"
     THEN e
     ELSE IF Cardinality(DOMAIN TypeOf(from, tenv).ts) = Len(its) THEN from
     ELSE IF from.op = "Visit" THEN AsStructOverVisit(e, from)
     ELSE e

(* HasNullOverTuple, HasNullOverStruct: Or of HasNull over every field.  *)
HasNullOverFields(x, fields) ==
  IF fields = <<>> THEN BoolLit(FALSE)
  ELSE Node("Or", [i \in 1 .. Len(fields) |-> Node("HasNull", <<fields[i]>>)])

(* Parameters of the handlers HasNullOverVariant builds: each            *)
(* .Param("item") is a new argument node, so they are told apart here.   *)
ItemNames == <<"item0", "item1">>

(* HasNullOverVariant: Visit with item -> HasNull(item) for every        *)
(* alternative, by index for a tuple and by name for a struct.           *)
HasNullOverVariant(x, t) ==
  LET u == t.ts[1]
      idxs == IF u.k = "Struct" THEN SelectSeq(Names, LAMBDA m : m \in DOMAIN u.ts)
              ELSE SubSeq(TupIdx, 1, Len(u.ts))
  IN Node("Visit", <<x>> \o FlattenSeq([i \in DOMAIN idxs |->
                     <<Atom(idxs[i]), Lambda(ItemNames[i], Node("HasNull", <<Arg(ItemNames[i])>>))>>]))

(* Mutant of HasNullRule: an empty Optional counts as no null. *)
HasNullRuleAbsentFalse(e, tenv) ==
  IF TypeOf(e.args[1], tenv).k = "Opt"
  THEN Node("IfPresent", <<e.args[1], Lambda("item", Node("HasNull", <<Arg("item")>>)),
                            BoolLit(FALSE)>>)
  ELSE e

(***************************************************************************)
(* map["HasNull"]: FALSE for a type with no Optional or Null in it, TRUE  *)
(* for Null, IfPresent(x, item -> HasNull(item), TRUE) for an Optional,   *)
(* Or over the items of a tuple or the members of a struct, and a Visit  *)
(* over the alternatives of a variant.                                    *)
(***************************************************************************)
HasNullRule(e, tenv) ==
  LET x == e.args[1]
      t == TypeOf(x, tenv)
  IN CASE ~HasOptionalOrNull(t) -> BoolLit(FALSE)
       [] t.k = "Null" -> BoolLit(TRUE)
       [] t.k = "Opt" -> Node("IfPresent", <<x, Lambda("item", Node("HasNull", <<Arg("item")>>)),
                                             BoolLit(TRUE)>>)
       [] t.k = "Tup" ->
            HasNullOverFields(x, [i \in 1 .. Len(t.ts) |-> [op |-> "Nth", args |-> <<x>>, val |-> i - 1]])
       [] t.k = "Struct" ->
            HasNullOverFields(x, LET ms == SelectSeq(Names, LAMBDA m : m \in DOMAIN t.ts)
                                 IN [i \in 1 .. Len(ms) |-> [op |-> "Member", args |-> <<x>>, val |-> ms[i]]])
       [] t.k = "Var" -> HasNullOverVariant(x, t)

(* map["Plus"]: unary Plus is its argument. *)
PlusRule(e) == e.args[1]

(***************************************************************************)
(* map["Guess"]: over Nothing a Nothing of the node's type; over Just(v)  *)
(* Guess(v); over a Variant literal Just of its item when its index is    *)
(* the one guessed, and a Nothing of the node's type otherwise.           *)
(***************************************************************************)
GuessRule(e, tenv) ==
  LET h == e.args[1] IN
  CASE h.op = "Nothing" -> ChangeChildren(h, <<TypeNode(TypeOf(e, tenv))>>)
    [] h.op = "Just" -> ChangeChildren(e, <<h.args[1]>>)
    [] h.op = "Variant" /\ e.val = h.val -> Node("Just", <<h.args[1]>>)
    [] h.op = "Variant" /\ e.val # h.val -> Node("Nothing", <<TypeNode(TypeOf(e, tenv))>>)
    [] OTHER -> e

(* Mutant of WayRule: the index of a Variant literal is always a Uint32. *)
WayRuleAlwaysUint32(e, tenv) ==
  IF e.args[1].op = "Variant" THEN [op |-> "Uint32", args |-> <<>>, val |-> e.args[1].val] ELSE e

(***************************************************************************)
(* map["Way"]: over Nothing a Nothing of the node's type; over Just(v)    *)
(* Just(Way(v)); over a Variant literal its index, a Uint32 for a tuple   *)
(* variant and a Utf8 name for a struct variant.                          *)
(***************************************************************************)
WayRule(e, tenv) ==
  LET h == e.args[1] IN
  CASE h.op = "Nothing" -> Node("Nothing", <<TypeNode(TypeOf(e, tenv))>>)
    [] h.op = "Just" -> Node("Just", <<Node("Way", <<h.args[1]>>)>>)
    [] h.op = "Variant" ->
         [op |-> IF TypeOf(h, tenv).ts[1].k = "Tup" THEN "Uint32" ELSE "Utf8", args |-> <<>>, val |-> h.val]
    [] OTHER -> e

(***************************************************************************)
(* map["VariantItem"]: moved inside Just (SwapWithHead) and inside        *)
(* OptionalIf; over a Variant literal its item; over Nothing a Nothing of *)
(* the node's type.                                                       *)
(***************************************************************************)
VariantItemRule(e, tenv) ==
  LET h == e.args[1] IN
  CASE h.op = "Just" -> ChangeChildren(h, <<ChangeChildren(e, h.args)>>)
    [] h.op = "OptionalIf" -> ChangeChildren(h, <<h.args[1], ChangeChildren(e, <<h.args[2]>>)>>)
    [] h.op = "Variant" -> h.args[1]
    [] h.op = "Nothing" -> Node("Nothing", <<TypeNode(TypeOf(e, tenv))>>)
    [] OTHER -> e

(* Mutant of VisitRule: over a Variant literal the default is taken      *)
(* before the handlers are looked at.                                    *)
VisitRuleDefaultFirst(e, tenv) ==
  IF e.args[1].op = "Variant" /\ Len(e.args) % 2 = 0 THEN e.args[Len(e.args)] ELSE e

(***************************************************************************)
(* map["Visit"], Visit(v, idx1, lambda1, ..., [default]), its branches in *)
(* the code's order: only a default; one handler x -> Just(x) with a      *)
(* Nothing default is Guess; one handler over a variant of one            *)
(* alternative needs no default; over a Variant literal the loop over the *)
(* children stops at the default or at the handler of its index, which is *)
(* applied to its item; without a default, one lambda node for all        *)
(* handlers is applied to VariantItem(v), and a Just in every handler is  *)
(* taken out of the Visit.                                                *)
(***************************************************************************)
VisitRule(e, tenv) ==
  LET n == Len(e.args)
      var == e.args[1]
      H == (n - 1) \div 2
      lam(i) == e.args[2 * i + 1]
      u == TypeOf(var, tenv).ts[1]
      stop == {p \in {2 * k : k \in 1 .. n \div 2} : e.args[p].op # "Atom" \/ e.args[p].val = var.val}
      first == Min(stop)
  IN IF n = 2 THEN e.args[2]
     ELSE IF n = 4 /\ e.args[4].op = "Nothing" /\ lam(1).args[1] = Node("Just", <<Arg(lam(1).val)>>)
     THEN [op |-> "Guess", args |-> <<var>>, val |-> e.args[2].val]
     ELSE IF n = 4 /\ Cardinality(DOMAIN u.ts) = 1 THEN ChangeChildren(e, SubSeq(e.args, 1, 3))
     ELSE IF var.op = "Variant" /\ stop # {}
     THEN IF e.args[first].op # "Atom" THEN e.args[first]
          ELSE Subst(e.args[first + 1].args[1], e.args[first + 1].val, var.args[1])
     ELSE IF n % 2 = 1 /\ H > 1 /\ Cardinality({lam(i) : i \in 1 .. H}) = 1
     THEN Subst(lam(1).args[1], lam(1).val, Node("VariantItem", <<var>>))
     ELSE IF n % 2 = 1 /\ \A i \in 1 .. H : lam(i).args[1].op = "Just"
     THEN Node("Just", <<ChangeChildren(e, [j \in 1 .. n |->
            IF j > 1 /\ j % 2 = 1 THEN Lambda(e.args[j].val, e.args[j].args[1].args[1]) ELSE e.args[j]])>>)
     ELSE e

(***************************************************************************)
(* OptimizeTryMember: ty holds the types of the struct (head) and of the  *)
(* default (tail).  A member of the struct is read with Member, wrapped    *)
(* in Just when the result is Optional and the member is not; over an     *)
(* Optional struct, inside FlatMap (default Null) or IfPresent; with no   *)
(* such member, the default, wrapped in Just over an Optional struct      *)
(* unless it is Null or Optional.                                         *)
(***************************************************************************)
OptimizeTryMember(e, ty) ==
  LET isStructOptional == ty.head.k = "Opt"
      structType == RemoveOptional(ty.head)
      isOptional == ty.dflt.k = "Opt"
      memberName == e.args[2].val
      wrappedDefault ==
        WrapIf(isStructOptional /\ e.args[3].op # "Null" /\ ty.dflt.k # "Opt", "Just", e.args[3])
      just == (isStructOptional \/ isOptional) /\ structType.ts[memberName].k # "Opt"
      memberArg == IF isStructOptional THEN Arg("x") ELSE e.args[1]
      body == WrapIf(just, "Just", Member(memberArg, memberName))
  IN IF memberName \notin DOMAIN structType.ts THEN wrappedDefault
     ELSE IF ~isStructOptional THEN body
     ELSE IF e.args[3].op = "Null" THEN Node("FlatMap", <<e.args[1], Lambda("x", body)>>)
     ELSE Node("IfPresent", <<e.args[1], Lambda("x", body), wrappedDefault>>)

(* map["TryMember"], with the types it reads computed once. *)
TryMemberRule(e, tenv) ==
  CHOOSE r \in {OptimizeTryMember(e, ty) :
                  ty \in {[head |-> TypeOf(e.args[1], tenv), dflt |-> TypeOf(e.args[3], tenv)]}} : TRUE

(* The callable table: map[name] for the callables modelled here. *)
Rule(e, tenv) ==
  CASE e.op = "Struct" -> StructRule(e)
    [] e.op = "Member" -> MemberRule(e, tenv)
    [] e.op = "Nth" -> NthRule(e, tenv)
    [] e.op = "AsStruct" -> OptimizeAsStruct(e, tenv)
    [] e.op = "HasNull" -> HasNullRule(e, tenv)
    [] e.op = "Plus" -> PlusRule(e)
    [] e.op = "Guess" -> GuessRule(e, tenv)
    [] e.op = "Way" -> WayRule(e, tenv)
    [] e.op = "VariantItem" -> VariantItemRule(e, tenv)
    [] e.op = "Visit" -> VisitRule(e, tenv)
    [] e.op = "TryMember" -> TryMemberRule(e, tenv)
    [] OTHER -> e

(* The scope of child i: a lambda of IfPresent or FlatMap binds its       *)
(* parameter to the item type of the Optional in the first child, a       *)
(* handler of Visit to the type of the alternative in the child before.   *)
ChildEnv(e, i, tenv) ==
  IF e.args[i].op # "Lambda" THEN tenv
  ELSE IF e.op = "Visit"
  THEN (e.args[i].val :> AltType(TypeOf(e.args[1], tenv), e.args[i - 1].val)) @@ tenv
  ELSE (e.args[i].val :> TypeOf(e.args[1], tenv).ts[1]) @@ tenv

(* One pass of the fixpoint walker: children first, then the node's rule. *)
RECURSIVE Pass(_, _)

(* The passes over children i .. Len(e.args) of e, each computed once. *)
RECURSIVE PassChildren(_, _, _)
PassChildren(e, i, tenv) ==
  IF i > Len(e.args) THEN <<>>
  ELSE LET first == Pass(e.args[i], ChildEnv(e, i, tenv))
           rest == PassChildren(e, i + 1, tenv)
       IN <<first>> \o rest

(* The node with its children rewritten is bound once (as an element of a *)
(* set) before its rule looks at it repeatedly.                          *)
Pass(e, tenv) ==
  CHOOSE r \in {Rule(k, tenv) : k \in {ChangeChildren(e, PassChildren(e, 1, tenv))}} : TRUE

-----------------------------------------------------------------------------
(***************************************************************************)
(* Inputs: free arguments of struct, tuple and Optional types, and        *)
(* well-typed expressions of one or two of the callables over them.       *)
(***************************************************************************)
S1 == StructT(("a" :> U) @@ ("b" :> Opt(U)))
T1 == Tup(<<U, Opt(U)>>)
TN == Tup(<<NullT, U>>)
VT == Var(Tup(<<U, Opt(U)>>))
VS == Var(StructT(("a" :> Opt(U)) @@ ("b" :> Opt(U))))
V1 == Var(Tup(<<U>>))
ArgTypes ==
  ("u" :> U) @@ ("ou" :> Opt(U)) @@ ("oou" :> Opt(Opt(U))) @@ ("s" :> S1)
  @@ ("os" :> Opt(S1)) @@ ("t" :> T1) @@ ("ot" :> Opt(T1)) @@ ("p" :> B)
  @@ ("v" :> VT) @@ ("ov" :> Opt(VT)) @@ ("w" :> VS) @@ ("ow" :> Opt(VS)) @@ ("v1" :> V1)
  @@ (IF NullItems THEN ("tn" :> TN) @@ ("otn" :> Opt(TN)) ELSE <<>>)

Nth(x, i) == [op |-> "Nth", args |-> <<x>>, val |-> i]
Lit == Node("AsStruct", <<Item("a", Arg("u")), Item("b", Arg("ou"))>>)
PoolStruct ==
  {Arg("s"), Arg("os"), Lit, Node("Just", <<Lit>>), Node("Just", <<Arg("s")>>),
   Node("Nothing", <<TypeNode(Opt(S1))>>),
   Node("Struct", <<TypeNode(S1), Item("b", Arg("ou")), Item("a", UintLit(1))>>)}
PoolTuple ==
  {Arg("t"), Arg("ot"), Node("Tuple", <<Arg("u"), Arg("ou")>>),
   Node("Just", <<Node("Tuple", <<Arg("u"), Arg("ou")>>)>>), Node("Just", <<Arg("t")>>),
   Node("Nothing", <<TypeNode(Opt(T1))>>)}
   \cup (IF NullItems THEN {Arg("tn"), Arg("otn"), Node("Just", <<Arg("tn")>>)} ELSE {})
Fields ==
  {Member(x, m) : x \in PoolStruct, m \in {"a", "b"}} \cup {Nth(x, i) : x \in PoolTuple, i \in {0, 1}}
Rebuilt(x, ms) == Node("AsStruct", [i \in 1 .. Len(ms) |-> Item(ms[i][1], Member(x, ms[i][2]))])
VarLit(x, i, t) == [op |-> "Variant", args |-> <<x, TypeNode(t)>>, val |-> i]
Guess(x, i) == [op |-> "Guess", args |-> <<x>>, val |-> i]
PoolVariant ==
  {Arg("v"), Arg("w"), Arg("v1"), VarLit(Arg("u"), "0", VT), VarLit(Arg("ou"), "1", VT),
   VarLit(Arg("ou"), "b", VS), VarLit(Arg("u"), "0", V1)}
PoolOptVariant ==
  {Arg("ov"), Arg("ow"), Node("Just", <<Arg("v")>>), Node("Just", <<VarLit(Arg("ou"), "a", VS)>>),
   Node("Nothing", <<TypeNode(Opt(VT))>>), Node("Nothing", <<TypeNode(Opt(VS))>>),
   Node("OptionalIf", <<Arg("p"), Arg("w")>>), Node("OptionalIf", <<Arg("p"), VarLit(Arg("u"), "0", VT)>>)}
(* Visit(x, handlers..., [default]); handlers are <<index, lambda>> pairs. *)
Visit(x, hs, d) == Node("Visit", <<x>> \o FlattenSeq([i \in DOMAIN hs |-> <<Atom(hs[i][1]), hs[i][2]>>]) \o d)
JustOf(x) == Lambda(x, Node("Just", <<Arg(x)>>))
(* Visits of a tuple variant that build a struct, for AsStruct over Visit. *)
FromVisits ==
  {Visit(Arg("v"), <<<<"0", Lambda("x0", Node("AsStruct", <<Item("a", Arg("x0")), Item("b", Node("Just", <<Arg("x0")>>))>>))>>,
                     <<"1", Lambda("x1", Node("AsStruct", <<Item("a", UintLit(1)), Item("b", Arg("x1"))>>))>>>>, <<>>),
   Visit(Arg("v"), <<<<"0", Lambda("x0", Node("AsStruct", <<Item("a", Arg("x0")), Item("b", Node("Just", <<Arg("x0")>>))>>))>>>>,
         <<Lit>>)}
Visits ==
  {Visit(x, <<<<"0", JustOf("x0")>>>>, <<Node("Nothing", <<TypeNode(Opt(U))>>)>>) :
     x \in {Arg("v"), VarLit(Arg("u"), "0", VT), VarLit(Arg("ou"), "1", VT)}}
  \cup {Visit(x, <<<<"1", Lambda("x1", Arg("x1"))>>>>, <<Node("Nothing", <<TypeNode(Opt(U))>>)>>) :
          x \in {Arg("v"), VarLit(Arg("u"), "0", VT), VarLit(Arg("ou"), "1", VT)}}
  \cup {Visit(x, <<<<"0", JustOf("x0")>>, <<"1", Lambda("x1", Arg("x1"))>>>>, <<>>) :
          x \in {Arg("v"), VarLit(Arg("u"), "0", VT), VarLit(Arg("ou"), "1", VT)}}
  \cup {Visit(x, <<<<"0", Lambda("x0", Node("Plus", <<Arg("x0")>>))>>>>, <<UintLit(1)>>) :
          x \in {Arg("v1"), VarLit(Arg("u"), "0", V1)}}
  \cup {Visit(x, <<<<"a", JustOf("x0")>>, <<"b", JustOf("x1")>>>>, <<>>) :
          x \in {Arg("w"), VarLit(Arg("ou"), "b", VS)}}
  \cup {Visit(x, <<<<"a", JustOf("y")>>, <<"b", JustOf("y")>>>>, <<>>) :
          x \in {Arg("w"), VarLit(Arg("ou"), "b", VS)}}
  \cup {Visit(Arg("v"), <<>>, <<Arg("ou")>>)}
VariantInputs ==
  UNION {{Guess(x, i) : i \in Alts(RemoveOptional(TypeOf(x, ArgTypes)))} : x \in PoolVariant \cup PoolOptVariant}
  \cup {Node(op, <<x>>) : op \in {"Way", "VariantItem", "HasNull"}, x \in PoolVariant \cup PoolOptVariant}
  \cup Visits \cup FromVisits
  \cup {Rebuilt(x, ms) : x \in FromVisits, ms \in {<<<<"a", "a">>>>, <<<<"b", "b">>>>, <<<<"a", "a">>, <<"b", "b">>>>}}
(* TryMember over each kind of struct, for a member of each optionality *)
(* and an absent one, with defaults of each kind.  The annotator of        *)
(* TryMember is not in this repository; a Null default over a struct that *)
(* is not Optional, whose result type it alone decides, is left out.      *)
TryMembers ==
  {e \in {Node("TryMember", <<x, Atom(m), d>>) :
            x \in {Arg("s"), Arg("os"), Lit, Node("Nothing", <<TypeNode(Opt(S1))>>)},
            m \in {"a", "b", "c"},
            d \in {Arg("u"), Arg("ou"), UintLit(1), Node("Null", <<>>)}} :
     e.args[3].op = "Null" => TypeOf(e.args[1], ArgTypes).k = "Opt"}
Inputs ==
  {e \in
     Fields
     \cup {Node("HasNull", <<x>>) :
             x \in {Arg(a) : a \in DOMAIN ArgTypes} \cup PoolStruct \cup PoolTuple \cup Fields
                   \cup {Node("Null", <<>>), Node("Just", <<Node("Nothing", <<TypeNode(Opt(U))>>)>>),
                         Node("Tuple", <<Arg("u"), Node("Null", <<>>)>>), Node("Plus", <<Arg("u")>>)}}
     \cup {Rebuilt(x, ms) : x \in {Arg("s"), Arg("os"), Lit},
                            ms \in {<<<<"a", "a">>, <<"b", "b">>>>, <<<<"a", "a">>>>,
                                    <<<<"b", "b">>, <<"a", "a">>>>, <<<<"a", "b">>, <<"b", "a">>>>}}
     \cup {Node("Plus", <<x>>) : x \in {Arg("u"), Member(Arg("s"), "a"), Nth(Lit, 0)}}
     \cup VariantInputs \cup TryMembers
   : TypeOf(e, ArgTypes) # Bad}

(* Every assignment of values to the arguments e uses. *)
EnvsOf(e) ==
  LET names == FreeArgs(e) IN
  {env \in [names -> UNION {ValuesOf(ArgTypes[a]) : a \in names}] :
     \A a \in names : env[a] \in ValuesOf(ArgTypes[a])}

VARIABLES
  orig,     \* the expression given to the optimizer
  term,     \* the expression after the passes run so far
  nextTerm  \* the result of the pass the walker runs next, Pass(term)

vars == <<orig, term, nextTerm>>

Init == orig \in Inputs /\ term = orig /\ nextTerm = Pass(orig, ArgTypes)

(* A pass that changes the expression; the walker then starts another. *)
Step ==
  /\ nextTerm # term
  /\ term' = nextTerm
  /\ nextTerm' = Pass(nextTerm, ArgTypes)
  /\ UNCHANGED orig

(* No rule changes the expression: the optimizer returns it. *)
Done == nextTerm = term /\ UNCHANGED vars

Next == Step \/ Done

Spec == Init /\ [][Next]_vars /\ WF_vars(Step)

-----------------------------------------------------------------------------
(* A rewrite keeps the node's type: Member, Nth and HasNull rebuild Just  *)
(* and Nothing from the member's type, which must agree with the type the *)
(* annotator gave the node they replace.                                  *)
TypePreserved == TypeOf(term, ArgTypes) = TypeOf(orig, ArgTypes)

(* A rewrite keeps the value under every assignment of the arguments:     *)
(* the Or and IfPresent trees HasNull builds, and the flattening of       *)
(* Member and Nth over Optional, compute what the original did.           *)
MeaningPreserved == \A env \in EnvsOf(orig) : Eval(term, env) = Eval(orig, env)

(* The optimizer stops: the walker reaches a pass that changes nothing,   *)
(* although HasNull over an Optional builds a new HasNull in its lambda.  *)
ReachesFixpoint == <>[](nextTerm = term)
====

-------------------------------- MODULE MCInterp --------------------------------
(***************************************************************************)
(* The programs that the runs of Interp take: every nesting of two of the  *)
(* statements Ctx around a leaf, and one program for each other phrase.    *)
(* Clean names the nestings that the interpreter is known to get wrong.    *)
(***************************************************************************)
EXTENDS Lang

Name(x) == [k |-> "name", x |-> x]
Lit(v) == [k |-> "lit", v |-> Atom(v)]
Q == Lit("?")
Pos(e) == [key |-> NoKey, e |-> e]
CallE(f, es) == [k |-> "call", f |-> f, args |-> [i \in DOMAIN es |-> Pos(es[i])]]
ExprS(e) == [k |-> "expr", e |-> e]
EmitE(e) == ExprS(CallE(Name("emit"), <<e>>))
Emit(v) == EmitE(Lit(v))
RaiseS(v) == [k |-> "raise", e |-> Lit(v)]
ReturnS(v) == [k |-> "return", e |-> Lit(v)]
YieldS(v) == [k |-> "yield", e |-> Lit(v)]
If(b) == [k |-> "if", arms |-> <<[c |-> Q, b |-> b]>>, els |-> <<Emit("else")>>]
While(b) == [k |-> "while", l |-> "", e |-> Q, b |-> b, els |-> <<>>]
For(e, b) == [k |-> "for", l |-> "", xs |-> <<"x">>, e |-> e, b |-> b, els |-> <<Emit("stop")>>]
TryE(b, h) == [k |-> "try", b |-> b, hs |-> <<[e |-> Lit("E1"), x |-> None, b |-> h]>>, els |-> <<>>]
TryF(b, f) == [k |-> "finally", b |-> b, f |-> f]
DefS(k, u, ps) == [k |-> k, x |-> Name(u), ps |-> ps, u |-> u]
ObjS(o, u) == [k |-> "object", x |-> Name(o), ps |-> <<>>, u |-> u]
PropS(x, u) == [k |-> "prop", x |-> x, u |-> u]
Func(b) == [k |-> "func", ps |-> <<>>, b |-> b]
Body(b) == [k |-> "obj", ps |-> <<>>, b |-> b]

\* A program under construction: statements and code units.
P(b, u) == [b |-> b, u |-> u]
NoUnits == [x \in {} |-> Null]

U(x, n) == x \o ToString(n)
In(c, n, p) ==
  LET f == U("f", n)
      g == U("g", n)
      o == U("o", n)
      call == ExprS(CallE(Name(f), <<>>))
  IN  CASE c = "if" -> P(<<If(p.b)>>, p.u)
        [] c = "while" -> P(<<While(p.b)>>, p.u)
        [] c = "for" -> P(<<For(Lit("seq"), p.b)>>, p.u)
        [] c = "except" -> P(<<TryE(p.b, <<Emit("caught")>>)>>, p.u)
        [] c = "finally" -> P(<<TryF(p.b, <<Emit("fin")>>)>>, p.u)
        [] c = "infinally" -> P(<<TryF(<<Emit("t")>>, p.b)>>, p.u)
        [] c = "handler" -> P(<<TryE(<<RaiseS("E1")>>, p.b)>>, p.u)
        [] c = "call" -> P(<<DefS("def", f, <<>>), EmitE(CallE(Name(f), <<>>))>>, (f :> Func(p.b)) @@ p.u)
        [] c = "default" -> P(<<DefS("def", g, <<>>),
                                DefS("def", f, <<[k |-> "dflt", x |-> "x", e |-> CallE(Name(g), <<>>)]>>), call>>,
                              (g :> Func(p.b)) @@ (f :> [Func(<<EmitE(Name("x"))>>) EXCEPT !.ps =
                                 <<[k |-> "dflt", x |-> "x", e |-> CallE(Name(g), <<>>)]>>]) @@ p.u)
        [] c = "gen" -> P(<<DefS("gen", g, <<>>), For(CallE(Name(g), <<>>), <<EmitE(Name("x"))>>)>>,
                          (g :> Func(p.b)) @@ p.u)
        [] c = "object" -> P(<<ObjS(o, f)>>, (f :> Body(p.b)) @@ p.u)
        [] c = "prop" -> P(<<ObjS(o, f), EmitE([k |-> "dot", e |-> Name(o), x |-> "p"])>>,
                           (f :> Body(<<PropS("p", g)>>)) @@ (g :> Body(<<DefS("def", "get_", <<>>)>>))
                             @@ ("get_" :> Func(p.b)) @@ p.u)

Around(n, p) == [p EXCEPT !.b = <<Emit(U("a", n))>> \o @ \o <<Emit(U("z", n))>>]
Leaf(l) ==
  P(<<CASE l = "emit" -> Emit("l") [] l \in {"E1", "E2"} -> RaiseS(l) [] l = "return" -> ReturnS("r")
        [] l = "yield" -> YieldS("y") [] OTHER -> [k |-> l, l |-> "~"]>>, NoUnits)

Prog(cs, l) ==
  LET body[i \in 1..Len(cs) + 1] ==
        IF i > Len(cs) THEN Around(0, Leaf(l)) ELSE Around(i, In(cs[i], i, body[i + 1]))
  IN  [main |-> body[1].b, units |-> body[1].u]

Ctx == <<"if", "while", "for", "except", "finally", "infinally", "handler", "call", "default",
         "gen", "object", "prop">>
Leaves == <<"emit", "E1", "E2", "return", "break", "continue", "yield">>
Units == {"call", "default", "gen", "object", "prop"}

\* The last of the contexts that is in S, 0 when none is.
LastIn(cs, S) ==
  LET at == {i \in DOMAIN cs : cs[i] \in S}
  IN  IF at = {} THEN 0 ELSE CHOOSE i \in at : \A j \in at : j <= i
Unit(cs) == IF LastIn(cs, Units) = 0 THEN "main" ELSE cs[LastIn(cs, Units)]

\* The grammar and the reference allow the nesting; a generator asks nothing.
Sensible(cs, l) ==
  /\ l \in {"break", "continue"} => LastIn(cs, {"while", "for"}) > LastIn(cs, Units)
  /\ l = "return" => Unit(cs) \in {"call", "default", "prop", "gen"}
  /\ l = "yield" => Unit(cs) = "gen"
  /\ \A i, j \in DOMAIN cs : cs[i] = "gen" /\ cs[j] \in {"if", "while", "for"} => j < i
  /\ \A i, j \in DOMAIN cs : i # j /\ cs[i] = cs[j] => cs[i] # "prop"

\* One of A has one of B inside it; in the same code unit when same holds.
Under(c, A, B, same) ==
  \E i, j \in DOMAIN c :
    /\ i < j /\ c[i] \in A /\ c[j] \in B
    /\ same => \A k \in i..j - 1 : c[k] \notin Units
Raises == {"E1", "E2"}

\* What the interpreter does not do as the language says (README, "Findings"):
Unnamed(cs, l) == Under(Append(cs, l), {"except"}, {"E2"}, FALSE)
Clean(cs, l) ==
  LET In_(A, B, same) == Under(Append(cs, l), A, B, same)
  IN  /\ ~Unnamed(cs, l)                                             \* no handler names it
      /\ ~In_({"for", "except"}, {"return"}, TRUE)                   \* the stack is not as return wants it
      /\ ~(In_({"finally"}, {"return"}, TRUE) /\ Unit(cs) \in {"prop", "gen"})
      /\ ~In_({"for"}, {"finally", "infinally", "handler"}, TRUE)     \* CLRSP drops the iterator
      /\ ~(In_({"for"}, {"except"}, TRUE) /\ l = "E1")
      /\ ~In_({"finally"}, {"break", "continue"}, TRUE)              \* exc_final_return stays set
      /\ ~In_({"for", "while"} \cup (Units \ {"object"}), {"gen"}, FALSE)   \* a slot stays on the stack
      /\ \A u \in {"prop", "default"} :                              \* an exception in the middle of a call
           ~(In_({u}, Raises, FALSE) /\ In_({"except", "finally", "for"}, {u}, FALSE))

\* Every nesting of n contexts around a leaf.
Nested(n) ==
  LET C == Len(Ctx)
      M == Len(Leaves)
      at(i) == [cs |-> [j \in 1..n |-> Ctx[1 + ((i \div (M * (C^(j-1)))) % C)]], l |-> Leaves[1 + (i % M)]]
  IN  SelectSeq(<<>> \o [i \in 1..M * C^n |-> at(i)], LAMBDA d : Sensible(d.cs, d.l))

Lt(a, b) == [k |-> "bin", op |-> "lt?", a |-> a, b |-> b]
And(a, b) == [k |-> "and", a |-> a, b |-> b]
Or(a, b) == [k |-> "or", a |-> a, b |-> b]
Kw(x, v) == [key |-> Sym(x), e |-> Lit(v)]
CallK(f, args) == ExprS([k |-> "call", f |-> Name(f), args |-> args])
Set(xs, es) == [k |-> "assign", xs |-> xs, es |-> es]
Dot(o, x) == [k |-> "dot", e |-> Name(o), x |-> x]
RefE(k, x) == [k |-> k, x |-> x]
Req(x) == [k |-> "req", x |-> x]
Dflt(x, e) == [k |-> "dflt", x |-> x, e |-> e]
Star(k, x) == [k |-> k, x |-> x]
IfE(e, b) == [k |-> "if", arms |-> <<[c |-> e, b |-> b], [c |-> Q, b |-> <<Emit("elif")>>]>>, els |-> <<Emit("else")>>]
Clause_(x, e) == [var |-> x, e |-> e, started |-> FALSE]

\* f(x, y = g(), *r) and h(x, **k)
FPs == <<Req("x"), Dflt("y", CallE(Name("g"), <<>>)), Star("star", "r")>>
HPs == <<Req("x"), Star("starstar", "k")>>
ParamUnits == ("f" :> [Func(<<EmitE(Name("x")), EmitE(Name("y"))>>) EXCEPT !.ps = FPs])
              @@ ("g" :> Func(<<Emit("g"), ReturnS("d")>>))
              @@ ("h" :> [Func(<<EmitE(Name("x"))>>) EXCEPT !.ps = HPs])
Params_(args) == P(<<DefS("def", "g", <<>>), DefS("def", "f", FPs), DefS("def", "h", HPs),
                     Emit("a"), CallK("f", args), CallK("h", args), Emit("z")>>, ParamUnits)
ArgLists == <<<<>>, <<Pos(Lit("1"))>>, <<Pos(Lit("1")), Pos(Lit("2"))>>, <<Pos(Lit("1")), Pos(Lit("2")), Pos(Lit("3"))>>,
              <<Kw("x", "1")>>, <<Kw("y", "1")>>, <<Kw("y", "2"), Kw("x", "1")>>, <<Pos(Lit("1")), Kw("y", "2")>>,
              <<Pos(Lit("1")), Kw("z", "2")>>>>

Special == <<
  P(<<IfE(Lt(Lt(Q, Q), Q), <<Emit("b")>>), EmitE(Lt(Q, Q)), Emit("z")>>, NoUnits),
  P(<<EmitE(And(Q, Or(Q, Lit("o")))), EmitE(Or(Lit("False"), Lit("p"))), Emit("z")>>, NoUnits),
  P(<<EmitE([k |-> "comp", e |-> Q, cl |-> <<Clause_("x", Q), Clause_("", Q), Clause_("y", Q)>>]), Emit("z")>>, NoUnits),
  P(<<Set(<<Name("x"), Name("y")>>, <<Lit("1"), Lit("2")>>), EmitE(Name("y")), [k |-> "aug", x |-> Name("x"), e |-> Lit("3")],
      EmitE(Name("x")), [k |-> "del", x |-> Name("y")], EmitE(Name("y"))>>, NoUnits),
  P(<<ObjS("o", "o1"), [k |-> "with", e |-> Name("o"), u |-> "w"], EmitE(Dot("o", "x")), EmitE(Dot("o", "y")), EmitE(Dot("o", "n"))>>,
    ("o1" :> Body(<<Set(<<Name("x")>>, <<Lit("1")>>)>>)) @@
    ("w" :> [k |-> "with", ps |-> <<>>, b |-> <<EmitE(Name("x")), Set(<<Name("y")>>, <<Lit("2")>>)>>])),
  P(<<Set(<<Name("x")>>, <<Lit("1")>>), [k |-> "exec", e |-> Lit("s")], EmitE(Name("x"))>>,
    "s" :> Body(<<EmitE(Name("x")), Set(<<Name("x")>>, <<Lit("2")>>)>>)),
  P(<<Set(<<Name("v")>>, <<Lit("c")>>), ObjS("o", "o1"), ExprS(CallE(Dot("o", "m"), <<>>)), EmitE(Name("v"))>>,
    ("o1" :> Body(<<Set(<<Name("v")>>, <<Lit("1")>>), DefS("def", "m", <<>>)>>)) @@
    ("m" :> Func(<<Set(<<Name("v")>>, <<Lit("2")>>), EmitE(RefE("self", "v")), EmitE(RefE("caller", "v")), EmitE(RefE("outer", "v")),
                   EmitE([k |-> "dot", e |-> [k |-> "this"], x |-> "v"]), EmitE(Name("v"))>>))),
  P(<<ObjS("o", "o1"), DefS("def", "f", <<>>), Set(<<Name("b")>>, <<[k |-> "bind", f |-> Name("f"), e |-> Name("o")]>>),
      CallK("b", <<>>)>>,
    ("o1" :> Body(<<Set(<<Name("v")>>, <<Lit("1")>>)>>)) @@ ("f" :> Func(<<EmitE(RefE("self", "v"))>>))),
  P(<<DefS("def", "f", <<>>), ExprS([k |-> "cmd", f |-> Name("f"), args |-> <<>>]), Emit("a"),
      ExprS([k |-> "cmd", f |-> Name("f"), args |-> <<Pos(Lit("1"))>>]), Emit("b")>>, "f" :> Func(<<Emit("f")>>)),
  P(<<[For(Q, <<While(<<If(<<[k |-> "break", l |-> "l"]>>), If(<<[k |-> "continue", l |-> "~"]>>), Emit("b")>>), Emit("c")>>) EXCEPT !.l = "l"],
      EmitE([k |-> "un", op |-> "not?", a |-> Lit("False")])>>, NoUnits),
  P(<<While(<<ExprS(Lit("1")), [k |-> "continue", l |-> "~"]>>)>>, NoUnits),
  P(<<DefS("gen", "g", <<>>), For(CallE(Name("g"), <<>>), <<EmitE(Name("x"))>>)>>,
    ("g" :> Func(<<DefS("def", "h", <<>>), YieldS("1"), CallK("h", <<>>), Emit("e")>>)) @@ ("h" :> Func(<<Emit("h"), YieldS("2"), Emit("i")>>)))
  >>
SpecialProgs == Each(LAMBDA p : [main |-> p.b, units |-> p.u], Special \o Each(Params_, ArgLists))

Programs_(ds) == Each(LAMBDA d : Prog(d.cs, d.l), ds)
Cleaned(ds) == SelectSeq(ds, LAMBDA d : Clean(d.cs, d.l))
\* Every sixth of the nestings of three.
Sixth(ds) == <<>> \o [i \in 1..Len(ds) \div 6 |-> ds[6 * i]]
MCPrograms == SpecialProgs \o Programs_(Cleaned(Nested(1) \o Nested(2)) \o Sixth(Cleaned(Nested(3))))
MCUnnamed == Programs_(SelectSeq(Nested(1) \o Nested(2), LAMBDA d : Unnamed(d.cs, d.l)))
================================================================================

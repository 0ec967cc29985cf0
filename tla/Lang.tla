---------------------------------- MODULE Lang ----------------------------------
(***************************************************************************)
(* What a program means, phrase by phrase: the reference for Interp.       *)
(*                                                                         *)
(* The meaning of a phrase in scope s is a result                          *)
(*   o    how it ends: "norm", "break", "continue", "return" or "exc"      *)
(*   v    its value, the value returned or the exception                   *)
(*   r    the scopes, what was printed, the number of answers used and     *)
(*        what a generator has yielded so far                              *)
(* The answers are the ones the run has recorded (asked), so a run that    *)
(* has ended is compared with exactly one meaning.                         *)
(***************************************************************************)
EXTENDS Interp

Res(o, v, r) == [o |-> o, v |-> v, r |-> r]
Norm(v, r) == Res("norm", v, r)
Exc(e, r) == Res("exc", Atom(e), r)
Then(x, Cont(_)) == IF x.o = "norm" THEN Cont(x) ELSE x

AskR(r) == IF r.k < MaxAsk THEN [r EXCEPT !.k = @ + 1] ELSE r
AnswerR(r) == IF r.k < Len(asked) THEN asked[r.k + 1] ELSE FALSE

Store(r, s, x, v) == [r EXCEPT !.sc[s].a = (x :> v) @@ @]
\* A scope: its names, the scope around it, the caller's scope and self.
Scope(a, p, dyn, me) == [a |-> a, p |-> p, dyn |-> dyn, me |-> me]
NewScope(r, p, dyn, me) == [r EXCEPT !.sc = Append(@, Scope(NoAttrs, p, dyn, me))]

RECURSIVE Find(_, _, _)
Find(r, s, x) ==
  IF s = 0 THEN 0 ELSE IF x \in DOMAIN r.sc[s].a THEN s ELSE Find(r, r.sc[s].p, x)

\* The meaning of the expression e, or of the statements b, in scope s.
RECURSIVE Mean(_, _, _, _)
Ev(e, s, r) == Mean("expr", e, s, r)
Run(b, s, r) == Mean("block", b, s, r)

RECURSIVE EvAll(_, _, _, _)
RECURSIVE Comp(_, _, _, _)
RECURSIVE Loop(_, _, _)

\* The values of a sequence of expressions, from left to right.
EvAll(es, s, r, vs) ==
  IF es = <<>> THEN Norm(vs, r)
  ELSE Then(Ev(Head(es), s, r), LAMBDA x : EvAll(Tail(es), s, x.r, Append(vs, x.v)))

TruthOf(x) ==
  IF x.v = Atom("?") THEN Norm(Truth(AnswerR(x.r)), AskR(x.r))
  ELSE Norm(Truth(x.v \notin {False, None}), x.r)

\* The call of a function with its arguments: positions first, then names, then the
\* defaults, each in the scope of the definition.
Apply(func, args, s, me, r) ==
  LET unit  == prog.units[func.v]
      plain == SelectSeq(unit.ps, LAMBDA p : p.k \in {"req", "dflt"})
      named(k) == SelectSeq(unit.ps, LAMBDA p : p.k = k)
      pos   == SelectSeq(args, LAMBDA a : a.key = NoKey)
      kws   == SelectSeq(args, LAMBDA a : a.key # NoKey)
      known(a) == \E i \in Len(pos) + 1..Len(plain) : Sym(plain[i].x) = a.key
      given(i) == {j \in DOMAIN kws : kws[j].key = Sym(plain[i].x)}
      wrong == \/ Len(pos) > Len(plain) /\ named("star") = <<>>
               \/ named("starstar") = <<>> /\ \E j \in DOMAIN kws : ~known(kws[j])
      r1    == NewScope(r, func.n, s, IF func.t = "gen" THEN Null ELSE me)
      loc   == Len(r1.sc)
      bind(acc, i) ==
        Then(acc, LAMBDA x :
          LET put(v, q) == Norm(Null, Store(q, loc, plain[i].x, v))
          IN  IF i <= Len(pos) THEN put(pos[i].v, x.r)
              ELSE IF given(i) # {} THEN put(kws[CHOOSE j \in given(i) : TRUE].v, x.r)
              ELSE IF plain[i].k = "dflt" THEN Then(Ev(plain[i].e, func.n, x.r), LAMBDA y : put(y.v, y.r))
              ELSE put(NoDef, x.r))
      bound == FoldLeft(bind, Norm(Null, r1), [i \in DOMAIN plain |-> i])
      result(x) == CASE x.o = "return" -> Norm(x.v, x.r) [] x.o = "norm" -> Norm(None, x.r)
                     [] OTHER -> x
  IN  IF wrong THEN Exc("INTERPRETER", r)
      ELSE IF func.t = "gen" THEN Then(bound, LAMBDA x : Norm(V("started", func.v, loc), x.r))
      ELSE Then(bound, LAMBDA x : result(Run(unit.b, loc, x.r)))

CallR(func, args, s, me, r) ==
  IF func.t \in {"func", "gen"} THEN Apply(func, args, s, me, r)
  ELSE IF func.t = "bound" THEN Apply(func.f, args, s, func.me, r)
  ELSE IF func # V("ext", "emit", 0) THEN Exc("FUNCNOTFOUND", r)
  ELSE IF args[1].v = NoDef THEN Exc("INTERPRETER", r)
  ELSE Norm(None, [r EXCEPT !.out = Append(@, args[1].v.v)])

GetR(obj, x, r) ==
  IF x \notin DOMAIN r.sc[obj.n].a THEN Exc("NAME", r) ELSE Norm(r.sc[obj.n].a[x], r)

IsCmp(e) == e.k = "bin" /\ e.op \in CmpOps

ExprMeans(e, s, r) ==
  CASE e.k = "lit" -> Norm(e.v, r)
    [] e.k = "name" -> IF Find(r, s, e.x) = 0 THEN Exc("INTERPRETER", r)
                       ELSE Norm(r.sc[Find(r, s, e.x)].a[e.x], r)
    [] e.k = "dot" -> Then(Ev(e.e, s, r), LAMBDA o : Then(GetR(o.v, e.x, o.r), LAMBDA x :
                        IF x.v.t = "prop" THEN CallR(x.r.sc[x.v.n].a["get_"], <<>>, s, o.v, x.r) ELSE x))
    [] e.k = "call" ->
         LET on == IF e.f.k = "dot" THEN Ev(e.f.e, s, r) ELSE Norm(IF r.sc[s].me = Null THEN NewObj("", 1) ELSE r.sc[s].me, r)
         IN  Then(on, LAMBDA o :
               Then(IF e.f.k = "dot" THEN GetR(o.v, e.f.x, o.r) ELSE Ev(e.f, s, o.r), LAMBDA f :
                 Then(EvAll(Each(LAMBDA a : a.e, e.args), s, f.r, <<>>), LAMBDA a :
                   CallR(f.v, [i \in DOMAIN e.args |-> [key |-> e.args[i].key, v |-> a.v[i]]], s, o.v, a.r))))
    [] e.k = "cmd" -> Then(Ev(e.f, s, r), LAMBDA f :
         IF e.args = <<>> THEN f
         ELSE Then(EvAll(Each(LAMBDA a : a.e, e.args), s, f.r, <<>>), LAMBDA a : Exc("COMMAND", a.r)))
    [] e.k = "this" -> IF r.sc[s].me = Null THEN Exc("INTERPRETER", r) ELSE Norm(r.sc[s].me, r)
    [] e.k = "self" -> IF r.sc[s].me = Null THEN Exc("INTERPRETER", r) ELSE GetR(r.sc[s].me, e.x, r)
    [] e.k = "caller" -> GetR(NewObj("", r.sc[s].dyn), e.x, r)
    [] e.k = "outer" -> LET o == Find(r, r.sc[s].p, e.x)
                        IN  IF o = 0 THEN Exc("INTERPRETER", r) ELSE Norm(r.sc[o].a[e.x], r)
    [] e.k = "bind" -> Then(Ev(e.e, s, r), LAMBDA o : Then(Ev(e.f, s, o.r), LAMBDA f :
                         Norm([t |-> "bound", f |-> f.v, me |-> o.v, v |-> "", n |-> 0], f.r)))
    [] e.k = "comp" -> Comp(e, 1, s, r)
    [] e.k \in {"and", "or"} ->
         Then(Ev(e.a, s, r), LAMBDA x : Then(TruthOf(x), LAMBDA t :
           IF t.v = Truth(e.k = "or") THEN Norm(x.v, t.r) ELSE Ev(e.b, s, t.r)))
    \* a chain of comparisons stops at the first that is false
    [] e.k = "bin" ->
         Then(Ev(e.a, s, r), LAMBDA x :
           IF IsCmp(e) /\ IsCmp(e.a) /\ x.v = False THEN x
           ELSE Then(Ev(e.b, s, x.r), LAMBDA y :
                  IF IsCmp(e) THEN Norm(Truth(AnswerR(y.r)), AskR(y.r)) ELSE Norm(Atom("sum"), y.r)))
    [] e.k = "un" -> Then(Ev(e.a, s, r), LAMBDA x : Norm(Truth(x.v = False), x.r))
    [] e.k = "tuple" -> Then(EvAll(e.es, s, r, <<>>), LAMBDA x : Norm(V("seq", "", 0), x.r))

\* A generator runs its whole body when a loop takes its first value; what it prints
\* is handed out value by value (a generator of a program here asks nothing).
Yields(gen, r) == Run(prog.units[gen.v].b, gen.n, [r EXCEPT !.out = <<>>, !.ys = <<>>])

\* One value of the iterator it: [left, gen, from] for a generator, how far it is.
NextOf(it, r) ==
  LET all  == it.all
      stop == IF it.i < Len(all.r.ys) THEN all.r.ys[it.i + 1].at ELSE Len(all.r.out)
      from == IF it.i = 0 THEN 0 ELSE all.r.ys[it.i].at
      said == [r EXCEPT !.out = @ \o SubSeq(all.r.out, from + 1, stop)]
  IN  IF it.gen
      THEN IF it.i < Len(all.r.ys) THEN Norm(all.r.ys[it.i + 1].v, said)
           ELSE IF all.o = "exc" THEN Res("exc", all.v, said) ELSE Exc("StopIteration", said)
      ELSE IF AnswerR(r) THEN Norm(Atom("v"), AskR(r)) ELSE Exc("StopIteration", AskR(r))

\* A list comprehension: every clause is a loop or a test around the next one.
Comp(e, i, s, r) ==
  LET c    == e.cl[i]
      next == NextOf([gen |-> FALSE, i |-> 0, all |-> Null], r)
      rest(q) == IF i < Len(e.cl) THEN Comp([e EXCEPT !.cl[i + 1].started = FALSE], i + 1, s, q) ELSE Ev(e.e, s, q)
      again(x) == Comp([e EXCEPT !.cl[i].started = TRUE], i, s, x.r)
      list == Norm(V("list", "", 0), next.r)
  IN  IF c.var = "" THEN Then(Then(Ev(c.e, s, r), TruthOf), LAMBDA t :
                           IF t.v = True THEN rest(t.r) ELSE t)
      ELSE IF ~c.started THEN Then(Ev(c.e, s, r), again)
      ELSE IF next.o = "exc" THEN list
      ELSE Then(rest(Store(next.r, s, c.var, next.v)), again)

\* A loop: c the test or the iterator, then the body again.
Loop(st, it, x0) ==
  LET s    == it.s
      r    == x0.r
      test == IF st.k = "while" THEN Then(Ev(st.e, s, r), TruthOf) ELSE NextOf(it, r)
      ends == IF st.k = "while" THEN test.o = "norm" /\ test.v = False
              ELSE test.o = "exc" /\ test.v = StopIter
      bodyOf(x) == Run(st.b, s, IF st.k = "while" THEN x.r ELSE Store(x.r, s, st.xs[1], x.v))
      mine(b) == b.v \in {Sym("~"), Sym(st.l)}
      again(b) == CASE b.o = "break" /\ mine(b) -> Norm(Null, b.r)
                    [] b.o = "norm" \/ (b.o = "continue" /\ mine(b)) -> Loop(st, [it EXCEPT !.i = @ + 1], b)
                    [] OTHER -> b
  IN  IF ends THEN Run(st.els, s, test.r) ELSE Then(test, LAMBDA x : again(bodyOf(x)))

Handles(h, e) == h.e.v = e \/ h.e.v.v = "Exception"

RunOne(st, s, r) ==
  CASE st.k = "pass" -> Norm(Null, r)
    [] st.k = "expr" -> Ev(st.e, s, r)
    [] st.k = "assign" -> Then(EvAll(st.es, s, r, <<>>), LAMBDA x :
         Norm(Null, FoldLeft(LAMBDA q, i : Store(q, s, st.xs[i].x, x.v[i]), x.r, [i \in DOMAIN st.xs |-> i])))
    [] st.k = "aug" -> Then(Ev(st.x, s, r), LAMBDA x : Then(Ev(st.e, s, x.r), LAMBDA y :
         Norm(Null, Store(y.r, s, st.x.x, Atom("sum")))))
    [] st.k = "raise" -> Then(Ev(st.e, s, r), LAMBDA x : Res("exc", x.v, x.r))
    [] st.k = "return" -> Then(Ev(st.e, s, r), LAMBDA x : Res("return", x.v, x.r))
    [] st.k = "yield" -> Then(Ev(st.e, s, r), LAMBDA x :
         Norm(Null, [x.r EXCEPT !.ys = Append(@, [v |-> x.v, at |-> Len(x.r.out)])]))
    [] st.k \in {"break", "continue"} -> Res(st.k, Sym(st.l), r)
    [] st.k = "if" ->
         LET try(i, acc) == Then(Ev(st.arms[i].c, s, acc), TruthOf)
         IN  Then(try(1, r), LAMBDA t : IF t.v = True THEN Run(st.arms[1].b, s, t.r)
               ELSE IF Len(st.arms) = 1 THEN Run(st.els, s, t.r)
               ELSE Then(try(2, t.r), LAMBDA t2 :
                      IF t2.v = True THEN Run(st.arms[2].b, s, t2.r) ELSE Run(st.els, s, t2.r)))
    [] st.k = "while" -> Loop(st, [s |-> s, i |-> 0, gen |-> FALSE, all |-> Null], Norm(Null, r))
    [] st.k = "for" -> Then(Ev(st.e, s, r), LAMBDA x :
         LET gen == x.v.t = "started"
         IN  Loop(st, [s |-> s, i |-> 0, gen |-> gen, all |-> IF gen THEN Yields(x.v, x.r) ELSE Null], x))
    [] st.k = "try" ->
         LET b  == Run(st.b, s, r)
             hs == {i \in DOMAIN st.hs : Handles(st.hs[i], b.v)}
             h  == st.hs[CHOOSE i \in hs : \A j \in hs : i <= j]
         IN  IF b.o = "norm" THEN Run(st.els, s, b.r)
             ELSE IF b.o # "exc" \/ hs = {} THEN b
             ELSE Run(h.b, s, IF h.x = None THEN b.r ELSE Store(b.r, s, h.x.v, b.v))
    \* what the finally does itself comes before what the body did
    [] st.k = "finally" ->
         LET b == Run(st.b, s, r)
         IN  Then(Run(st.f, s, b.r), LAMBDA x : [b EXCEPT !.r = x.r])
    [] st.k \in {"def", "gen"} -> Norm(Null, Store(r, s, st.x.x, V(IF st.k = "def" THEN "func" ELSE "gen", st.u, s)))
    [] st.k \in {"object", "prop"} ->
         LET r1 == NewScope(r, s, r.sc[s].dyn, r.sc[s].me)
             n  == Len(r1.sc)
             x  == IF st.k = "prop" THEN st.x ELSE st.x.x
         IN  Run(prog.units[st.u].b, n,
                 Store(r1, s, x, V(IF st.k = "prop" THEN "prop" ELSE "obj", "", n)))
    [] st.k = "with" -> Then(Ev(st.e, s, r), LAMBDA x :
         LET q == [x.r EXCEPT !.sc[x.v.n] = Scope(@.a, s, x.r.sc[s].dyn, x.r.sc[s].me)]
         IN  Run(prog.units[st.u].b, x.v.n, q))
    [] st.k = "exec" -> Run(prog.units[st.e.v.v].b, s, r)
    [] st.k = "del" -> Norm(Null, [r EXCEPT !.sc[s].a = [x \in DOMAIN @ \ {st.x.x} |-> @[x]]])
    [] st.k = "assert" -> Then(Then(Ev(st.c, s, r), TruthOf), LAMBDA t :
         IF t.v = True THEN t ELSE Then(Ev(st.e, s, t.r), LAMBDA x : Res("exc", x.v, x.r)))

Mean(k, x, s, r) ==
  IF k = "expr" THEN ExprMeans(x, s, r)
  ELSE IF x = <<>> THEN Norm(Null, r)
  ELSE Then(RunOne(Head(x), s, r), LAMBDA y : Run(Tail(x), s, y.r))

Meaning ==
  Run(prog.main, 1,
      [sc |-> <<Scope("emit" :> V("ext", "emit", 0), 0, 1, Null)>>, out |-> <<>>, k |-> 0, ys |-> <<>>])

--------------------------------------------------------------------------------
\* What a run prints, and the exception it ends with, are what the program means:
\* exec_loop's jumps, its exception stack and its frames together with the code that
\* parser_routines.c computes distances and depths for.
Agrees ==
  status \in {"done", "uncaught"} =>
    LET x == Meaning
    IN  /\ out = x.r.out
        /\ IF status = "done" THEN x.o \in {"norm", "return"}
           ELSE x.o = "exc" /\ x.v = ist.exc

\* An exception that no handler names ends the program: "RERAISE: reraise exception
\* (does nothing when nothing to re-raise)" (src/src/bytecodes.h).
Reraised == status = "done" => Meaning.o # "exc"

\* No run reads below or writes above its frame's stack, or uses a frame that is free.
NoCorruption == status \in {"run", "done", "uncaught"}

\* exec_loop's copy of the innermost try statement (have_exstk, exc_final, exc_try_loc,
\* exc_exc_loc) is the running frame's, across calls, returns, yields and exceptions.
RegistersMatch ==
  Running =>
    LET l   == Last(loops)
        exs == frames[l.frame].exs
    IN  /\ l.have = (exs # <<>>)
        /\ l.have => l.reg = Last(exs)

\* The frames linked to those of S by prev_frame and next_frame.
RECURSIVE Linked(_)
Linked(S) ==
  LET T == S \cup {frames[f].prev : f \in S} \cup {frames[f].next : f \in S}
  IN  IF T \ {0} = S THEN S ELSE Linked(T \ {0})
RECURSIVE Callers(_)
Callers(f) == IF f = 0 THEN {} ELSE {f} \cup Callers(frames[f].prev)

\* do_return, exceptions and generators free every frame once, after its last use: those
\* the running frame returns to are not free, and one that is not free is linked to the
\* running one or to a generator's.  At the end only generators keep frames.
FramesAccounted ==
  LET live == {f \in DOMAIN frames : ~frames[f].dead}
      gens == {heap[h].gfr : h \in DOMAIN heap} \ {0}
      top  == IF status = "done" THEN {} ELSE {ist.frame}
  IN  /\ status = "run" => Callers(ist.frame) \subseteq live
      /\ live \subseteq Linked(gens \cup top)

\* Every program that asks no more than MaxAsk questions ends.
Terminates == <>(status # "run")
================================================================================

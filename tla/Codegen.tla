-------------------------------- MODULE Codegen --------------------------------
(***************************************************************************)
(* The code generator (src/src/parser_routines.c): what each routine that  *)
(* the grammar calls makes of the code blocks of its operands.             *)
(*                                                                         *)
(* A code block (code_p) is a record                                       *)
(*   w    code_data: the words, one opcode word followed by the data words *)
(*        that the instruction carries                                     *)
(*   sd   stack_depth, the simulated effect of the block on the stack      *)
(*   max  max_stack_depth, from which create_frame sizes the stack         *)
(*   cmp  cmp_expr: the block is a comparison that can be chained          *)
(*   asn  assign_parm_cnt                                                  *)
(* Word i of a block (from 0 in C) is w[i + 1].  Every jump is relative to *)
(* the word of its own opcode.  The source map, the constant list and the  *)
(* reallocations are left out.                                             *)
(***************************************************************************)
EXTENDS Integers, Sequences, FiniteSets, SequencesExt

\* A value is a tag, a name and a number, so that any two can be compared.
V(t, v, n) == [t |-> t, v |-> v, n |-> n]
Null == V("null", "", 0)
Atom(v) == V("atom", v, 0)
Sym(v) == V("sym", v, 0)
None == Atom("None")
True == Atom("True")
False == Atom("False")
NoDef == Atom("NODEF")
NoKey == Atom("NOKEY")
ParamStar == Atom("*")
ParamStarStar == Atom("**")
StopIter == Atom("StopIteration")

\* The words of instructions.
I(op, p) == <<[op |-> op, p |-> p, d |-> Null]>>
D(v) == <<[op |-> "DATA", p |-> 0, d |-> v]>>
\* The images of the elements, each computed once.
Each(Op(_), s) == <<>> \o [i \in DOMAIN s |-> Op(s[i])]
Data(vs) == [i \in DOMAIN vs |-> D(vs[i])[1]]
I1(op, p, v) == I(op, p) \o D(v)
Push(vs) == I("PUSH", Len(vs) + 1) \o Data(vs)

\* The opcodes below OP_PARAM_WORDS_BOUNDARY and OP_TWO_WORDS_BOUNDARY.
ParamWordsOps == {"NOP", "IMPORT", "PUSH", "OBJ", "WITH", "DEF", "GEN"}
TwoWordsOps == {"PROP", "PUSH_LOCAL_REF", "PUSH_SELF_REF", "PUSH_OUTER_REF",
                "PUSH_CALLER_REF", "BEQ", "BREAK", "CONTINUE", "CMDCALL"}
Width(word) == IF word.op \in ParamWordsOps THEN word.p
               ELSE IF word.op \in TwoWordsOps THEN 2 ELSE 1

larger(a, b) == IF a > b THEN a ELSE b

new_code(w, sd, max) == [w |-> w, sd |-> sd, max |-> max, cmp |-> FALSE, asn |-> 0]

\* Words that a routine emits itself: they count in len and touch neither depth.
Raw(w) == new_code(w, 0, -1000)

calc_code(p, sd, max) == [sd |-> sd + p.sd, max |-> larger(max, sd + p.max)]

\* A routine runs calc_code over its operands in order, from the depths it starts
\* with, and then copies their words and its own (add_code) in the same order.
RECURSIVE Join(_, _, _)
Join(parts, sd, max) ==
  IF parts = <<>> THEN new_code(<<>>, sd, max)
  ELSE LET c == calc_code(Head(parts), sd, max)
       IN  [Join(Tail(parts), c.sd, c.max) EXCEPT !.w = Head(parts).w \o @]

Less(code, n) == [code EXCEPT !.sd = @ - n]

append_code(p1, p3) ==
  [p1 EXCEPT !.w = @ \o p3.w, !.sd = @ + p3.sd,
             !.max = larger(@, p1.sd + p3.max)]

none == new_code(<<>>, 0, 0)
push_null == new_code(Push(<<Null>>), 1, 1)

\* A statement that leaves a value drops it, and as many as one.
stack_check(stmt) ==
  IF stmt.sd # 0 THEN append_code(stmt, new_code(I("POP", 1), -1, 0)) ELSE stmt

--------------------------------------------------------------------------------
(* References, parameters and calls. *)

attrref(op, label) == new_code(I1(op, 0, Sym(label)), 2, 2)
label_to_attrref(label) == attrref("PUSH_LOCAL_REF", label)
self_label_to_attrref(label) == attrref("PUSH_SELF_REF", label)
outer_label_to_attrref(label) == attrref("PUSH_OUTER_REF", label)
caller_label_to_attrref(label) == attrref("PUSH_CALLER_REF", label)
obj_label_to_attrref(obj, label) ==
  [obj EXCEPT !.w = @ \o Push(<<Sym(label)>>), !.sd = @ + 1,
              !.max = larger(@, obj.sd + 1)]

obj_func_params(obj, parms) ==
  Less(Join(<<Raw(obj.w \o Push(<<Null>>))>> \o parms \o <<Raw(I("OBJCALL", Len(parms)))>>,
            obj.sd + 1, obj.max + 1),
       1 + 2 * Len(parms))

bound_bind_params(attr_ref, obj) ==
  Less(Join(<<attr_ref, obj, Raw(I("BIND", 0))>>, 0, 0), 2)

unbound_bind_params(attr_ref, obj) ==
  Less(Join(<<attr_ref, Raw(I("DEREF", 0)), obj, Raw(I("OBJBIND", 0))>>, 0, 0), 2)

bound_func_params(attr_ref, parms) ==
  Less(Join(<<attr_ref, push_null>> \o parms \o <<Raw(I("CALL", Len(parms)))>>, 0, 5),
       2 + 2 * Len(parms))

unbound_func_params(attr_ref, parms, cmd_flag) ==
  Less(Join(<<attr_ref, Raw(I("DEREF", 0)), push_null>> \o parms
              \o <<Raw(IF cmd_flag THEN I1("CMDCALL", Len(parms), attr_ref.w[2].d)
                       ELSE I("OBJCALL", Len(parms)))>>, 0, 0),
       2 + 2 * Len(parms))

\* f{obj}(...): the bound and the unbound reference get the same code.
bind_func_params(attr_ref, obj, parms) ==
  Less(Join(<<attr_ref, Raw(I("DEREF", 0)), obj>> \o parms
              \o <<Raw(I("OBJCALL", Len(parms)))>>, 0, 0),
       2 + 2 * Len(parms))

word_expr_to_param(word, expr) == Join(<<Raw(Push(<<word>>)), expr>>, 1, 1)

label_to_formparm(label) == new_code(Push(<<Sym(label), NoDef>>), 2, 2)
star_ref_to_formparm(label) == new_code(Push(<<Sym(label), ParamStar>>), 2, 2)
star_star_ref_to_formparm(label) == new_code(Push(<<Sym(label), ParamStarStar>>), 2, 2)
label_eq_expr_to_formparm(label, expr) ==
  [expr EXCEPT !.w = Push(<<Sym(label)>>) \o @ \o I("SWAP", 0) \o I("POP", 1)
                       \o I("RETURN", 0),
               !.sd = @ + 1, !.max = @ + 1]

--------------------------------------------------------------------------------
(* Expressions. *)

constant(v) == new_code(Push(<<v>>), 1, 1)
self_to_obj == new_code(I("PUSH_SELF", 0), 1, 1)
caller_to_obj == new_code(I("PUSH_CALLER", 0), 1, 1)

op_expr(op, expr, size) == [expr EXCEPT !.w = @ \o I(op, 0), !.sd = @ - size]
exec_expr(expr) == op_expr("EXEC", expr, 1)
tgtparm_to_obj(expr) == op_expr("DEREF", expr, 1)
del_ref(expr) == op_expr("DEL", expr, 2)
yield_expr(expr) == op_expr("YIELD", expr, 1)
return_expr(expr) == op_expr("RETURN", expr, 1)

\* A call without parameters of the method m of the value on the stack.
Method0(m) == Push(<<Sym(m), Null>>) \o I("CALL", 0)

unary(op, parm) ==
  [parm EXCEPT !.w = @ \o Method0(op), !.max = larger(@, parm.sd + 5)]

CmpOps == {"lt?", "eq?"}

\* A comparison keeps its right value under the answer (CHAIN_CMP), so that the
\* next one of a chain can take it with getCmp_ unless the answer was False.
binary(lparm, op, rparm) ==
  LET chained == lparm.cmp /\ op \in CmpOps
      compare == rparm.w \o I("SWAP", 0) \o Push(<<Sym(op), Null, NoKey>>)
                   \o I("DUPLICATE", -5) \o I("CALL", 1) \o I("CHAIN_CMP", 0)
      next    == Method0("getCmp_") \o compare
      depths  == Join(<<lparm, rparm>>, 7, 7)
      words   == IF chained
                   THEN lparm.w \o I1("BEQ", 2 + Len(next), False) \o next
                 ELSE IF op \in CmpOps THEN lparm.w \o compare
                 ELSE lparm.w \o Push(<<Sym(op), Null, NoKey>>) \o rparm.w \o I("CALL", 1)
  IN  [depths EXCEPT !.w = words, !.sd = 1, !.cmp = op \in CmpOps]

expr_andor_expr(lparm, rparm, stop) ==
  [Join(<<lparm,
          Raw(I("DUPLICATE", -1) \o Method0("bool?")
               \o I1("BEQ", Len(rparm.w) + 4, stop) \o I("POP", 2)),
          rparm,
          Raw(I("BR", 2) \o I("POP", 1))>>, 0, 0) EXCEPT !.sd = 1]

new_tuple_list(lst) ==
  Less(Join(lst \o <<Raw(I("NEWTUPLE", Len(lst)))>>, 1, 1), Len(lst))

--------------------------------------------------------------------------------
(* List comprehensions.  A clause is [var, expr] for "for", [expr] for "if".
   The C code computes all locations first (calc_for_clause, calc_if_clause)
   and emits afterwards; here each clause is emitted around the next one.   *)

RECURSIVE Clause(_, _, _, _)
Clause(item, lcc, i, ofs) ==
  LET inner == IF i < Len(lcc) THEN Clause(item, lcc, i + 1, ofs - 1)
               ELSE [depth |-> item, w |-> item.w \o I("APPEND", ofs - 2)]
      expr  == lcc[i].expr
      loop  == I("DUPLICATE", -1) \o Method0("next") \o Push(<<Sym(lcc[i].var)>>)
                 \o I("SEQ_ASSIGN", 1) \o inner.w
  IN  IF lcc[i].var # ""
      THEN [depth |-> Join(<<expr, inner.depth>>, 3, 3),
            w |-> expr.w \o Method0("iter_") \o I("TRYEXCEPT", Len(loop) + 2) \o loop
                    \o I("BR", -Len(loop)) \o Push(<<StopIter, Null>>)
                    \o I("EXCEPT", 1) \o I("RERAISE", 0) \o I("POP", 1)]
      ELSE [depth |-> Join(<<expr, inner.depth>>, 2, 2),
            w |-> expr.w \o Method0("bool?") \o I1("BEQ", 2 + Len(inner.w), False)
                    \o inner.w \o I("POP", 1)]

\* The depths: 1 for the list, 3 for a "for", 2 for an "if" on the way in, 4 and 3
\* taken off on the way out, 1 for the list at the end.
expr_for_lcc_to_listcomp(expr, lcc) ==
  LET body == Clause(expr, lcc, 1, -1)
      off  == FoldLeft(LAMBDA n, c : n + IF c.var # "" THEN 4 ELSE 3, 1, lcc)
  IN  new_code(I("NEWLIST", 0) \o body.w, 1 + body.depth.sd - off,
               larger(1, 1 + body.depth.max))

--------------------------------------------------------------------------------
(* Branches and loops. *)

\* Tests the value on the stack; when it is false, jumps over the body and over
\* the branch that ends it.
add_skip_code1(body) ==
  Method0("bool?") \o I1("BEQ", Len(body.w) + 4, False) \o I("POP", 1)

\* Ends a body: jumps dist words on; the next word drops the answer that add_skip_code1 left.
add_skip_code2(dist) == I("BR", dist) \o I("POP", 1)

\* arms: the condition and the body of the if and of every elif
if_expr_body_elif_else(arms, els) ==
  LET words[i \in 1..Len(arms) + 1] ==
        IF i > Len(arms) THEN els.w
        ELSE arms[i].cond.w \o add_skip_code1(arms[i].body) \o arms[i].body.w
               \o add_skip_code2(2 + Len(words[i + 1])) \o words[i + 1]
      arm(acc, a) ==
        LET c == Join(<<a.cond, a.body>>, acc.sd, acc.max)
        IN  [c EXCEPT !.max = @ + larger(@, c.sd + 3)]
      depths == FoldLeft(arm, none, arms)
      all    == Join(<<els>>, depths.sd, depths.max)
  IN  new_code(words[1], all.sd, all.max)

break_stmt(label) == new_code(I1("BREAK", 0, Sym(label)), 0, 0)
continue_stmt(label) == new_code(I1("CONTINUE", 0, Sym(label)), 0, 0)

\* The places of the opcode words of w from i on.
RECURSIVE Starts(_, _)
Starts(w, i) == IF i > Len(w) THEN {} ELSE {i} \cup Starts(w, i + Width(w[i]))

\* A break or continue of this loop becomes a branch to the end of the body:
\* continue to its first word after, the branch back; break to the one after.
patch_break_continuesTop(label, body) ==
  LET starts == Starts(body.w, 1)
      mine(i) == /\ i \in starts
                 /\ i < Len(body.w)
                 /\ body.w[i].op \in {"BREAK", "CONTINUE"}
                 /\ body.w[i + 1].d.v \in {"~", label}
      dist(i) == IF body.w[i].op = "CONTINUE" THEN -(i - 1) ELSE Len(body.w) - (i - 1) + 1
  IN  [body EXCEPT !.w = <<>> \o [i \in DOMAIN body.w |->
         IF mine(i) THEN I("BR", dist(i))[1]
         ELSE IF i > 1 /\ mine(i - 1) THEN I("NOP", 1)[1]
         ELSE body.w[i]]]
patch_break_continues(label, body) ==
  LET starts == Starts(body.w, 1)
      mine(i) == /\ i \in starts
                 /\ i < Len(body.w)
                 /\ body.w[i].op \in {"BREAK", "CONTINUE"}
                 /\ body.w[i + 1].d.v \in {"~", label}
      dist(i) == Len(body.w) - (i - 1) + IF body.w[i].op = "CONTINUE" THEN 0 ELSE 1
  IN  [body EXCEPT !.w = <<>> \o [i \in DOMAIN body.w |->
         IF mine(i) THEN I("BR", dist(i))[1]
         ELSE IF i > 1 /\ mine(i - 1) THEN I("NOP", 1)[1]
         ELSE body.w[i]]]

for_lcc_body_else(label, vars, expr, body0, els) ==
  LET body == patch_break_continues(label, body0)
      loop == I("DUPLICATE", -1) \o Method0("next")
                \o Push([i \in DOMAIN vars |-> Sym(vars[i])])
                \o I("SEQ_ASSIGN", Len(vars)) \o body.w
      \* els_loc is 3 words after the body, end_loc 2 after the else
      onstop == Push(<<StopIter, Null>>) \o I("EXCEPT", 1 + Len(els.w)) \o els.w
      depths == Join(<<expr, body, els>>, 0, 0)
  IN  new_code(expr.w \o Method0("iter_") \o I("TRYEXCEPT", 1 + Len(loop) + 3)
                 \o loop \o I("BR", -Len(loop)) \o I("POP", 1)
                 \o I("BR", 1 + Len(onstop) + 2)
                 \o onstop \o I("POP", 1) \o I("RERAISE", 0),
               depths.sd, depths.max + 2)

while_expr_body_else(label, expr, body0, els) ==
  LET body == patch_break_continues(label, body0)
      test(n) == expr.w \o Method0("bool?") \o I1("BEQ", n, False) \o I("POP", 1)
      \* els_loc is 2 words after the body
      loop == test(3 + Len(body.w) + 2) \o body.w
      depths == Join(<<expr, body, els>>, 0, 6)
  IN  new_code(loop \o I("BR", -Len(loop)) \o I("BR", 2 + Len(els.w)) \o I("POP", 1) \o els.w,
               depths.sd, depths.max)

cond_exc_to_assert(cond, exc) ==
  Less(Join(<<cond,
              Raw(Method0("bool?") \o I1("BEQ", 2 + 1 + Len(exc.w) + 1, True) \o I("POP", 1)),
              exc,
              Raw(I("RAISE", 0) \o I("POP", 1))>>, 0, 7), 1)

--------------------------------------------------------------------------------
(* Assignment, exceptions and definitions. *)

ref_expr_to_ass_op(ref, rparm, op) ==
  LET a == calc_code(ref, 0, 0)
      b == calc_code(rparm, a.sd + 3, a.max + 3)
      c == calc_code(ref, b.sd - 3, b.max)
  IN  new_code(ref.w \o I("DEREF", 0) \o Push(<<Sym(op), Null, NoKey>>) \o rparm.w
                 \o I("CALL", 1) \o ref.w \o I("ASSIGN", 1) \o I("POP", 1), 0, c.max)

assign_right(right) == [Join(right, 0, 0) EXCEPT !.asn = Len(right)]

tgt_eq_stmt_to_stmt(left, right) ==
  LET expand  == right.asn = 1 /\ Len(left) > 1
      targets == Less(Join(left \o <<Raw(I(IF expand THEN "ASSIGN_EXP" ELSE "ASSIGN",
                                           Len(left)))>>, 0, 0), 2 * Len(left))
  IN  append_code(right, targets)

assign_cleanup(ass) == append_code(ass, new_code(I("POP", ass.asn), -ass.asn, 0))

raise_expr(expr1, expr2) ==
  LET depths == Join(<<expr1, expr2>>, 0, 0)
      alone  == Join(<<expr1>>, 0, 0)
  IN  IF expr2 # none THEN [depths EXCEPT !.w = @ \o I("RAISE", 0), !.sd = 0]
      ELSE [alone EXCEPT !.w = @ \o Push(<<None>>) \o I("RAISE", 0), !.sd = 0]

\* label: the name the handler gives the exception, None when it gives none
expr_label_body_to_except(expr, label, body) ==
  append_code(Join(<<expr, Raw(Push(<<label>>) \o I("EXCEPT", Len(body.w) + 1))>>, 1, 1), body)

\* The handlers are tried in turn; each ends in a branch to the end.
body_except_else_to_tryexcept(body, excepts, els) ==
  LET words[i \in 1..Len(excepts) + 1] ==
        IF i > Len(excepts) THEN I("RERAISE", 0)
        ELSE LET rest == words[i + 1]
             IN  excepts[i].w \o I("BR", 1 + Len(rest) + Len(els.w)) \o rest
      handlers == I("CLRSP", 0) \o words[1]
      depths == Join(<<body>> \o excepts \o <<els>>, 0, 0)
  IN  new_code(I("TRYEXCEPT", Len(body.w) + 2) \o body.w \o I("BR", 1 + Len(handlers))
                 \o handlers \o els.w, depths.sd, depths.max)

tryfinally_body(body, final) ==
  Join(<<Raw(I("TRYFINALLY", Len(body.w) + 1)), body, Raw(I("CLRSP", 0)), final,
         Raw(I("RERAISE", 0))>>, 0, 0)

\* A function body ends in a return of None, a lambda's in the return of its value.
def_body(body) == append_code(body, new_code(Push(<<None>>) \o I("RETURN", 0), 0, 1))

\* A parameter of more than 3 words is compiled with the function; its place in the
\* function's memory (a PARMPTR) goes on the stack for it.
ref_parm_body_to_def(op, name, params, func) ==
  LET ptr(i)  == new_code(Push(<<params[i].w[2].d, V("parmptr", func.v, i)>>), 2, 2)
      words   == <<>> \o [i \in DOMAIN params |-> IF Len(params[i].w) = 3 THEN params[i] ELSE ptr(i)]
      depths  == Join(<<name>> \o words, 0, 0)
  IN  new_code(depths.w \o I(op, 3) \o D(V("num", "", Len(params))) \o D(func),
               depths.sd - (2 * Len(params) + 2), depths.max)

\* "with obj: body": the body runs in a frame of its own whose locals are obj.
with_code(body) ==
  append_code(body, IF body.sd # 0 THEN new_code(I("RETURN", 0), -1, 0)
                    ELSE new_code(Push(<<None>>) \o I("RETURN", 0), 0, 1))
with_body(self, func) ==
  Less(Join(<<self, Raw(I1("WITH", 2, func))>>, 0, 0), 2)

\* "object ref(protos): body" and "prop label: body": make the object, store it and run
\* the body with it for locals.
lbl_proto_body_to_obj(ref, protos, func) ==
  [Join(<<ref>> \o protos
          \o <<Raw(I1("OBJ", 3, func) \o D(V("num", "", Len(protos))))>>, 0, 0)
     EXCEPT !.sd = 0]
lbl_body_to_prop(label, func) ==
  new_code(I1("PUSH_LOCAL_REF", 0, Sym(label)) \o I1("PROP", 0, func), 0, 2)

--------------------------------------------------------------------------------
(* The grammar (src/src/prothon.y): which routine compiles which phrase.  A phrase
   is a record of its kind k and its parts; a body is a sequence of statements.   *)

RECURSIVE Expr(_)
RECURSIVE Stmt(_)
RECURSIVE Block(_)

Target(e) ==
  CASE e.k = "name"   -> label_to_attrref(e.x)
    [] e.k = "self"   -> self_label_to_attrref(e.x)
    [] e.k = "outer"  -> outer_label_to_attrref(e.x)
    [] e.k = "caller" -> caller_label_to_attrref(e.x)
    [] e.k = "dot" -> obj_label_to_attrref(Expr(e.e), e.x)

Param(a) == word_expr_to_param(a.key, Expr(a.e))
Params(args) == Each(Param, args)

Expr(e) ==
  CASE e.k = "lit" -> constant(e.v)
    [] e.k \in {"name", "self", "outer", "caller", "dot"} -> tgtparm_to_obj(Target(e))
    [] e.k = "this" -> self_to_obj
    [] e.k = "call" -> IF e.f.k = "name" THEN unbound_func_params(Target(e.f), Params(e.args), FALSE)
                       ELSE bound_func_params(Target(e.f), Params(e.args))
    [] e.k = "cmd" -> unbound_func_params(Target(e.f), Params(e.args), TRUE)
    [] e.k = "apply" -> obj_func_params(Expr(e.f), Params(e.args))
    [] e.k = "bind" -> IF e.f.k = "name" THEN unbound_bind_params(Target(e.f), Expr(e.e))
                       ELSE bound_bind_params(Target(e.f), Expr(e.e))
    [] e.k = "or" -> expr_andor_expr(Expr(e.a), Expr(e.b), True)
    [] e.k = "and" -> expr_andor_expr(Expr(e.a), Expr(e.b), False)
    [] e.k = "bin" -> binary(Expr(e.a), e.op, Expr(e.b))
    [] e.k = "un" -> unary(e.op, Expr(e.a))
    [] e.k = "tuple" -> new_tuple_list(Each(Expr, e.es))
    [] e.k = "comp" -> expr_for_lcc_to_listcomp(Expr(e.e),
                         Each(LAMBDA c : [var |-> c.var, expr |-> Expr(c.e)], e.cl))

\* A formal parameter: a name alone, a name with a default, *name, **name.
FormParams(ps) ==
  Each(LAMBDA p : CASE p.k = "req" -> label_to_formparm(p.x)
                    [] p.k = "dflt" -> label_eq_expr_to_formparm(p.x, Expr(p.e))
                    [] p.k = "star" -> star_ref_to_formparm(p.x)
                    [] p.k = "starstar" -> star_star_ref_to_formparm(p.x), ps)

Block(b) == FoldLeft(LAMBDA c, s : append_code(c, Stmt(s)), none, b)

Stmt(s) ==
  CASE s.k = "pass" -> none
    [] s.k = "expr" -> stack_check(Expr(s.e))
    [] s.k = "assign" -> stack_check(assign_cleanup(tgt_eq_stmt_to_stmt(
                           Each(Target, s.xs), assign_right(Each(Expr, s.es)))))
    [] s.k = "aug" -> stack_check(ref_expr_to_ass_op(Target(s.x), Expr(s.e), "add_"))
    [] s.k = "assert" -> stack_check(cond_exc_to_assert(Expr(s.c), Expr(s.e)))
    [] s.k = "del" -> stack_check(del_ref(Target(s.x)))
    [] s.k = "exec" -> stack_check(exec_expr(Expr(s.e)))
    [] s.k = "raise" -> stack_check(raise_expr(Expr(s.e), none))
    [] s.k = "return" -> stack_check(return_expr(Expr(s.e)))
    [] s.k = "yield" -> stack_check(yield_expr(Expr(s.e)))
    [] s.k = "break" -> break_stmt(s.l)
    [] s.k = "continue" -> continue_stmt(s.l)
    [] s.k = "if" -> if_expr_body_elif_else(
                       Each(LAMBDA a : [cond |-> Expr(a.c), body |-> Block(a.b)], s.arms),
                       Block(s.els))
    [] s.k = "while" -> while_expr_body_else(s.l, Expr(s.e), Block(s.b), Block(s.els))
    [] s.k = "for" -> for_lcc_body_else(s.l, s.xs, Expr(s.e), Block(s.b), Block(s.els))
    [] s.k = "try" -> body_except_else_to_tryexcept(Block(s.b),
                        Each(LAMBDA h : expr_label_body_to_except(Expr(h.e), h.x, Block(h.b)), s.hs),
                        Block(s.els))
    [] s.k = "finally" -> tryfinally_body(Block(s.b), Block(s.f))
    [] s.k \in {"def", "gen"} -> ref_parm_body_to_def(IF s.k = "def" THEN "DEF" ELSE "GEN",
                                   Target(s.x), FormParams(s.ps), V("code", s.u, 0))
    [] s.k = "with" -> with_body(Expr(s.e), V("code", s.u, 0))
    [] s.k = "object" -> lbl_proto_body_to_obj(Target(s.x), Each(Target, s.ps),
                                               V("code", s.u, 0))
    [] s.k = "prop" -> lbl_body_to_prop(s.x, V("code", s.u, 0))
================================================================================

--------------------------------- MODULE Interp --------------------------------
(***************************************************************************)
(* The interpreter (src/src/interp.c): exec_loop over the code that module *)
(* Codegen compiles, one action per instruction.                           *)
(*                                                                         *)
(* A frame (frame_t) keeps its pc, its stack and the stack of the try      *)
(* statements it is in; an exec_loop keeps in C locals a copy of the       *)
(* innermost of them, the exception being handled and the return that      *)
(* waits for a finally.  A property read calls Prothon code from C: that   *)
(* is another exec_loop on top of the first (call_func), and one ist.      *)
(*                                                                         *)
(* A condition, a comparison and an iterator get their answers from an     *)
(* oracle; asked records them.  After MaxAsk answers every answer is False *)
(* and every iterator ends.  What the program prints goes to out.          *)
(***************************************************************************)
EXTENDS Codegen, TLC

CONSTANTS
  Programs,     \* the programs: a sequence of [main, units]
  MaxAsk        \* how many answers the oracle chooses

VARIABLES
  prog,         \* the program that runs
  code,         \* what the parser made of it: the code blocks of each of its units
  frames,       \* the frames, in the order of creation
  ist,          \* ist->frame, ist->exception_obj and the result on its way back to C
  loops,        \* the exec_loops, innermost last
  heap,         \* scopes, functions, generators, tuples and lists
  out,          \* what was printed
  asked,        \* the oracle's answers
  status        \* "run", "done", "uncaught", or what went wrong

vars == <<prog, code, frames, ist, loops, heap, out, asked, status>>

STACK_PADDING == 4
NoAttrs == [x \in {} |-> Null]

CodeOf(p) ==
  [u \in DOMAIN p.units \cup {"main"} |->
     IF u = "main" THEN <<Block(p.main)>>
     ELSE LET unit == p.units[u]
              b    == Block(unit.b)
          IN  <<CASE unit.k = "func" -> def_body(b) [] unit.k = "with" -> with_code(b)
                  [] OTHER -> b>>
              \o [i \in DOMAIN unit.ps |-> FormParams(unit.ps)[i]]]
ASSUME InterpAssumption == MaxAsk \in Nat

(* A frame runs word cs of unit u: its body (1) or the default of its parameter cs - 1. *)
create_frame(u, cs, self, dyn, loc, prev, ccall) ==
  [u |-> u, cs |-> cs, pc |-> 1, st |-> <<>>, exs |-> <<>>, self |-> self,
   dyn |-> dyn, loc |-> loc, prev |-> prev, next |-> 0, ccall |-> ccall, gen |-> 0,
   nrf |-> FALSE, idx |-> -1, fps |-> <<>>, nloc |-> 0, dead |-> FALSE]

Entry(attrs, prev, elems) == [attrs |-> attrs, prev |-> prev, elems |-> elems, gfr |-> 0]

\* The C locals of an exec_loop that starts on frame f.
NoTry == [fin |-> FALSE, tr |-> 0, ex |-> 0]
exec_loop(f, fr) ==
  [frame |-> f, have |-> fr.exs # <<>>, reg |-> IF fr.exs # <<>> THEN Last(fr.exs) ELSE NoTry,
   wait |-> Null, fret |-> 0, xfree |-> 0, xsw |-> 0, sw |-> 0, free |-> 0, ret |-> FALSE,
   rv |-> Null]

DONE_FRAME == -1

--------------------------------------------------------------------------------
(* The machine as one record, so that an instruction is a function of it. *)

Machine(answer) ==
  [frames |-> frames, ist |-> ist, loops |-> loops, heap |-> heap, out |-> out,
   asked |-> asked, status |-> status, answer |-> answer]
Become(m) ==
  /\ frames' = m.frames /\ ist' = m.ist /\ loops' = m.loops /\ heap' = m.heap
  /\ out' = m.out /\ asked' = m.asked /\ status' = m.status /\ UNCHANGED <<prog, code>>

L(m) == Last(m.loops)
F(m) == m.frames[L(m).frame]
SetL(m, l) == [m EXCEPT !.loops[Len(m.loops)] = l]
SetF(m, f) == [m EXCEPT !.frames[L(m).frame] = f]
Broken(m, what) == [m EXCEPT !.status = what]

Code(f) == code[f.u][f.cs]
Word(f) == Code(f).w[f.pc]
DataAt(f, i) == Code(f).w[f.pc + i].d
sp(f) == Len(f.st)

raise(m, e) == [m EXCEPT !.ist.exc = e]
Excepted(m) == m.ist.exc # Null

\* fr_push and the fr_sp -= n of an instruction.  A push past the memory that
\* create_frame took, and a read below the first slot, are undefined.
push(m, v) ==
  LET f == F(m)
  IN  IF sp(f) >= Code(f).max + STACK_PADDING THEN Broken(m, "overflow")
      ELSE SetF(m, [f EXCEPT !.st = Append(@, v)])
drop(m, n) ==
  LET f == F(m)
  IN  IF sp(f) < n THEN Broken(m, "underflow")
      ELSE SetF(m, [f EXCEPT !.st = SubSeq(@, 1, sp(f) - n)])
\* the slot k places above the stack pointer after a drop of n (k from 0)
slot(f, n, k) == LET i == sp(f) - n + k + 1
                 IN  IF i \in 1..sp(f) THEN f.st[i] ELSE Null
tos(f) == slot(f, 1, 0)
pushAll(m, vs) == FoldLeft(push, m, vs)

goto(m, pc) == SetF(m, [F(m) EXCEPT !.pc = pc])

set_attr(m, o, label, v) == [m EXCEPT !.heap[o].attrs = (label :> v) @@ @]
new_object(m, entry) == [m EXCEPT !.heap = Append(@, entry)]
Newest(m) == Len(m.heap)

\* The scope at or above o that has the label, 0 when none has.
RECURSIVE ScopeOf(_, _, _)
ScopeOf(hp, o, label) ==
  IF o = 0 THEN 0
  ELSE IF label \in DOMAIN hp[o].attrs THEN o ELSE ScopeOf(hp, hp[o].prev, label)

get_scope_attr(m, o, label) ==
  LET s == ScopeOf(m.heap, o, label) IN IF s = 0 THEN Null ELSE m.heap[s].attrs[label]

\* The attribute of a value: what an object holds, or what the built-in prototypes give.
get_proto_attr(m, v, label) ==
  IF v.t = "obj" /\ label \in DOMAIN m.heap[v.n].attrs THEN m.heap[v.n].attrs[label]
  ELSE IF label \in {"bool?", "iter_", "next", "lt?", "eq?", "getCmp_", "add_", "not?"}
       THEN V("ext", label, 0) ELSE Null

has_proto(e, proto) == proto.v = "Exception" \/ e.v = proto.v

--------------------------------------------------------------------------------
(* Parameters. *)

\* map_params: the list of label and value pairs, filled from the actual parameters.
\* star and dstar collect what is left over.
FormList(elems) ==
  LET pairs == [i \in 1..Len(elems) \div 2 |-> <<elems[2 * i - 1], elems[2 * i]>>]
      plain == SelectSeq(pairs, LAMBDA p : p[2] \notin {ParamStar, ParamStarStar})
      named(k) == SelectSeq(pairs, LAMBDA p : p[2] = k)
  IN  [lv |-> plain, pos |-> 0, star |-> named(ParamStar), dstar |-> named(ParamStarStar),
       rest |-> <<>>, keys |-> NoAttrs, err |-> FALSE]

add_pos_param(ps, v) ==
  IF ps.pos < Len(ps.lv) THEN [ps EXCEPT !.lv[ps.pos + 1][2] = v, !.pos = @ + 1]
  ELSE IF ps.star = <<>> THEN [ps EXCEPT !.err = TRUE]
  ELSE [ps EXCEPT !.rest = Append(@, v)]

add_label_param(ps, label, v) ==
  LET at == {i \in ps.pos + 1..Len(ps.lv) : ps.lv[i][1].v = label}
      i  == CHOOSE i \in at : \A j \in at : i <= j
  IN  IF at # {} THEN [ps EXCEPT !.lv[i][2] = v]
      ELSE IF ps.dstar = <<>> THEN [ps EXCEPT !.err = TRUE]
      ELSE [ps EXCEPT !.keys = (label :> v) @@ @]

map_params(m, formals, actuals) ==
  LET one(ps, a) ==
        IF ps.err THEN ps
        ELSE IF a[1] = NoKey THEN add_pos_param(ps, a[2])
        ELSE IF a[1] = ParamStar THEN FoldLeft(add_pos_param, ps, m.heap[a[2].n].elems)
        ELSE add_label_param(ps, a[1].v, a[2])
      none_left(a) == a[1] = ParamStar /\ m.heap[a[2].n].elems = <<>>
  IN  IF formals = <<>>
      THEN [FormList(<<>>) EXCEPT !.err = \E i \in DOMAIN actuals : ~none_left(actuals[i])]
      ELSE FoldLeft(one, FormList(formals), actuals)

\* get_func_params: the parameters of a built-in; a missing one is an error.
get_func_params(m, formals, actuals) ==
  LET ps == map_params(m, formals, actuals)
  IN  [ps EXCEPT !.err = @ \/ \E i \in DOMAIN ps.lv : ps.lv[i][2] = NoDef]

\* get_frame_params: a parameter that still is its PARMPTR needs its default, which a
\* frame of its own computes; the call is run again afterwards (idx says how far it is).
\* A missing parameter is not an error here: the function sees NODEF.
NextDefault(fps, idx) ==
  LET at == {i \in idx + 2..Len(fps.lv) : fps.lv[i][2].t = "parmptr"}
  IN  IF at = {} THEN 0 ELSE CHOOSE i \in at : \A j \in at : i <= j

\* The locals of the call: every parameter, then the two that collect the rest.
SetLocals(m, fps, loc) ==
  LET m1 == IF fps.star = <<>> THEN m ELSE new_object(m, Entry(NoAttrs, 0, fps.rest))
      m2 == IF fps.dstar = <<>> THEN m1 ELSE new_object(m1, Entry(fps.keys, 0, <<>>))
      put(a, label, v) == (label :> v) @@ a
      plain == FoldLeft(LAMBDA a, p : put(a, p[1].v, p[2]), NoAttrs, fps.lv)
      star  == IF fps.star = <<>> THEN plain
               ELSE put(plain, fps.star[1][1].v, V("tuple", "", Newest(m1)))
      all   == IF fps.dstar = <<>> THEN star
               ELSE put(star, fps.dstar[1][1].v, V("dict", "", Newest(m2)))
  IN  [m2 EXCEPT !.heap[loc].attrs = all]

--------------------------------------------------------------------------------
(* Frames: entering one, leaving one, and what happens after every instruction. *)

\* The frame becomes the next one to run, called by the running one.
switch_to_new(m, frame) ==
  LET n  == Len(m.frames) + 1
      m1 == [m EXCEPT !.frames = Append(@, [frame EXCEPT !.prev = L(m).frame])]
  IN  SetL(SetF(m1, [F(m1) EXCEPT !.next = n]), [L(m1) EXCEPT !.sw = n])

\* Writing the top of a caller's empty stack writes the word below it, where the
\* frame keeps no_return_flag; what is there is not the null pointer.
SetTop(frame, v) ==
  IF frame.st = <<>> THEN [frame EXCEPT !.nrf = v # Null]
  ELSE [frame EXCEPT !.st[Len(frame.st)] = v]

do_return(m) ==
  LET f    == F(m)
      top  == tos(f)
      back == CASE f.prev = 0 \/ f.ccall -> m
                [] f.prev # 0 /\ ~f.ccall /\ m.frames[f.prev].nrf ->
                     [m EXCEPT !.frames[f.prev].nrf = FALSE]
                [] OTHER -> [m EXCEPT !.frames[f.prev] = SetTop(@, top)]
      m1   == IF f.prev = 0 THEN back ELSE [back EXCEPT !.frames[f.prev].next = 0]
      l    == [L(m1) EXCEPT !.sw = IF f.prev = 0 THEN DONE_FRAME ELSE f.prev,
                            !.free = IF f.gen = 0 THEN L(m1).frame ELSE @,
                            !.rv = IF f.ccall THEN top ELSE @]
      m2   == SetL(m1, l)
  IN  IF ~(f.pc > Len(Code(f).w) /\ sp(f) = 0) /\ sp(f) # 1 THEN raise(m, Atom("INTERNAL"))
      ELSE IF f.gen # 0 THEN raise(m2, StopIter) ELSE m2

\* return_flag = fr_ccall, unless the return raised an exception.
Return(m) ==
  LET m1 == do_return(m)
  IN  IF Excepted(m1) THEN m1 ELSE SetL(m1, [L(m1) EXCEPT !.ret = F(m1).ccall])

exstk_push(m, entry) ==
  LET m1 == SetF(m, [F(m) EXCEPT !.exs = Append(@, entry)])
  IN  SetL(m1, [L(m1) EXCEPT !.reg = entry, !.have = TRUE])

\* Pops the running frame's innermost try statement and loads the next one.
exstk_pop(m) ==
  LET m1  == SetF(m, [F(m) EXCEPT !.exs = SubSeq(@, 1, Len(@) - 1)])
      exs == F(m1).exs
  IN  SetL(m1, [L(m1) EXCEPT !.have = exs # <<>>,
                             !.reg = IF exs # <<>> THEN Last(exs) ELSE @])

ReloadNot(m) == m
Reload(m) ==
  LET exs == F(m).exs
  IN  SetL(m, [L(m) EXCEPT !.have = exs # <<>>, !.reg = IF exs # <<>> THEN Last(exs) ELSE @])

\* The head of the loop: a pc outside of a try statement leaves it; leaving a finally
\* by a jump goes to the finally and remembers the place in exc_final_return.
RECURSIVE LeaveTries(_)
LeaveTries(m) ==
  LET l == L(m)
      pc == F(m).pc
      m1 == IF l.reg.fin /\ pc # l.reg.ex
            THEN goto(SetL(m, [l EXCEPT !.fret = pc]), l.reg.ex) ELSE m
  IN  IF l.have /\ (pc <= l.reg.tr \/ pc >= l.reg.ex)
      THEN LeaveTries(exstk_pop(m1)) ELSE m

\* An exception frees frames up to one with a try statement, or up to the one that C
\* code called from.
RECURSIVE Unwind(_, _)
Unwind(m, last_ccall) ==
  LET l   == L(m)
      f   == F(m)
      m1  == [m EXCEPT !.frames[l.frame].dead = TRUE, !.frames[f.prev].next = 0,
                       !.heap = IF f.gen = 0 THEN @ ELSE [@ EXCEPT ![f.gen].gfr = 0],
                       !.ist.frame = f.prev]
      m2  == SetL(m1, [l EXCEPT !.frame = f.prev, !.have = m.frames[f.prev].exs # <<>>])
  IN  IF l.have \/ f.prev = 0 \/ last_ccall THEN m
      ELSE IF m.frames[f.prev].dead THEN Broken(m, "corrupt")
      ELSE Unwind(m2, f.ccall)

\* What the exec_loop that ended returns to: the C code that called it, which is an
\* instruction of the exec_loop below (get_item), or the end of the program.
LeaveLoop(m, v) ==
  IF Len(m.loops) > 1 THEN [m EXCEPT !.loops = SubSeq(@, 1, Len(@) - 1), !.ist.back = IF v = Null THEN V("void", "", 0) ELSE v]
  ELSE [m EXCEPT !.status = IF Excepted(m) THEN "uncaught" ELSE "done"]

OnException(m) ==
  LET m1 == Unwind(m, FALSE)
      \* registers other than exc_exc_loc stay those of the frame that raised
      ex == IF L(m1).frame = L(m).frame THEN L(m1).reg.ex ELSE Last(F(m1).exs).ex
      m2 == exstk_pop(goto(m1, ex))
      m3 == SetL(m2, [L(m2) EXCEPT !.wait = m2.ist.exc])
  IN  IF m1.status # "run" THEN m1
      ELSE IF L(m1).have THEN raise(m3, Null)
      ELSE LeaveLoop(m1, None)

\* A return out of a try statement runs its handler first.
HoldReturnNot(m) == m
HoldReturn(m) ==
  LET l  == L(m)
      m1 == SetL(goto(m, l.reg.ex), [l EXCEPT !.xfree = l.free, !.xsw = l.sw, !.free = 0, !.sw = 0])
  IN  IF l.free # 0 /\ l.have THEN exstk_pop(m1) ELSE m

FreeFrameNever(m) == m
FreeFrame(m) ==
  IF L(m).free = 0 THEN m
  ELSE IF m.frames[L(m).free].dead THEN Broken(m, "corrupt")
  ELSE [m EXCEPT !.frames[L(m).free].dead = TRUE]

RECURSIVE Innermost(_, _)
Innermost(m, f) == IF m.frames[f].next = 0 THEN f ELSE Innermost(m, m.frames[f].next)

SwitchFrame(m) ==
  LET l == L(m)
      f == Innermost(m, l.sw)
  IN  CASE l.sw = 0 -> m
        [] l.sw = DONE_FRAME -> SetL([m EXCEPT !.ist.frame = 0], [l EXCEPT !.frame = DONE_FRAME])
        [] OTHER -> IF m.frames[l.sw].dead \/ m.frames[f].dead THEN Broken(m, "corrupt")
                    ELSE Reload(SetL([m EXCEPT !.ist.frame = f], [l EXCEPT !.frame = f]))

\* endop
EndOp(m) ==
  LET m1 == SwitchFrame(FreeFrame(HoldReturn(m)))
      l  == L(m1)
  IN  IF m.status # "run" THEN m
      ELSE IF Excepted(m) THEN OnException(m)
      ELSE IF m1.status # "run" THEN m1
      ELSE IF l.ret \/ l.frame = DONE_FRAME THEN LeaveLoop(m1, l.rv)
      ELSE SetL(m1, [l EXCEPT !.sw = 0, !.free = 0])

\* break_loc: the next word, unless there is an exception or a default to compute.
Finish(m, word) ==
  EndOp(IF m.status = "run" /\ ~Excepted(m) /\ F(m).idx = -1
        THEN goto(m, F(m).pc + Width(word)) ELSE m)

--------------------------------------------------------------------------------
(* The instructions.  Each takes the machine, after the head of the loop, and the word. *)

NewObj(v, i) == V("obj", v, i)
AnswerOf(m) == IF Len(m.asked) < MaxAsk THEN m.answer ELSE FALSE
Ask(m) == IF Len(m.asked) < MaxAsk THEN [m EXCEPT !.asked = Append(@, m.answer)] ELSE m
Truth(b) == IF b THEN True ELSE False

StackOp(m, word) ==
  LET f == F(m)
      p == word.p
  IN  CASE word.op = "NOP" -> m
        [] word.op = "CLRSP" -> SetF(m, [f EXCEPT !.st = <<>>])
        [] word.op = "PUSH" -> pushAll(m, [i \in 1..p - 1 |-> DataAt(f, i)])
        [] word.op = "DUPLICATE" -> push(m, slot(f, -p, 0))
        [] word.op = "POP" -> LET m1 == drop(m, p)
                              IN  IF p = 0 THEN m ELSE SetL(m1, [L(m1) EXCEPT !.rv = slot(f, p, 0)])
        [] word.op = "SWAP" -> IF sp(f) < 2 THEN Broken(m, "underflow")
                               ELSE SetF(m, [f EXCEPT !.st[sp(f)] = slot(f, 2, 0),
                                                      !.st[sp(f) - 1] = slot(f, 1, 0)])
        \* a break or continue that belongs to no loop is a bad opcode
        [] word.op \in {"BREAK", "CONTINUE"} -> raise(m, Atom("INTERNAL"))
        [] word.op = "CHAIN_CMP" ->
             IF slot(f, 2, 1) # True THEN push(drop(m, 2), False)
             ELSE push(new_object(drop(m, 2), Entry("CMPVALOBJ_" :> slot(f, 2, 0), 0, <<>>)),
                       NewObj("True", Newest(m) + 1))

\* The reference instructions push the object that holds the attribute and a key.
RefOp(m, word) ==
  LET f == F(m)
      label == DataAt(f, 1)
  IN  CASE word.op = "PUSH_SELF" -> IF f.self = Null THEN raise(m, Atom("INTERPRETER"))
                                    ELSE push(m, f.self)
        [] word.op = "PUSH_CALLER" -> push(m, NewObj("", f.dyn))
        [] word.op = "PUSH_SELF_REF" -> IF f.self = Null THEN raise(m, Atom("INTERPRETER"))
                                        ELSE pushAll(m, <<f.self, label>>)
        [] word.op = "PUSH_CALLER_REF" -> pushAll(m, <<NewObj("", f.dyn), label>>)
        [] word.op = "PUSH_LOCAL_REF" -> pushAll(m, <<NewObj("", f.loc), V("local", label.v, 0)>>)
        [] word.op = "PUSH_OUTER_REF" -> pushAll(m, <<NewObj("", f.loc), V("outer", label.v, 0)>>)

\* call_func: the Prothon function runs in an exec_loop of its own.
call_func(m, func, self) ==
  LET m1 == new_object(m, Entry(NoAttrs, m.heap[func.n].prev, <<>>))
      n  == Len(m.frames) + 1
      fr == [create_frame(func.v, 1, self, Newest(m1), Newest(m1), m.ist.frame, TRUE) EXCEPT !.idx = -1]
  IN  [m1 EXCEPT !.frames = Append([@ EXCEPT ![m.ist.frame].next = n], fr),
                 !.ist.frame = n, !.loops = Append(@, exec_loop(n, fr))]

PropOf(m, obj, key) ==
  LET att == get_proto_attr(m, obj, key.v)
  IN  IF key.t = "sym" /\ att.t = "prop" /\ "get_" \in DOMAIN m.heap[att.n].attrs
      THEN m.heap[att.n].attrs["get_"] ELSE Null

\* get_item of an attribute that is no property.
get_item(m, obj, key) ==
  CASE key.t = "sym" -> get_proto_attr(m, obj, key.v)
    [] key.t = "local" -> get_scope_attr(m, obj.n, key.v)
    [] key.t = "outer" -> get_scope_attr(m, m.heap[obj.n].prev, key.v)
    [] OTHER -> Null

DerefOp(m) ==
  LET f   == F(m)
      obj == slot(f, 2, 0)
      key == slot(f, 2, 1)
      m1  == drop(m, 2)
      att == get_item(m, obj, key)
  IN  IF PropOf(m, obj, key) # Null THEN call_func(m1, PropOf(m, obj, key), obj)
      ELSE IF att # Null THEN push(m1, att)
      ELSE raise(m1, Atom(IF key.t = "sym" THEN "NAME" ELSE "INTERPRETER"))

\* set_item and del_item: a local key means the object itself, an outer key the first
\* scope around it that has the attribute.
Holder(m, obj, key) ==
  IF key.t = "outer" THEN ScopeOf(m.heap, m.heap[obj.n].prev, key.v) ELSE obj.n
set_item(m, obj, key, value) ==
  IF Holder(m, obj, key) = 0 THEN raise(m, Atom("INTERPRETER"))
  ELSE set_attr(m, Holder(m, obj, key), key.v, value)
del_item(m, obj, key) ==
  LET o == Holder(m, obj, key)
  IN  IF o = 0 THEN raise(m, Atom("INTERPRETER"))
      ELSE [m EXCEPT !.heap[o].attrs = [x \in DOMAIN @ \ {key.v} |-> @[x]]]

DelOp(m, word) == del_item(drop(m, 2), slot(F(m), 2, 0), slot(F(m), 2, 1))

AssignOp(m, word) ==
  LET f    == F(m)
      p    == word.p
      key(i)   == slot(f, 2 * p, 2 * i - 1)
      obj(i)   == slot(f, 2 * p, 2 * i - 2)
      list == slot(f, 2 * p + 1, 0)
      \* ASSIGN_EXP takes an outer key for the label itself
      label(i) == IF key(i).t = "outer" THEN "<outer>" ELSE key(i).v
      AssignAll(set(_, _, _), vals) == FoldLeft(LAMBDA a, i : set(a, i, vals[i]), drop(m, 2 * p), [i \in 1..p |-> i])
      items(a, i, v) == set_item(a, obj(i), key(i), v)
      attrs(a, i, v) == set_attr(a, obj(i).n, label(i), v)
  IN  IF word.op = "ASSIGN" THEN AssignAll(items, [i \in 1..p |-> slot(f, 3 * p, i - 1)])
      ELSE IF list.t = "tuple" /\ Len(m.heap[list.n].elems) = p THEN AssignAll(attrs, m.heap[list.n].elems)
      ELSE raise(drop(m, 2 * p), Atom("INTERPRETER"))

\* The targets of a for are names of the frame's locals.
SeqAssignOp(m, word) ==
  LET f     == F(m)
      p     == word.p
      list  == slot(f, p + 1, 0)
      elems == m.heap[list.n].elems
      name(i) == slot(f, p + 1, i).v
      m1    == drop(m, p + 1)
  IN  IF list.t = "tuple" /\ ~(Len(elems) > 1 /\ p = 1)
      THEN IF Len(elems) # p THEN raise(m1, Atom("INTERPRETER"))
           ELSE FoldLeft(LAMBDA a, i : set_attr(a, f.loc, name(i), elems[i]), m1, [i \in 1..p |-> i])
      ELSE IF p # 1 THEN raise(m1, Atom("INTERPRETER"))
      ELSE set_attr(m1, f.loc, name(1), list)

DataOp(m, word) ==
  LET f == F(m)
      p == word.p
      list == slot(f, -p, 0)
      NewSeq(t) == push(new_object(drop(m, p), Entry(NoAttrs, 0, SubSeq(f.st, sp(f) - p + 1, sp(f)))),
                        V(t, "", Newest(m) + 1))
  IN  CASE word.op = "NEWTUPLE" -> NewSeq("tuple")
        [] word.op = "NEWLIST" -> NewSeq("list")
        [] word.op = "APPEND" -> [drop(m, 1) EXCEPT !.heap[list.n].elems = Append(@, tos(f))]

\* DEF and GEN: the function object keeps its formal parameters (FPARAMS_) and the scope
\* it is defined in (PREVSCOPE_), and is stored under its name.
DefOp(m, word) ==
  LET f    == F(m)
      n    == 2 * DataAt(f, 1).n
      func == V(IF word.op = "GEN" THEN "gen" ELSE "func", DataAt(f, 2).v, Newest(m) + 1)
      m1   == new_object(drop(m, n + 2), Entry(NoAttrs, f.loc, SubSeq(f.st, sp(f) - n + 1, sp(f))))
  IN  set_item(m1, slot(f, n + 2, 0), slot(f, n + 2, 1), func)

TryOp(m, word) ==
  LET pc == F(m).pc
  IN  exstk_push(m, [fin |-> word.op = "TRYFINALLY", tr |-> pc, ex |-> pc + word.p])

\* RERAISE: the exception, or the return, that waited for the end of the finally.
ReraiseOpKeeps(m) ==
  LET l  == L(m)
      m1 == SetL(raise(m, l.wait), [l EXCEPT !.wait = Null, !.free = l.xfree, !.sw = l.xsw]) 
  IN  IF l.fret = 0 THEN m1 ELSE SetF(m1, [F(m1) EXCEPT !.pc = l.fret, !.st = <<>>])
ReraiseOp(m) ==
  LET l  == L(m)
      m1 == SetL(raise(m, l.wait), [l EXCEPT !.wait = Null, !.free = l.xfree, !.sw = l.xsw,
                                             !.xfree = 0, !.xsw = 0])
  IN  IF l.fret = 0 THEN m1 ELSE SetF(m1, [F(m1) EXCEPT !.pc = l.fret, !.st = <<>>])

ExceptMatches(m) ==
  LET proto == slot(F(m), 2, 0)
      wait  == L(m).wait
  IN  IF proto.t = "tuple" THEN \E i \in DOMAIN m.heap[proto.n].elems :
                                  has_proto(wait, m.heap[proto.n].elems[i])
      ELSE has_proto(wait, proto)
ExceptOp(m) ==
  LET label == tos(F(m))
      m1 == drop(SetL(m, [L(m) EXCEPT !.wait = Null]), 2)
  IN  IF L(m).wait = Null THEN raise(m, Atom("INTERNAL"))
      ELSE IF label \in {Null, None} THEN m1
      ELSE set_attr(m1, F(m).loc, label.v, L(m).wait)

RaiseOp(m) == raise(drop(m, 2), slot(F(m), 2, 0))

\* YIELD: the value goes to the frame that asked the generator for it.
RECURSIVE GenFrame(_, _)
GenFrame(m, f) == IF f = 0 \/ m.frames[f].gen # 0 THEN f ELSE GenFrame(m, m.frames[f].prev)
YieldOp(m) ==
  LET g  == GenFrame(m, L(m).frame)
      v  == tos(F(m))
      to == m.frames[g].prev
      m1 == drop([m EXCEPT !.frames[to] = [SetTop(@, v) EXCEPT !.next = 0]], 1)
      l  == [L(m1) EXCEPT !.sw = to, !.rv = v]
  IN  IF g = 0 THEN raise(m, Atom("INTERPRETER"))
      ELSE SetL(m1, [l EXCEPT !.ret = F(m1).ccall])

\* EXEC, OBJ, PROP and WITH run code in a frame with the locals given; the last three
\* leave no value.
ExecOp(m) ==
  LET m1 == drop(m, 1)
      f  == F(m1)
  IN  switch_to_new(m1, create_frame(tos(F(m)).v, 1, f.self, f.dyn, f.loc, 0, FALSE))

RunWith(m, unit, obj) ==
  LET f  == F(m)
      m1 == [SetF(m, [f EXCEPT !.nrf = TRUE]) EXCEPT !.heap[obj].prev = f.loc]
  IN  switch_to_new(m1, create_frame(unit, 1, f.self, f.dyn, obj, 0, FALSE))

WithOp(m, word) ==
  LET f  == F(m)
      n  == IF word.op = "OBJ" THEN 2 * (DataAt(f, 2).n + 1) ELSE 2
      m1 == new_object(drop(m, n), Entry(NoAttrs, 0, <<>>))
      v  == V(IF word.op = "PROP" THEN "prop" ELSE "obj", "", Newest(m1))
      lacks == \E i \in 2..(n \div 2) :
                 get_item(m, slot(f, n, 2 * i - 2), slot(f, n, 2 * i - 1)) = Null
  IN  IF word.op = "WITH" THEN RunWith(drop(m, 1), DataAt(f, 1).v, tos(f).n)
      ELSE IF lacks THEN raise(drop(m, n), Atom("NAME"))
      ELSE RunWith(set_attr(m1, slot(f, n, 0).n, slot(f, n, 1).v, v), DataAt(f, 1).v, v.n)

BindOp(m, word) ==
  LET f    == F(m)
      n    == IF word.op = "BIND" THEN 3 ELSE 2
      last == slot(f, n, n - 1)
      func == IF word.op = "BIND" THEN get_item(m, slot(f, n, 0), slot(f, n, 1)) ELSE slot(f, n, 0)
      to   == IF last # Null THEN last ELSE IF word.op = "BIND" THEN slot(f, n, 0) ELSE f.self
      m1   == new_object(drop(m, n), [m.heap[func.n] EXCEPT !.attrs = ("BINDOBJ_" :> to) @@ @])
  IN  push(m1, [func EXCEPT !.n = Newest(m1)])

--------------------------------------------------------------------------------
(* Calls. *)

\* The built-in functions: emit prints; the others are methods of every value.
CallC(m, name, self, args) ==
  LET one == <<Sym("x"), NoDef>>
      ps  == get_func_params(m, IF name \in {"emit", "lt?", "eq?", "add_"} THEN one ELSE <<>>, args)
      asks == name \in {"lt?", "eq?"} \/ (name = "bool?" /\ self = Atom("?"))
  IN  IF ps.err THEN raise(m, Atom("INTERPRETER"))
      ELSE CASE name = "emit" -> push([m EXCEPT !.out = Append(@, ps.lv[1][2].v)], None)
             [] asks -> push(Ask(m), Truth(AnswerOf(m)))
             [] name = "bool?" /\ ~asks -> push(m, Truth(self \notin {False, None}))
             [] name = "not?" -> push(m, Truth(self = False))
             [] name = "iter_" -> push(m, IF self.t = "gen" THEN self ELSE Atom("it"))
             [] name = "next" -> IF AnswerOf(m) THEN push(Ask(m), Atom("v")) ELSE raise(Ask(m), StopIter)
             [] name = "getCmp_" -> push(m, m.heap[self.n].attrs["CMPVALOBJ_"])
             [] name = "add_" -> push(m, Atom("sum"))

\* A default that its frame has computed goes to its parameter.
TakeDefault(m) ==
  LET f == F(m)
  IN  IF f.idx < 0 THEN m
      ELSE drop(SetF(m, [f EXCEPT !.fps.lv[f.idx + 1][2] = tos(f)]), 1)

\* get_frame_params and the frame of the call.  n words of the call are on the stack,
\* the last 2 * word.p of them the parameters.
Enter(m, word, func, self, n) ==
  LET f     == F(m)
      base  == sp(f) - 2 * word.p
      args  == [i \in 1..word.p |-> <<f.st[base + 2 * i - 1], f.st[base + 2 * i]>>]
      elems == m.heap[func.n].elems
      m1    == IF f.idx >= 0 THEN m
               ELSE LET new == new_object(m, Entry(NoAttrs, 0, <<>>))
                    IN  SetF(new, [f EXCEPT !.fps = map_params(m, elems, args), !.nloc = Newest(new)])
      fps   == F(m1).fps
      loc   == F(m1).nloc
      k     == NextDefault(fps, f.idx)
      scope == m.heap[func.n].prev
      m2    == drop(SetF(SetLocals(m1, fps, loc), [F(m1) EXCEPT !.idx = -1]), n)
      m3    == [m2 EXCEPT !.heap[loc].prev = scope]
  IN  IF fps.err THEN raise(drop(m1, n), Atom("INTERPRETER"))
      ELSE IF k # 0
      THEN push(switch_to_new(SetF(m1, [F(m1) EXCEPT !.idx = k - 1]),
                  create_frame(func.v, fps.lv[k][2].n + 1, Null, loc, scope, 0, FALSE)), None)
      ELSE IF func.t = "func"
      THEN push(switch_to_new(m3, create_frame(func.v, 1, self, f.loc, loc, 0, FALSE)), None)
      ELSE LET gf == [create_frame(func.v, 1, Null, f.loc, loc, 0, FALSE) EXCEPT
                        !.gen = IF n = 2 + 2 * word.p THEN func.n ELSE 0]
           IN  push([m3 EXCEPT !.frames = Append(@, gf), !.heap[func.n].gfr = Len(m3.frames) + 1], func)

\* name: what the call finds, self: what it is called on, hdr: the words before the
\* parameters.
Call(m, word, func, self, hdr) ==
  LET f    == F(m)
      n    == hdr + 2 * word.p
      bind == IF func.t \in {"func", "gen"} /\ "BINDOBJ_" \in DOMAIN m.heap[func.n].attrs
              THEN m.heap[func.n].attrs["BINDOBJ_"] ELSE Null
      obj  == IF hdr = 3 THEN slot(f, n, 0) ELSE Null
      who  == CASE self # Null -> self
                [] self = Null /\ bind # Null -> bind
                [] self = Null /\ bind = Null /\ obj # Null -> obj
                [] OTHER -> IF f.self # Null THEN f.self ELSE NewObj("", 1)
      args == [i \in 1..word.p |-> <<slot(f, 2 * word.p, 2 * i - 2), slot(f, 2 * word.p, 2 * i - 1)>>]
  IN  CASE func.t = "ext" -> CallC(drop(m, n), func.v, who, args)
        [] func.t \in {"func", "gen"} -> Enter(m, word, func, who, n)
        [] OTHER -> raise(drop(m, n), Atom("FUNCNOTFOUND"))

\* "next" of a generator goes on with its frame.
Resume(m, n, gen) ==
  LET g  == m.heap[gen.n].gfr
      m1 == SetF(m, [F(m) EXCEPT !.next = g])
      m2 == SetL([m1 EXCEPT !.frames[g].prev = L(m).frame], [L(m1) EXCEPT !.sw = g])
  IN  IF g = 0 THEN raise(drop(m, n), Atom("TYPE")) ELSE push(drop(m2, n), None)

CallOp(m0, word) ==
  LET m   == TakeDefault(m0)
      f   == F(m)
      n   == 3 + 2 * word.p
      obj == slot(f, n, 0)
      key == slot(f, n, 1)
      func == get_item(m, obj, key)
      old  == IF func.t = "gen" THEN m.heap[func.n].gfr ELSE 0
      marked == SetF([m EXCEPT !.frames[old].gen = func.n], [f EXCEPT !.next = old])
  IN  IF m.status # "run" THEN m
      ELSE IF sp(f) < n THEN Broken(m, "underflow")
      ELSE IF key = Sym("next") /\ obj.t = "gen" THEN Resume(m, n, obj)
      \* a generator called as a method: its frame is taken for created already
      ELSE IF func.t = "gen" /\ old = 0 THEN Broken(m, "corrupt")
      ELSE Call(IF old = 0 THEN m ELSE marked, word, func, slot(f, n, 2), 3)

\* A command that is no command: alone it is a value, with parameters an error.
ObjCallOp(m0, word) ==
  LET m    == TakeDefault(m0)
      f    == F(m)
      n    == 2 + 2 * word.p
      func == slot(f, n, 0)
      command == func.t \in {"func", "gen"} /\ "COMMAND_" \in DOMAIN m.heap[func.n].attrs
  IN  IF m.status # "run" THEN m
      ELSE IF sp(f) < n THEN Broken(m, "underflow")
      ELSE IF word.op = "CMDCALL" /\ ~command
      THEN IF word.p = 0 THEN drop(m, 1) ELSE raise(drop(m, n), Atom("COMMAND"))
      ELSE Call(m, word, func, slot(f, n, 1), 2)

--------------------------------------------------------------------------------
(* The specification: one action per kind of instruction. *)

Globals == Entry("emit" :> V("ext", "emit", 0), 0, <<>>)

Init ==
  /\ \E c \in LET programs == Programs
               IN  {<<i, programs[i]>> : i \in DOMAIN programs} :
       prog = c[2] /\ code = CodeOf(prog)
  /\ frames = <<create_frame("main", 1, Null, 1, 1, 0, TRUE)>>
  /\ ist = [frame |-> 1, exc |-> Null, back |-> Null]
  /\ loops = <<exec_loop(1, frames[1])>>
  /\ heap = <<Globals>>
  /\ out = <<>> /\ asked = <<>> /\ status = "run"

Running == status = "run" /\ ist.back = Null

\* The machine after the head of the loop; how far the program is.
Here(answer) == LeaveTries(Machine(answer))
AtEnd(m) == F(m).pc > Len(Code(F(m)).w)
OpIs(ops) == Running /\ ~AtEnd(Here(FALSE)) /\ Word(F(Here(FALSE))).op \in ops

Do(Instr(_, _)) ==
  LET m == Here(FALSE)
      w == Word(F(m))
  IN  Become(IF sp(F(m)) > Code(F(m)).max THEN Broken(m, "overflow") ELSE Finish(Instr(m, w), w))

Stack == OpIs({"NOP", "CLRSP", "PUSH", "DUPLICATE", "POP", "SWAP", "CHAIN_CMP", "BREAK", "CONTINUE"})
         /\ Do(StackOp)
Ref == OpIs({"PUSH_SELF", "PUSH_CALLER", "PUSH_SELF_REF", "PUSH_CALLER_REF", "PUSH_LOCAL_REF",
             "PUSH_OUTER_REF"}) /\ Do(RefOp)
Assign == OpIs({"ASSIGN", "ASSIGN_EXP"}) /\ Do(AssignOp)
SeqAssign == OpIs({"SEQ_ASSIGN"}) /\ Do(SeqAssignOp)
Data_ == OpIs({"NEWTUPLE", "NEWLIST", "APPEND"}) /\ Do(DataOp)
Def == OpIs({"DEF", "GEN"}) /\ Do(DefOp)
Del == OpIs({"DEL"}) /\ Do(DelOp)
Try == OpIs({"TRYFINALLY", "TRYEXCEPT"}) /\ Do(TryOp)
Reraise == OpIs({"RERAISE"}) /\ Do(LAMBDA m, w : ReraiseOp(m))
Raise == OpIs({"RAISE"}) /\ Do(LAMBDA m, w : RaiseOp(m))
Yield == OpIs({"YIELD"}) /\ Do(LAMBDA m, w : YieldOp(m))
Return_ == OpIs({"RETURN"}) /\ Do(LAMBDA m, w : Return(m))
With == OpIs({"OBJ", "PROP", "WITH"}) /\ Do(WithOp)
Exec == OpIs({"EXEC"}) /\ Do(LAMBDA m, w : ExecOp(m))
Bind == OpIs({"BIND", "OBJBIND"}) /\ Do(BindOp)
ObjCall == OpIs({"OBJCALL", "CMDCALL"}) /\ Do(ObjCallOp)

\* A read that is a property leaves this exec_loop until the property's has returned.
Deref ==
  /\ OpIs({"DEREF"})
  /\ LET m  == Here(FALSE)
         m1 == DerefOp(m)
     IN  Become(IF Len(m1.loops) > Len(m.loops) THEN m1 ELSE Finish(m1, Word(F(m))))
CallReturns ==
  /\ status = "run" /\ ist.back # Null
  /\ LET m  == [Machine(FALSE) EXCEPT !.ist.back = Null]
         m1 == IF Excepted(m) THEN m
               ELSE IF ist.back = V("void", "", 0) THEN raise(m, Atom("INTERPRETER"))
               ELSE push(m, ist.back)
     IN  Become(IF F(m).dead THEN Broken(m, "corrupt") ELSE Finish(m1, I("DEREF", 0)[1]))

CallFunc ==
  /\ OpIs({"CALL"})
  /\ \E answer \in BOOLEAN :
       LET m == Here(answer) IN Become(Finish(CallOp(m, Word(F(m))), Word(F(m))))

\* The jumps go on with the head of the loop.
Jump ==
  /\ OpIs({"BR", "BEQ"})
  /\ LET m == Here(FALSE)
         w == Word(F(m))
     IN  Become(IF w.op = "BR" \/ tos(F(m)) = DataAt(F(m), 1) THEN goto(m, F(m).pc + w.p)
                ELSE Finish(m, w))
Except ==
  /\ OpIs({"EXCEPT"})
  /\ LET m == Here(FALSE)
         w == Word(F(m))
     IN  Become(IF L(m).wait # Null /\ ~ExceptMatches(m) THEN goto(drop(m, 2), F(m).pc + w.p)
                ELSE Finish(ExceptOp(m), w))

\* The code of a module, an object or a string ends without a RETURN.
RanOff ==
  /\ Running /\ AtEnd(Here(FALSE))
  /\ Become(EndOp(Return(Here(FALSE))))

Step ==
  \/ Stack \/ Ref \/ Assign \/ SeqAssign \/ Data_ \/ Def \/ Del \/ Try \/ Reraise \/ Raise
  \/ Yield \/ Return_ \/ With \/ Exec \/ Bind \/ ObjCall \/ Deref \/ CallReturns
  \/ CallFunc \/ Jump \/ Except \/ RanOff
Finished == status # "run" /\ UNCHANGED vars
Next == Step \/ Finished

\* The thread that runs the program goes on: WF_vars(Step), with the condition that Step
\* is enabled written out.
Fairness == []<>(status # "run") \/ []<><<TRUE>>_vars
Spec == Init /\ [][Next]_vars /\ Fairness
================================================================================

----------------------------- MODULE MCProsist ------------------------------
(***************************************************************************)
(* The store on graphs of at most four objects.                            *)
(***************************************************************************)
EXTENDS Prosist

Leaf == Object("object", <<>>)
Heap(a, b, c, d) == 0 :> a @@ 1 :> b @@ 2 :> c @@ 3 :> d
MCGraphs ==
  {Heap(Object("object", <<1, 2>>), Object("object", <<2>>), Leaf, Leaf),
   Heap(Object("dict", <<1>>), Object("object", <<2>>), Leaf, Object("named", <<>>)),
   Heap(Object("object", <<1, 3>>), Object("list", <<2>>), Leaf, Object("named", <<>>)),
   Heap(Object("object", <<1>>), Object("dict", <<2>>), Leaf, Object("unclonable", <<>>)),
   Heap(Object("object", <<1>>), Leaf, Object("unstorable", <<>>), Object("dict", <<>>)),
   Heap(Object("object", <<1, 2>>), Object("list", <<2>>), Object("value", <<>>), Leaf),
   Heap(Object("dict", <<1, 1>>), Object("object", <<3>>), Leaf, Object("value", <<>>))}

-----------------------------------------------------------------------------
\* A dictionary that more than one reference leads to, or the root one does.
References(c, id) == Cardinality({<<a, k>> \in (DOMAIN c) \X (1..2) :
                       c[a] # None /\ k \in DOMAIN c[a].refs /\ c[a].refs[k] = id})
SharedDict == \E id \in DOMAIN committed :
                /\ committed[id] # None /\ committed[id].kind = "dict"
                /\ References(committed, id) + (IF id = 0 THEN 1 ELSE 0) > 1
\* A value or a list that more than one reference leads to: append_load_ids may list its
\* id twice.
SharedImmutable == \E id \in DOMAIN committed :
                     /\ committed[id] # None /\ committed[id].kind \in {"value", "list"}
                     /\ References(committed, id) > 1
Saved(o) == Stored(State, o)
ByAttributes ==
  Reached([o \in Obj |-> IF Saved(o) = None \/ Saved(o).kind = "object" THEN Saved(o)
                         ELSE Object(Saved(o).kind, <<>>)])

\* What is in memory after the store was opened is what commit, or the creation of the
\* store, stored last, in kinds and references (commit_db, load_db); the store is lost or
\* refused only where commit was stopped half-way (damaged: a crash or an exception while
\* records were written, or a file written beside another one's archived bits), or where
\* what was stored has an immutable object that several references lead to.  After
\* rollBack it is so for each object that attributes alone lead to (rollback_db).  Exempt
\* are: a store with a dictionary that several references lead to, which load_obj makes
\* twice, a commit that failed before the rollBack (torn), and a rollBack that reads the
\* freed memory of a list or of an object that was rolled back before (how = "freed").
Restores ==
  /\ call.pc \in {"open", "stale"} /\ call.how = "opened" /\ ~damaged /\ ~SharedDict
       => ById(heap, ids) = committed
  /\ call.pc = "lost" => damaged \/ committed = <<>>
  /\ call.pc = "refused" => damaged \/ SharedImmutable
  /\ call.pc = "open" /\ call.how = "rolledBack" /\ ~damaged /\ ~torn =>
       \A o \in ByAttributes :
         committed[ids[o]] = Object(heap[o].kind, [k \in DOMAIN heap[o].refs |->
                                                     ids[heap[o].refs[k]]])

\* The opposite of what happens, checked alone: a store that was committed undisturbed
\* can be opened again (pr/pretest/prosist.pr compares the root of the opened store with
\* the one committed).  It cannot if a string or an int, or a list, is referred to twice.
Reopens == call.how = "opened" /\ ~damaged => call.pc # "refused"

\* Objects that more than one way leads to, in what was stored.
Incoming(c, o) == Cardinality({<<a, k>> \in Obj \X (1..2) :
                    a \in Reached(c) /\ c[a] # None /\ k \in DOMAIN c[a].refs /\ c[a].refs[k] = o})
                  + (IF o = Root THEN 1 ELSE 0)
Saves == [o \in Obj |-> Saved(o)]
Multi == ReachedFrom(Saves, {o \in Reached(Saves) : Incoming(Saves, o) > 1})

\* A call that returns has given back its read locks, but for commit, which keeps those of
\* exactly the mutable objects that more than one way leads to (append_refs locks an object each
\* time it is met, unlock_objects unlocks it once); rollBack may miscount only those.
LocksReturned ==
  call.pc = "open" =>
    LET held == {o \in Obj : kept[o] # 0}
    IN /\ call.how = "created" => held = {}
       /\ call.how = "committed" => held = {o \in Multi : proxies[o] # None} \ immutable
       /\ call.how = "rolledBack" => held \subseteq Multi

\* commit and rollBack end, unless an object leads to itself; creation always ends.
GrowsOnlyOnCycles ==
  call.pc = "grows" =>
    /\ call.mode # "create"
    /\ \E o \in Reached(heap) : o \in ReachedFrom(heap, ToSet(heap[o].refs))
=============================================================================

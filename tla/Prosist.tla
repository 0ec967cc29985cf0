------------------------------ MODULE Prosist -------------------------------
(***************************************************************************)
(* The object store of modules/Prosist/Prosist.c: a file that keeps what   *)
(* the root object refers to, with commit, rollBack and a crash at any     *)
(* point.  Objects are addresses; an address is found again in the         *)
(* dictionaries of the store (their addresses lie below 2^31).             *)
(*                                                                         *)
(* Kinds of objects: those with attributes, lists, dictionaries, values    *)
(* (short strings, ints), objects with an id_ that are stored by name,     *)
(* unclonable ones (files, threads), and unstorable ones, whose data is    *)
(* neither a sequence nor a string.  Values are immutable, and so is a     *)
(* list that was loaded.  Prototypes are objects with an id_ and not shown.*)
(***************************************************************************)
EXTENDS Integers, Sequences, FiniteSetsExt, SequencesExt

CONSTANTS MaxObj,        \* addresses and ids are 0..MaxObj
          Graphs,        \* the objects before the first call
          MaxRefs,       \* bound on the list of objects to be stored
          MaxEdits,      \* bound on changes by the program
          None

VARIABLES heap,                 \* objects: kind and references
          archived, immutable,  \* the objects that have the bit set
          ids, nextid, proxies, \* obj_to_id, nextid and obj_to_proxy of psrec_t
          recs, storedNext,     \* the file: records by id, and "!nextid"
          call,                 \* the call that is running, or the last one
          kept,                 \* read locks it has taken and not given back
          edits,                \* changes so far
          committed, torn, damaged  \* what was stored last, and known damage
objects == <<heap, archived, immutable>>
psrec == <<ids, nextid, proxies>>
file == <<recs, storedNext>>
notes == <<committed, torn, damaged>>

Obj == 0..MaxObj
Root == 0
Nothing == [o \in Obj |-> None]
Object(kind, refs) == [kind |-> kind, refs |-> refs]
PSNONE == None

\* The objects, reached from the root, by their ids.
RECURSIVE ReachedFrom(_, _)
ReachedFrom(c, S) ==
  LET T == S \cup UNION {ToSet(c[o].refs) \cap Obj : o \in {p \in S : c[p] # None}}
  IN IF T = S THEN S ELSE ReachedFrom(c, T)
Reached(c) == ReachedFrom(c, {Root})
IdOf(f, o) == IF o = None THEN None ELSE f[o]
ById(c, f) ==
  LET R == Reached(c)
  IN [id \in {f[o] : o \in R} |->
        LET o == CHOOSE p \in R : f[p] = id
        IN IF c[o] = None THEN None
           ELSE Object(c[o].kind, [k \in DOMAIN c[o].refs |-> IdOf(f, c[o].refs[k])])]

-----------------------------------------------------------------------------
(* append_refs, on s: the state it changes, and the list of objects. *)

\* The proxy of a list has the memory of the list; that of an object shares the
\* attributes with it once the object was repaired from it.
toStorProxy_(o, c) == [kind |-> c.kind, refs |-> c.refs, shared |-> c.kind = "list"]
ProxyRefs(s, o) == IF s.proxies[o].shared THEN s.heap[o].refs ELSE s.proxies[o].refs
Stored(s, o) == IF s.heap[o].kind = "named" THEN s.heap[o]
                ELSE IF s.proxies[o] = None THEN None
                ELSE Object(s.proxies[o].kind, ProxyRefs(s, o))

\* Mutant: hands out the id that the object before it was given.
GivenLast(s, o) == IF s.ids[o] # None THEN s
                   ELSE [s EXCEPT !.ids[o] = IF s.nextid > 1 THEN s.nextid - 1 ELSE s.nextid,
                                  !.nextid = @ + 1]
Given(s, o) == IF s.ids[o] # None THEN s
               ELSE [s EXCEPT !.ids[o] = s.nextid, !.nextid = @ + 1]
\* Immutable objects are not locked.
Locked(s, o) == IF o \in immutable THEN s
                ELSE [s EXCEPT !.kept[o] = @ + 1, !.pushed[o] = @ + 1]
Raise(s) == [s EXCEPT !.how = "raised"]
\* Mutant: puts what a reference leads to on the list by its key and by its value.
ReferredTwice(s, o, all) ==
  LET Followed(r) == s.heap[r].kind # "unclonable" /\ (all \/ s.ids[r] = None)
      refs == SelectSeq(ProxyRefs(s, o), Followed)
  IN [s EXCEPT !.list = @ \o refs \o refs]
\* The references of the proxy are put at the end of the list.
Referred(s, o, all) ==
  LET Followed(r) == s.heap[r].kind # "unclonable" /\ (all \/ s.ids[r] = None)
  IN [s EXCEPT !.list = @ \o SelectSeq(ProxyRefs(s, o), Followed)]
\* Where the proxy shares memory with the object, the object's memory is freed
\* before it is copied from.
Repaired(s, o) ==
  LET p == s.proxies[o]
      t == [s EXCEPT !.heap[o] = Object(p.kind, p.refs), !.archived = @ \ {o},
                     !.proxies[o].shared = p.kind = "object" /\ p.refs # <<>>]
  IN IF p.shared THEN [s EXCEPT !.how = "freed"]
     ELSE Locked([t EXCEPT !.kept[o] = 0], o)     \* the count is overwritten
append_refs(s, i, all, rback) ==
  LET o == s.list[i]
      known == s.ids[o] # None
      skipped == [s EXCEPT !.list[i] = PSNONE]
      locked == Locked(s, o)
      given == Given(locked, o)
      named == Given(skipped, o)
      proxied == [given EXCEPT !.proxies[o] = toStorProxy_(o, s.heap[o])]
  IN CASE ~all /\ known -> skipped
       [] s.heap[o].kind = "named" ->
            IF known THEN skipped
            ELSE [named EXCEPT !.recs[named.ids[o]] = Object("named", <<>>)]
       [] known /\ rback /\ s.heap[o].kind # "named" ->
            IF s.proxies[o] = None THEN Raise(locked)
            ELSE LET t == IF o \in s.archived THEN locked ELSE Repaired(locked, o)
                 IN IF t.how = "freed" \/ s.heap[o].kind # "object" THEN t
                    ELSE Referred(t, o, all)  \* the items of a sequence are not followed
       [] s.heap[o].kind = "unstorable" ->
            Raise([locked EXCEPT !.nextid = IF known THEN @ ELSE @ + 1])
       [] OTHER -> Referred(proxied, o, all)

State == [heap |-> heap, archived |-> archived, ids |-> ids, nextid |-> nextid,
          proxies |-> proxies, recs |-> recs, kept |-> kept, pushed |-> kept,
          list |-> call.list, how |-> call.how]
Becomes(s) == /\ heap' = s.heap /\ archived' = s.archived
              /\ ids' = s.ids /\ nextid' = s.nextid /\ proxies' = s.proxies
              /\ recs' = s.recs /\ kept' = s.kept
\* Mutant: starts after the first object.
unlock_objectsButFirst == [o \in Obj |-> IF proxies[o] # None /\ o \notin immutable /\ ids[o] # 0
                                        THEN kept[o] - 1 ELSE kept[o]]
\* One read lock for each object with a proxy; nothing while an exception is raised.
unlock_objects == [o \in Obj |-> IF proxies[o] # None /\ o \notin immutable
                                 THEN kept[o] - 1 ELSE kept[o]]
\* One for each place in the list, as long as the thread holds one.
unlock_list(s) ==
  LET Places(o) == Cardinality({k \in DOMAIN s.list : s.list[k] = o})
  IN [o \in Obj |-> s.kept[o] - Min({s.pushed[o], Places(o)})]

-----------------------------------------------------------------------------
(* store_new_db and commit_db, with a step for each object.  *)

Running == call.pc \in {"collect", "store"}
NoLocks == [o \in Obj |-> 0]
Step(pc, mode, list) == [pc |-> pc, mode |-> mode, list |-> list, i |-> 1, how |-> "runs"]
Ends(pc, how) == [Step(pc, "none", <<>>) EXCEPT !.how = how]

\* init_ with a root, RWTRUNCATE.  The archived bits of another file are still set.
Create ==
  /\ call.pc = "closed" /\ heap # Nothing
  /\ call' = Step("collect", "create", <<Root>>)
  /\ ids' = Nothing /\ proxies' = Nothing /\ nextid' = 0
  /\ recs' = Nothing /\ storedNext' = None
  /\ kept' = NoLocks
  /\ torn' = TRUE /\ damaged' = FALSE
  /\ UNCHANGED <<objects, edits, committed>>

Commit ==
  /\ call.pc = "open"
  /\ call' = Step("collect", "commit", <<Root>>)
  /\ proxies' = Nothing /\ kept' = NoLocks /\ torn' = TRUE
  /\ UNCHANGED <<objects, ids, nextid, file, edits, committed, damaged>>

\* The exception leaves the objects locked; a file that was to be created stays behind.
Raises == call' = Ends(IF call.mode = "create" THEN "closed" ELSE "open", "raised")
Collect ==
  /\ call.pc = "collect" /\ call.i \in DOMAIN call.list
  /\ nextid \in Obj \/ ids[call.list[call.i]] # None    \* bound on the ids
  /\ LET s == append_refs(State, call.i, call.mode = "commit", FALSE)
     IN /\ Becomes(s)
        /\ IF s.how = "raised" THEN Raises
           ELSE call' = [call EXCEPT !.list = s.list, !.i = @ + 1,
                                     !.pc = IF Len(s.list) > MaxRefs THEN "grows" ELSE @]
        /\ damaged' = (damaged \/ (s.how = "raised" /\ call.mode = "create"))
  /\ UNCHANGED <<immutable, storedNext, edits, committed, torn>>
Collected ==
  /\ call.pc = "collect" /\ call.i \notin DOMAIN call.list
  /\ call' = [call EXCEPT !.pc = "store", !.i = 1]
  /\ UNCHANGED <<objects, psrec, file, kept, edits, notes>>

\* For an object that has no id, obj_to_id raises, and 0 is written; -1 for what follows.
NoId(o) == {k \in DOMAIN Stored(State, o).refs : ids[Stored(State, o).refs[k]] = None}
Record(o) == LET refs == Stored(State, o).refs
                 After(k) == \E j \in NoId(o) : j < k
             IN Object(proxies[o].kind, [k \in DOMAIN refs |-> IF After(k) THEN -1
                                         ELSE IF k \in NoId(o) THEN 0 ELSE ids[refs[k]]])
store_obj(o) ==
  IF o = PSNONE \/ o \in archived THEN UNCHANGED <<recs, archived>>
  ELSE recs' = [recs EXCEPT ![ids[o]] = Record(o)] /\ archived' = archived \cup {o}
Store ==
  /\ call.pc = "store" /\ call.i \in DOMAIN call.list
  /\ LET o == call.list[call.i]
         raises == o # PSNONE /\ o \notin archived /\ NoId(o) # {}
         \* archived in another file only
         absent == o # PSNONE /\ o \in archived /\ recs[ids[o]] = None
     IN /\ store_obj(o)
        /\ IF raises THEN Raises ELSE call' = [call EXCEPT !.i = @ + 1]
        /\ damaged' = (damaged \/ raises \/ absent)
  /\ UNCHANGED <<heap, immutable, psrec, storedNext, kept, edits, committed, torn>>
Finish ==
  /\ call.pc = "store" /\ call.i \notin DOMAIN call.list
  /\ kept' = unlock_objects
  /\ storedNext' = nextid
  /\ call' = Ends("open", IF call.mode = "create" THEN "created" ELSE "committed")
  /\ committed' = ById([o \in Obj |-> Stored(State, o)], ids)
  /\ torn' = FALSE
  /\ UNCHANGED <<objects, psrec, recs, edits, damaged>>

(* rollback_db: the objects are taken back to their proxies, one after the other. *)
RECURSIVE RolledBack(_, _)
RolledBack(s, i) ==
  IF i \notin DOMAIN s.list \/ s.how # "runs" THEN s
  ELSE IF i > MaxRefs THEN [s EXCEPT !.how = "grows"]
  ELSE RolledBack(append_refs(s, i, TRUE, TRUE), i + 1)
rollBack ==
  /\ call.pc = "open"
  /\ LET s == RolledBack([State EXCEPT !.list = <<Root>>, !.how = "runs", !.kept = NoLocks,
                                       !.pushed = NoLocks], 1)
         how == IF s.how = "runs" THEN "rolledBack" ELSE s.how
     IN /\ Becomes([s EXCEPT !.kept = unlock_list(s)])
        /\ call' = Ends(IF how \in {"freed", "grows"} THEN how ELSE "open", how)
  /\ UNCHANGED <<immutable, storedNext, edits, notes>>

-----------------------------------------------------------------------------
(* load_db, on the records of the file. *)

RecordOf(id) == IF id \in Obj THEN recs[id] ELSE None
\* append_load_ids: an id that has no object yet is put at the end of the list.
append_load_ids(s, id) ==
  LET known == s.known \cup {id}
      new == SelectSeq(recs[id].refs, LAMBDA r : r \notin known)
  IN IF id \in s.known \/ RecordOf(id) = None THEN s
     ELSE [known |-> known, list |-> s.list \o new]
RECURSIVE LoadIds(_, _)
LoadIds(s, i) == IF i \notin DOMAIN s.list THEN s
                 ELSE LoadIds(append_load_ids(s, s.list[i]), i + 1)

\* load_obj, last to first: the object of a dictionary is replaced by the dictionary,
\* and what was given the first object keeps it.  A second load of an object that the
\* first made immutable raises in switch_proto.
load_obj(s, id) ==
  LET rec == recs[id]
  IN IF id \in s.fixed THEN [s EXCEPT !.raised = TRUE]
     ELSE [s EXCEPT !.refs[id] = [k \in DOMAIN rec.refs |-> <<rec.refs[k], s.made[rec.refs[k]]>>],
                    !.made[id] = IF rec.kind = "dict" THEN @ + 1 ELSE @,
                    !.fixed = IF rec.kind \in {"value", "list"} THEN @ \cup {id} ELSE @]
Loads(list) ==
  FoldLeft(load_obj, [refs |-> [id \in Obj |-> <<>>], made |-> [id \in Obj |-> 0],
                      fixed |-> {}, raised |-> FALSE],
           Reverse(list) \o <<Root>>)
\* The objects that came of it.
Loaded(s, found) ==
  LET Ref(r) == IF s.made[r[1]] = r[2] THEN r[1] ELSE None
  IN [id \in Obj |->
        IF id \in found
        THEN Object(recs[id].kind, [k \in DOMAIN s.refs[id] |-> Ref(s.refs[id][k])])
        ELSE Object("object", <<>>)]

\* init_ without a root.
Open ==
  /\ call.pc \in {"closed", "crashed"}
  /\ LET list == LoadIds(append_load_ids([known |-> {}, list |-> <<>>], Root), 1).list
         found == ToSet(list) \cup {Root}
         missing == storedNext = None \/ \E id \in found : RecordOf(id) = None
         raises == ~missing /\ Loads(list).raised
         fails == missing \/ raises
         made == IF fails THEN Nothing ELSE Loaded(Loads(list), found)
         stale == ~fails /\ \E o \in Obj : None \in ToSet(made[o].refs)
     IN /\ heap' = made
        /\ immutable' = IF fails THEN {} ELSE Loads(list).fixed
        /\ ids' = [o \in Obj |-> IF ~fails /\ o \in found THEN o ELSE None]
        /\ archived' = {o \in found : ~fails /\ recs[o].kind # "named"}
        /\ call' = Ends(CASE missing -> "lost" [] raises -> "refused"
                          [] stale -> "stale" [] OTHER -> "open", "opened")
  /\ nextid' = IF storedNext = None THEN 0 ELSE storedNext
  /\ proxies' = Nothing /\ kept' = NoLocks
  /\ torn' = FALSE
  /\ UNCHANGED <<file, edits, committed, damaged>>

close ==
  /\ call.pc = "open"
  /\ call' = Ends("closed", "closed")
  /\ ids' = Nothing /\ proxies' = Nothing /\ nextid' = 0
  /\ kept' = NoLocks
  /\ UNCHANGED <<objects, file, edits, notes>>

\* The process ends between two writes to the file.
Crash ==
  /\ Running
  /\ call' = Ends("crashed", "crashed")
  /\ heap' = Nothing /\ archived' = {} /\ immutable' = {}
  /\ ids' = Nothing /\ proxies' = Nothing /\ nextid' = 0 /\ kept' = NoLocks
  /\ damaged' = (damaged \/ call.mode = "create" \/ call.pc = "store")
  /\ UNCHANGED <<file, edits, committed, torn>>

\* The program gives an object other references; during a call, only if it is not locked.
Edit ==
  /\ call.pc \in {"open", "closed", "collect", "store"} /\ edits < MaxEdits /\ heap # Nothing
  /\ \E o \in Obj, refs \in {<<>>} \cup {<<a>> : a \in Obj} \cup {<<a, a + 1>> : a \in 0..(MaxObj - 1)} :
       /\ heap[o].kind \in {"object", "list", "dict"} /\ o \notin immutable
       /\ Running => kept[o] = 0
       /\ heap' = [heap EXCEPT ![o].refs = refs]
       /\ archived' = archived \ {o}
  /\ edits' = edits + 1 /\ UNCHANGED immutable
  /\ call' = [call EXCEPT !.how = IF Running THEN @ ELSE "edited"]
  /\ UNCHANGED <<psrec, file, kept, notes>>

Init ==
  /\ heap \in Graphs /\ archived = {}
  /\ immutable = {o \in Obj : heap[o].kind = "value"}
  /\ ids = Nothing /\ nextid = 0 /\ proxies = Nothing
  /\ recs = Nothing /\ storedNext = None
  /\ call = [pc |-> "closed", mode |-> "none", list |-> <<>>, i |-> 1, how |-> "none"]
  /\ kept = NoLocks /\ edits = 0
  /\ committed = <<>> /\ torn = FALSE /\ damaged = FALSE
Next == \/ Create \/ Commit \/ Collect \/ Collected \/ Store \/ Finish
        \/ rollBack \/ Open \/ close \/ Crash \/ Edit
vars == <<objects, psrec, file, call, kept, edits, notes>>
Spec == Init /\ [][Next]_vars
=============================================================================

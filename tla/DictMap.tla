------------------------------ MODULE DictMap ------------------------------
(***************************************************************************)
(* What the methods of Dict promise: a dictionary is a map from keys to    *)
(* values, and every call reads or changes it at one instant.  ret[t] is   *)
(* what the call of thread t has found so far.  The ghosts are keys that   *)
(* are not found while they are in the map, and may be found, with a value *)
(* of that time, when popItem! has taken them out.                         *)
(***************************************************************************)
EXTENDS Sequences, Functions, SequencesExt

CONSTANTS Threads, Keys, Values, NoKey, NoValue,
          Unfindable,   \* keys that a lookup misses
          Undeletable,  \* keys that a deletion misses
          Ghosts,       \* unfindable keys that show when they are gone
          AsSymbol,     \* AsSymbol[k]: the key tried when string k is missing
          Garbage       \* what a generator yields for an item never stored

VARIABLES map, ret,
          gone          \* gone[k]: the values that ghost k may be found with

Init == /\ map = [k \in Keys |-> NoValue] /\ ret = [t \in Threads |-> NoValue]
        /\ gone = [k \in Ghosts |-> {}]

Present(k) == map[k] # NoValue
Lookup(k) == IF k \in Keys \ Unfindable THEN {map[k]}
             ELSE IF k \in Ghosts THEN gone[k] \cup {NoValue} ELSE {NoValue}
Items == {<<k, map[k]>> : k \in {x \in Keys : Present(x)}}

Returns(t, v) == ret' = [ret EXCEPT ![t] = v] /\ UNCHANGED <<map, gone>>
Forgets == DOMAIN gone' = Ghosts /\ \A k \in Ghosts : gone'[k] \subseteq gone[k]

Get(t) == \E k \in Keys : \E v \in Lookup(k), w \in Lookup(AsSymbol[k]) :
            Returns(t, IF v # NoValue THEN v ELSE w)
Put(k, v) == map' = [map EXCEPT ![k] = v] /\ Forgets /\ UNCHANGED ret
Delete(k) == /\ Present(k) /\ k \notin Undeletable
             /\ map' = [map EXCEPT ![k] = NoValue] /\ UNCHANGED <<gone, ret>>
Clear == map' = [k \in Keys |-> NoValue] /\ Forgets /\ UNCHANGED ret

\* Every item once, in any order; iterating fewer than two goes on with garbage.
List(t) == \E s \in SetToSeqs(Items) :
             \/ Returns(t, s)
             \/ Len(s) < 2 /\ Returns(t, s \o [i \in 1..(2 - Len(s)) |-> Garbage])
Pop(t) == \E k \in Keys : /\ Present(k) /\ ret[t] = <<k, map[k]>>
                          /\ map' = [map EXCEPT ![k] = NoValue]
                          /\ gone' = [g \in Ghosts |-> gone[g] \cup (IF g = k THEN {map[k]} ELSE {})]
                          /\ UNCHANGED ret
Peek(t) == \E item \in Items : Returns(t, item)
Finish(t) == Returns(t, NoValue)
Move == Forgets /\ UNCHANGED <<map, ret>>

Next == \/ \E t \in Threads : Get(t) \/ List(t) \/ Peek(t) \/ Pop(t) \/ Finish(t)
        \/ Move \/ Clear \/ \E k \in Keys : Delete(k) \/ \E v \in Values : Put(k, v)

Spec == Init /\ [][Next]_<<map, gone, ret>>
=============================================================================

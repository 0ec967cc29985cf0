------------------------------ MODULE AttrMap ------------------------------
(***************************************************************************)
(* What the attribute functions of object.c promise (prothon.h, GET_ATTR,  *)
(* SET_ATTR, DEL_ATTR): the attributes of an object are a map from keys to *)
(* values, which each call changes at its own key and nowhere else.        *)
(***************************************************************************)
CONSTANTS Keys, Values, NoValue

VARIABLE attrs   \* attrs[k]: the value of attribute k, or NoValue

Init == attrs = [k \in Keys |-> NoValue]

Set(k, v) == attrs' = [attrs EXCEPT ![k] = v]
Delete(k) == attrs[k] # NoValue /\ attrs' = [attrs EXCEPT ![k] = NoValue]
Clear == attrs' = [k \in Keys |-> NoValue]

Next == Clear \/ \E k \in Keys : Delete(k) \/ \E v \in Values : Set(k, v)

Spec == Init /\ [][Next]_attrs
=============================================================================

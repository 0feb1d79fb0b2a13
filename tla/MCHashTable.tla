---------------------------- MODULE MCHashTable ----------------------------
(***************************************************************************)
(* Small instances of HashTable.  Three keys, of which 1 and 2 share their *)
(* home slot before and after the table doubles and 3's follows it in the  *)
(* first table; and seven keys, as many as the first table takes before it *)
(* must double.  All are set in every order, and those of `emptied' are    *)
(* also deleted, set to NULL and set again.                                *)
(***************************************************************************)
EXTENDS HashTable

CONSTANT v1

VARIABLE instance   \* the keys and the bounds

MCKeys   == 1 .. 7
MCValues == {v1}
MCHash   == <<7, 23, 8, 2, 3, 4, 5>>

Instances == {[keys |-> 1 .. 3, emptied |-> 1 .. 3, capacity |-> 16, size |-> 4],
              [keys |-> 1 .. 7, emptied |-> {1},     capacity |-> 8,  size |-> 8]}

MCInit == Init /\ instance \in Instances
MCNext ==
    /\ Next
    /\ pc = "idle" /\ pc' # "idle" =>
          /\ arg'.key \in IF arg'.value = NULL THEN instance.emptied ELSE instance.keys
          /\ size < instance.size
          /\ pc' = "rehash" => 2 * capacity <= instance.capacity
    /\ \A k \in MCKeys \ instance.emptied : ~Delete(k)
    /\ UNCHANGED instance
MCSpec == MCInit /\ [][MCNext]_<<vars, instance>>
=============================================================================

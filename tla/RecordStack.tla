---------------------------- MODULE RecordStack ----------------------------
(***************************************************************************)
(* What the choice arena promises its user, vm_push_choice and             *)
(* vm_pop_choice: a stack of records.  A pop delivers the newest record,   *)
(* as it was pushed, and removes it.                                       *)
(***************************************************************************)
EXTENDS Integers, Sequences

CONSTANT Records

VARIABLES
    stack,    \* the records, the newest last
    popped    \* the record the last pop delivered

Init == stack = <<>> /\ popped \in Records

Push ==
    /\ \E r \in Records : stack' = Append(stack, r)
    /\ UNCHANGED popped

Pop ==
    /\ stack # <<>>
    /\ popped' = stack[Len(stack)]
    /\ stack' = SubSeq(stack, 1, Len(stack) - 1)

Clear == stack' = <<>> /\ UNCHANGED popped

Next == Push \/ Pop \/ Clear

Spec == Init /\ [][Next]_<<stack, popped>>
=============================================================================

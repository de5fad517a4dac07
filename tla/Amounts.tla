------------------------------- MODULE Amounts -------------------------------
(***************************************************************************)
(* What a Coins map promises its users: an amount per denomination,       *)
(* increased and decreased by checked arithmetic (the `checked_add` and    *)
(* `checked_sub` of coin.rs 103 and 117); a call that would overflow or go *)
(* below zero fails and changes no amount.  spec.md section 3 calls the    *)
(* increase "saturating"; the code, and this spec, do not saturate.        *)
(* There is no notion of a record here: an absent denom has amount zero.   *)
(* `op` is the last call and whether it succeeded.                         *)
(***************************************************************************)
EXTENDS Naturals

CONSTANTS Denoms, MaxUint, Inputs

VARIABLES amount, op

Call(kind, d, by, ok) == op' = [kind |-> kind, denom |-> d, by |-> by, ok |-> ok]

Increase(d, by) ==
  \/ /\ amount[d] + by <= MaxUint
     /\ amount' = [amount EXCEPT ![d] = @ + by]
     /\ Call("increase", d, by, TRUE)
  \/ /\ amount[d] + by > MaxUint
     /\ UNCHANGED amount
     /\ Call("increase", d, by, FALSE)

Decrease(d, by) ==
  \/ /\ amount[d] >= by
     /\ amount' = [amount EXCEPT ![d] = @ - by]
     /\ Call("decrease", d, by, TRUE)
  \/ /\ amount[d] < by
     /\ UNCHANGED amount
     /\ Call("decrease", d, by, FALSE)

Init ==
  /\ amount = [d \in Denoms |-> 0]
  /\ op = [kind |-> "none", denom |-> "none", by |-> 0, ok |-> TRUE]

Next == \E d \in Denoms, by \in Inputs : Increase(d, by) \/ Decrease(d, by)

Spec == Init /\ [][Next]_<<amount, op>>
==============================================================================

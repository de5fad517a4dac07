------------------------------ MODULE TxProtocol ------------------------------
(***************************************************************************)
(* What the transaction hook orchestrator promises, seen from outside      *)
(* (spec.md 4.5 and section 6), with the submessage stack, the replies and *)
(* the store hidden.                                                       *)
(*                                                                         *)
(* A transaction runs its sender's before_tx hook, then its messages one   *)
(* at a time in order, then the after_tx hook.  A hook either fails, which *)
(* ends the transaction and discards the hook's events, or returns one     *)
(* block of events at once: its hook event first, then the events of the  *)
(* replies its submessages caused.  A panic (debug_assert!) may halt the  *)
(* node at any step that dispatches a message.                            *)
(***************************************************************************)
EXTENDS Sequences, Naturals

CONSTANTS
  Txs,         \* transactions: [sender, msgs]
  MaxReplies   \* most replies one hook call can cause

VARIABLES
  phase,    \* "idle", "before", "msgs" or "after"
  tx,       \* the transaction in progress, or the last one
  pending,  \* its messages not yet dispatched
  events,   \* the events it has returned
  halted    \* the node has halted

avars == <<phase, tx, pending, events, halted>>

\* The events a hook returns: the hook event, then n reply events, each
\* tagged with the hook and the transaction's sender.
HookBlock(hook, sender, n) ==
  <<[kind |-> hook, contract |-> sender, hook |-> hook]>> \o
  [i \in 1 .. n |-> [kind |-> "reply", contract |-> sender, hook |-> hook]]

Start ==
  /\ phase = "idle"
  /\ \E t \in Txs : tx' = t /\ pending' = t.msgs
  /\ phase' = "before"
  /\ events' = <<>>
  /\ UNCHANGED halted

\* The hook of this phase returns its block of events.
HookOk(ph, hook, next) ==
  /\ phase = ph
  /\ \E n \in 0 .. MaxReplies : events' = events \o HookBlock(hook, tx.sender, n)
  /\ phase' = next
  /\ UNCHANGED <<tx, pending, halted>>

\* The hook fails: the transaction ends without the hook's events.
HookFail(ph) ==
  /\ phase = ph
  /\ phase' = "idle"
  /\ pending' = <<>>
  /\ UNCHANGED <<tx, events, halted>>

\* The next message is dispatched; it may panic the node.
Msg ==
  /\ phase = "msgs"
  /\ pending # <<>>
  /\ pending' = Tail(pending)
  /\ halted' \in BOOLEAN
  /\ UNCHANGED <<phase, tx, events>>

MsgsDone ==
  /\ phase = "msgs"
  /\ pending = <<>>
  /\ phase' = "after"
  /\ UNCHANGED <<tx, pending, events, halted>>

\* A submessage of a running hook panics the node.
Halt ==
  /\ phase \in {"before", "after"}
  /\ halted' = TRUE
  /\ UNCHANGED <<phase, tx, pending, events>>

Progress ==
  \/ HookOk("before", "before_tx", "msgs")
  \/ HookOk("after", "after_tx", "idle")
  \/ HookFail("before")
  \/ HookFail("after")
  \/ Msg
  \/ MsgsDone
  \/ Halt

Init ==
  /\ phase = "idle"
  /\ tx \in Txs
  /\ pending = <<>>
  /\ events = <<>>
  /\ halted = FALSE

Next == ~halted /\ (Start \/ Progress)

\* A started transaction is carried on until it ends or the node halts.
Spec == Init /\ [][Next]_avars /\ WF_avars(~halted /\ Progress)

==============================================================================

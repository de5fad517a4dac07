------------------------------- MODULE TxHooks -------------------------------
(***************************************************************************)
(* The transaction hooks of crates/app/src/execute/account.rs, composed    *)
(* with the dispatcher of module Execute.                                  *)
(*                                                                         *)
(* For each transaction the engine calls the sender account's `before_tx`  *)
(* entry point, dispatches the transaction's messages, and calls its       *)
(* `after_tx` entry point (spec.md 4.5).  Each hook returns the hook       *)
(* event followed by the events of `handle_submessages`, which dispatches  *)
(* the hook's submessages through `process_msg` with the account as        *)
(* sender and delivers results to the account's reply entry point          *)
(* according to each submessage's reply policy (spec.md 4.6).              *)
(*                                                                         *)
(* The tx loop and `handle_submessages` are not in this repository: they   *)
(* are modelled from spec.md.  The submessage executor keeps an explicit   *)
(* stack of frames, bounded by MaxDepth (spec.md section 10).  Every       *)
(* dispatch is one step, so the store evolves exactly as in Execute.       *)
(***************************************************************************)
EXTENDS Execute, Sequences

CONSTANTS
  Txs,          \* transactions a block may contain: [sender, msgs]
  HookSubmsgs,  \* submessage lists a hook or reply response may request
  MaxTxs,       \* transactions processed in one behaviour
  MaxDepth,     \* maximum depth of the submessage stack
  NoReply       \* sentinel: no reply is due

\* Reply policies of a submessage (spec.md 4.6).
ReplyOn == {"always", "on_error", "never"}

SubMsg == [msg : Messages, reply_on : ReplyOn]

ASSUME
  /\ \A t \in Txs : t.sender \in Addresses /\ t.msgs \in Seq(Messages)
  /\ \A s \in HookSubmsgs : s \in Seq(SubMsg)
  /\ MaxTxs \in Nat /\ MaxDepth \in Nat \ {0}

Hooks == {"before_tx", "after_tx"}

\* The phase of the tx loop while a hook's submessages are handled.
SubsOf == [before_tx |-> "before_subs", after_tx |-> "after_subs"]
HookOf == [before_subs |-> "before_tx", after_subs |-> "after_tx"]

Phases == {"idle", "before_tx", "before_subs", "msgs", "after_tx", "after_subs"}

VARIABLES
  pc,          \* phase of the transaction in progress
  tx,          \* the transaction in progress
  pending,     \* its messages not yet dispatched
  stack,       \* submessage frames, innermost first: [emitter, subs]
  reply,       \* a reply owed to an emitter: [emitter, ok] or NoReply
  hookEvents,  \* `events` of the running hook (account.rs 60-61)
  events,      \* events the transaction has returned so far
  txOk,        \* every step of the transaction so far succeeded
  txCount      \* transactions finished

txVars == <<pc, tx, pending, stack, reply, hookEvents, events, txOk, txCount>>
allVars == <<vars, txVars>>

\* `new_before_tx_event` / `new_after_tx_event`, and the event of a reply,
\* tagged with the hook whose submessages produced it.
HookEvent(hook, contract) == [kind |-> hook, contract |-> contract, hook |-> hook]
ReplyEvent(hook, contract) == [kind |-> "reply", contract |-> contract, hook |-> hook]

-----------------------------------------------------------------------------
\* The transaction ends, committed or failed; the hook state is dropped.
EndTx(ok) ==
  /\ pc' = "idle"
  /\ txOk' = ok
  /\ txCount' = txCount + 1
  /\ stack' = <<>>
  /\ reply' = NoReply
  /\ hookEvents' = <<>>
  /\ pending' = <<>>

\* A hook returns Err: the `?` in the tx loop fails the transaction
\* (spec.md 4.5, fail-closed); the hook's events are discarded.
\* Mutant: the events a failing hook collected are still returned.
HookFailsKeepsEvents ==
  EndTx(FALSE) /\ events' = events \o hookEvents /\ UNCHANGED tx

HookFails == EndTx(FALSE) /\ UNCHANGED <<tx, events>>

\* The block's next transaction starts.
StartTx ==
  /\ pc = "idle"
  /\ txCount < MaxTxs
  /\ \E t \in Txs :
       /\ tx' = t
       /\ pending' = t.msgs
  /\ pc' = "before_tx"
  /\ events' = <<>>
  /\ txOk' = TRUE
  /\ UNCHANGED <<vars, stack, reply, hookEvents, txCount>>

(* `_before_tx` / `_after_tx` up to the entry point's response: load the   *)
(* sender's account and code, build the instance over the account's       *)
(* namespace and call the hook.  CHAIN_ID is written at genesis and CODES  *)
(* holds the code of every account (AccountsHaveCode), so those loads do  *)
(* not fail.  The response starts the hook's `events` with the hook event *)
(* and hands its submessages to `handle_submessages`.                     *)
CallHook(hook) ==
  LET sender == tx.sender IN
  /\ pc = hook
  /\ UNCHANGED vars
  /\ \/ /\ accounts[sender] = NoAccount                       \* ACCOUNTS.load(..)?
        /\ HookFails
     \/ /\ accounts[sender] # NoAccount
        /\ codes[accounts[sender].code_hash] \in InvalidCode  \* build_from_code(..)?
        /\ HookFails
     \/ /\ accounts[sender] # NoAccount
        /\ codes[accounts[sender].code_hash] \notin InvalidCode
        /\ \/ HookFails                                      \* call_<hook>(..)?
           \/ \E subs \in HookSubmsgs :
                /\ hookEvents' = <<HookEvent(hook, sender)>>
                /\ stack' = <<[emitter |-> sender, subs |-> subs]>>
                /\ pc' = SubsOf[hook]
                /\ UNCHANGED <<tx, pending, reply, events, txOk, txCount>>

\* `before_tx`: the hook, its failure re-raised to the tx loop.
BeforeTx == CallHook("before_tx")

\* `after_tx` / `_after_tx`: the same steps with the `after_tx` entry point.
AfterTx == CallHook("after_tx")

(* `handle_submessages`: the next submessage of the innermost frame is     *)
(* dispatched with the emitting contract as sender.  Its result is owed to *)
(* the emitter when the reply policy asks for it; an error nobody replies  *)
(* to is returned, and the `?` of account.rs 61/117 fails the hook.        *)
DispatchSubmsg ==
  /\ pc \in {"before_subs", "after_subs"}
  /\ reply = NoReply
  /\ stack # <<>>
  /\ Head(stack).subs # <<>>
  /\ LET f    == Head(stack)
         sm   == Head(f.subs)
         rest == <<[f EXCEPT !.subs = Tail(f.subs)]>> \o Tail(stack)
     IN
     /\ Dispatch(f.emitter, sm.msg)
     /\ UNCHANGED build
     /\ \/ /\ result' = "Panic"                  \* debug_assert!: the node halts
           /\ UNCHANGED txVars
        \/ /\ result' = "Ok"
           /\ stack' = rest
           /\ reply' = IF sm.reply_on = "always"
                         THEN [emitter |-> f.emitter, ok |-> TRUE] ELSE NoReply
           /\ UNCHANGED <<pc, tx, pending, hookEvents, events, txOk, txCount>>
        \/ /\ result' \notin {"Ok", "Panic"}
           /\ sm.reply_on # "never"
           /\ stack' = rest
           /\ reply' = [emitter |-> f.emitter, ok |-> FALSE]
           /\ UNCHANGED <<pc, tx, pending, hookEvents, events, txOk, txCount>>
        \/ /\ result' \notin {"Ok", "Panic"}
           /\ sm.reply_on = "never"
           /\ HookFails

\* Mutant: the submessages of a reply are pushed without the depth check.
ReplyUnbounded ==
  /\ pc \in {"before_subs", "after_subs"}
  /\ reply # NoReply
  /\ UNCHANGED <<vars>>
  /\ \/ HookFails
     \/ \E subs \in HookSubmsgs :
          /\ hookEvents' = Append(hookEvents, ReplyEvent(HookOf[pc], reply.emitter))
          /\ stack' = IF subs = <<>> THEN stack
                      ELSE <<[emitter |-> reply.emitter, subs |-> subs]>> \o stack
          /\ reply' = NoReply
          /\ UNCHANGED <<pc, tx, pending, events, txOk, txCount>>

(* The emitter's reply entry point receives the submessage's result.  Its  *)
(* event joins the hook's events; submessages it requests form a new      *)
(* frame, refused beyond MaxDepth.                                         *)
Reply ==
  /\ pc \in {"before_subs", "after_subs"}
  /\ reply # NoReply
  /\ UNCHANGED <<vars>>
  /\ \/ HookFails                                   \* the reply returned Err
     \/ \E subs \in HookSubmsgs :
          \/ /\ subs = <<>> \/ Len(stack) < MaxDepth
             /\ hookEvents' = Append(hookEvents, ReplyEvent(HookOf[pc], reply.emitter))
             /\ stack' = IF subs = <<>> THEN stack
                         ELSE <<[emitter |-> reply.emitter, subs |-> subs]>> \o stack
             /\ reply' = NoReply
             /\ UNCHANGED <<pc, tx, pending, events, txOk, txCount>>
          \/ /\ subs # <<>> /\ Len(stack) >= MaxDepth   \* call stack too deep
             /\ HookFails

\* The innermost frame has no submessage left: its call returns.
FramePop ==
  /\ pc \in {"before_subs", "after_subs"}
  /\ reply = NoReply
  /\ stack # <<>>
  /\ Head(stack).subs = <<>>
  /\ stack' = Tail(stack)
  /\ UNCHANGED <<vars, pc, tx, pending, reply, hookEvents, events, txOk, txCount>>

(* `handle_submessages` has returned Ok: the hook returns its `events`,    *)
(* the hook event first and then its submessages' events, and the tx loop *)
(* goes on to the messages (before_tx) or ends the transaction (after_tx). *)
HookReturn ==
  /\ pc \in {"before_subs", "after_subs"}
  /\ reply = NoReply
  /\ stack = <<>>
  /\ events' = events \o hookEvents
  /\ hookEvents' = <<>>
  /\ UNCHANGED <<vars, tx, stack, reply>>
  /\ \/ /\ pc = "before_subs"
        /\ pc' = "msgs"
        /\ UNCHANGED <<pending, txOk, txCount>>
     \/ /\ pc = "after_subs"
        /\ EndTx(txOk)

(* The tx loop dispatches the transaction's messages in order, with the   *)
(* transaction's sender as sender.  A failed message fails the            *)
(* transaction, and the loop still goes on to after_tx (spec.md 4.5).     *)
DispatchMsg ==
  /\ pc = "msgs"
  /\ pending # <<>>
  /\ Dispatch(tx.sender, Head(pending))
  /\ UNCHANGED build
  /\ pending' = Tail(pending)
  /\ txOk' = (txOk /\ result' = "Ok")
  /\ UNCHANGED <<pc, tx, stack, reply, hookEvents, events, txCount>>

\* Every message has been dispatched: call after_tx.
MsgsDone ==
  /\ pc = "msgs"
  /\ pending = <<>>
  /\ pc' = "after_tx"
  /\ UNCHANGED <<vars, tx, pending, stack, reply, hookEvents, events, txOk, txCount>>

-----------------------------------------------------------------------------
TxInit ==
  /\ Init
  /\ pc = "idle"
  /\ tx = CHOOSE t \in Txs : TRUE
  /\ pending = <<>>
  /\ stack = <<>>
  /\ reply = NoReply
  /\ hookEvents = <<>>
  /\ events = <<>>
  /\ txOk = TRUE
  /\ txCount = 0

\* The steps the engine takes on its own once a transaction has started.
TxStep ==
  \/ BeforeTx
  \/ DispatchSubmsg
  \/ Reply
  \/ FramePop
  \/ HookReturn
  \/ DispatchMsg
  \/ MsgsDone
  \/ AfterTx

\* Nothing runs after a debug_assert! panic has halted the node.
Running == result # "Panic"

TxNext ==
  \/ Running /\ StartTx
  \/ Running /\ BeforeTx
  \/ Running /\ DispatchSubmsg
  \/ Running /\ Reply
  \/ Running /\ FramePop
  \/ Running /\ HookReturn
  \/ Running /\ DispatchMsg
  \/ Running /\ MsgsDone
  \/ Running /\ AfterTx

(* Block processing runs a started transaction to completion without      *)
(* waiting on anything outside the node (spec.md section 5), so the       *)
(* engine's steps are weakly fair.  Which transactions arrive, and what   *)
(* contracts answer, are choices inside the steps, not forced by fairness. *)
TxSpec == TxInit /\ [][TxNext]_allVars /\ WF_allVars(Running /\ TxStep)

-----------------------------------------------------------------------------
(* The orchestrator as TxProtocol sees it: the phases of a hook call and   *)
(* of its submessages are one phase, and the hook's buffered events, the  *)
(* stack, the replies and the store are hidden.                            *)
PhaseOf(p) ==
  CASE p = "idle"                         -> "idle"
    [] p \in {"before_tx", "before_subs"} -> "before"
    [] p = "msgs"                         -> "msgs"
    [] p \in {"after_tx", "after_subs"}   -> "after"

\* Every submessage a hook's frames dispatch can cause one reply: at most
\* L + L^2 + ... + L^MaxDepth, for lists of at most L submessages.
MaxSubs == CHOOSE n \in {Len(s) : s \in HookSubmsgs} : \A s \in HookSubmsgs : Len(s) <= n

RECURSIVE RepliesBound(_)
RepliesBound(k) == IF k = 0 THEN 0 ELSE MaxSubs * (1 + RepliesBound(k - 1))

Protocol == INSTANCE TxProtocol
              WITH phase <- PhaseOf(pc), halted <- (result = "Panic"),
                   MaxReplies <- RepliesBound(MaxDepth)

-----------------------------------------------------------------------------
TxTypeOK ==
  /\ pc \in Phases
  /\ tx \in Txs
  /\ pending \in Seq(Messages)
  /\ stack \in Seq([emitter : Addresses, subs : Seq(SubMsg)])
  /\ Len(stack) <= MaxDepth
  /\ reply \in {NoReply} \cup [emitter : Addresses, ok : BOOLEAN]
  /\ txOk \in BOOLEAN
  /\ txCount \in 0 .. MaxTxs

(***************************************************************************)
(* The hook orchestrator implements TxProtocol: before_tx, the messages in *)
(* order one at a time, after_tx; a hook's events are returned as one      *)
(* block headed by its hook event, or dropped when the hook fails; and a   *)
(* started transaction is carried on until it ends or the node halts.      *)
(***************************************************************************)
ProtocolRefined == Protocol!Spec

==============================================================================

------------------------------ MODULE MCTxHooks ------------------------------
EXTENDS TxHooks

CONSTANTS alice, bob, bank, bankWasm, walletWasm, badWasm, salt1

MCDenoms    == {"uatom"}
MCWidth     == 2
MCSenders   == {alice, bob}
MCBytecodes == {bankWasm, walletWasm, badWasm}
MCInvalid   == {badWasm}
MCSalts     == {salt1}
MCAdmins    == {NoAdmin}

\* No funds, or one uatom: a sender holding 2 can send one twice before
\* its transfers fail, and a third credit to the other sender overflows.
One     == [d \in {"uatom"} |-> 1]
MCFunds == {EmptyCoins, One}

MCGenesis == [d \in {"uatom"} |-> 2]

MCHash(b) == <<"sha256", b>>
MCAddrCompute(s, h, salt) == <<"contract", s, h, salt>>

\* The account alice deploys from the invalid blob: it exists (the account
\* is written before the build fails) but its code never builds.
BadAccount == MCAddrCompute(alice, MCHash(badWasm), salt1)

PayBob == [kind |-> "Transfer", to |-> bob, coins |-> One]

\* alice pays bob; alice stores and instantiates the invalid blob; the
\* resulting account sends a transaction; bob executes alice's wallet.
MCTxs ==
  { [sender |-> alice, msgs |-> <<PayBob>>],
    [sender |-> alice,
     msgs |-> <<[kind |-> "StoreCode", wasm |-> badWasm],
                [kind |-> "Instantiate", code_hash |-> MCHash(badWasm),
                 salt |-> salt1, funds |-> EmptyCoins, admin |-> NoAdmin]>>],
    [sender |-> BadAccount, msgs |-> <<>>],
    [sender |-> bob,
     msgs |-> <<[kind |-> "Execute", contract |-> alice, funds |-> One]>>] }

\* A hook or reply requests nothing, one payment to bob under each reply
\* policy, or an execution of alice's wallet, whose answer may itself
\* request submessages.
ExecAlice == [kind |-> "Execute", contract |-> alice, funds |-> EmptyCoins]

MCHookSubmsgs ==
  {<<>>, <<[msg |-> ExecAlice, reply_on |-> "never"]>>} \cup
  {<<[msg |-> PayBob, reply_on |-> r]>> : r \in ReplyOn}
\* The same, and a hook that pays bob and then executes alice's wallet:
\* its first submessage commits before the second one may fail.
MCHookSubmsgsPair ==
  MCHookSubmsgs \cup
  {<<[msg |-> PayBob, reply_on |-> "never"], [msg |-> ExecAlice, reply_on |-> "never"]>>}
==============================================================================

------------------------------ MODULE MCExecute ------------------------------
EXTENDS Execute

CONSTANTS alice, bob, bank, bankWasm, walletWasm, cw1Wasm, badWasm, salt1

MCDenoms    == {"uatom"}
MCWidth     == 2
MCSenders   == {alice, bob}
MCBytecodes == {bankWasm, walletWasm, cw1Wasm, badWasm}
MCInvalid   == {badWasm}
MCSalts     == {salt1}

\* No funds, or two uatom.
MCFunds == {EmptyCoins, [d \in {"uatom"} |-> 2]}

MCAdmins == {NoAdmin, alice}

\* Each sender starts with 2 uatom: supply 4 > MaxUint 3, so a credit of
\* two to a sender overflows its balance.
MCGenesis == [d \in {"uatom"} |-> 2]

\* sha256 and the address derivation are injective: a tagged tuple of the
\* inputs.
MCHash(b) == <<"sha256", b>>
MCAddrCompute(s, h, salt) == <<"contract", s, h, salt>>
==============================================================================

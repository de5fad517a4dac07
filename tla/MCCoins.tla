------------------------------- MODULE MCCoins -------------------------------
EXTENDS CoinsSpec

\* Two denoms, and a 3-bit amount type so that checked_add overflows.
MCDenoms == {"uatom", "uosmo"}
MCWidth  == 3

\* Callers inside the system: the bank contract passes the amounts of a
\* validated Coins value, never zero.
PositiveInputs == 1 .. 7

\* Any caller of the public API, zero included.
AllInputs == 0 .. 7
==============================================================================

----------------------------- MODULE MCCoinsParse -----------------------------
EXTENDS CoinsParse

CONSTANTS a, b

MCLetters == <<a, b>>

\* Denoms of up to two characters, separators included: JSON carries any
\* string as a denom.
MCDenomInputs == BoundedSeq({a, b, Colon, Comma}, 2)

\* The Coins type over those denoms (for CoinsType).
MCDenoms == MCDenomInputs
==============================================================================

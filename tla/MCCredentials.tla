--------------------------- MODULE MCCredentials ---------------------------
(***************************************************************************)
(* Two browsers, two names, two passwords.  Five keys: one in memory, one  *)
(* in the file, one in each cookie, and one to rotate to.                  *)
(***************************************************************************)
EXTENDS Credentials, TLC

CONSTANTS b1, b2, k1, k2, k3, k4, k5, admin, other, word1, word2

TwoBrowsers  == {b1, b2}
TwoNames     == {admin, other}
TwoPasswords == {word1, word2}
FiveKeys     == {k1, k2, k3, k4, k5}

Symmetry == Permutations(TwoBrowsers) \union Permutations(FiveKeys)
============================================================================

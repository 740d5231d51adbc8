------------------------------- MODULE MCSessions -------------------------------
(***************************************************************************)
(* Small instances of Sessions for TLC.                                    *)
(***************************************************************************)
EXTENDS Sessions, TLC

CONSTANTS t1, t2, l1, l2

OneToken == {t1}
TwoTokens == {t1, t2}
OneLogout == {l1}
TwoLogouts == {l1, l2}

Symmetric == Permutations(TwoLogouts) \cup Permutations(TwoTokens)
=============================================================================

------------------------------- MODULE MCAccounts -------------------------------
(***************************************************************************)
(* Small instances of Accounts for TLC.                                    *)
(***************************************************************************)
EXTENDS Accounts, TLC

CONSTANTS u1, u2, p1, p2, c1, c2, c3, l1

OneUser == {u1}
TwoUsers == {u1, u2}
OnePassword == {p1}
TwoPasswords == {p1, p2}
TwoConnections == {c1, c2}
ThreeConnections == {c1, c2, c3}
OneLogin == {l1}
Keys == User \cup Token
Values == Password \cup User
=============================================================================

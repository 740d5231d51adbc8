-------------------------- MODULE MCComponentsManager --------------------------
(***************************************************************************)
(* Small instances of ComponentsManager for TLC.                           *)
(***************************************************************************)
EXTENDS OneClient, TLC

CONSTANTS s1, s2, boot, o1

\* One client that waits for each response, or two.
OneSlot == {s1}
TwoSlots == {s1, s2}
OneProc == {s1, boot}
TwoProcs == {s1, s2, boot}

\* Pins on the header, one that is not, and one given as a text.
Pins == {24, 25}
PinsAndInvalid == {24, 99}
AllPins == {24, 25, 99}
PinAndText == {24, -24}
PinsAndText == {24, 25, -24}

\* Directions as they should be; and one in capitals, which the table takes.
Directions == {"in", "out"}
AnyCase == {"in", "out", "OUT"}

Slots == Permutations(TwoSlots)
=============================================================================

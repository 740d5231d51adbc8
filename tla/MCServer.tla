-------------------------------- MODULE MCServer --------------------------------
(***************************************************************************)
(* Small instances of Server for TLC.                                      *)
(***************************************************************************)
EXTENDS Server

CONSTANTS s1, boot, polls, stops, again

OneSlot == {s1}
OneStop == {stops}
TwoStops == {stops, again}
ServerProc == {s1, boot, polls} \cup Stopper

\* A pin on the header and one that is not.
PinsAndInvalid == {24, 99}

Directions == {"in", "out"}
=============================================================================

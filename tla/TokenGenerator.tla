----------------------------- MODULE TokenGenerator -----------------------------
(***************************************************************************)
(* src/util/token-generator.js.  A token is made of time stamps and        *)
(* numbers with random characters around and in between; the module keeps  *)
(* the numbers it has drawn in the current millisecond, so that no stamp   *)
(* is drawn twice with one number.  That is what it does to keep tokens    *)
(* apart, and what is modelled.  It is not a strict guarantee for the      *)
(* strings: numbers have 5 to 7 digits and the random characters include   *)
(* digits, so that different pairs could, though hardly ever, read alike.  *)
(***************************************************************************)
EXTENDS Integers

CONSTANTS
  MaxReading,       \* the last time stamp (a bound)
  Rand,             \* the numbers that randInt(10000, 10000000) draws from
  ClockMayStepBack  \* is the clock set back (dateformat shows the local time)?

ASSUME TokenGeneratorAssumption ==
  /\ MaxReading \in Nat
  /\ ClockMayStepBack \in BOOLEAN

VARIABLES
  reading,  \* what dateformat makes of new Date()
  map,      \* the one stamp in `map', and the numbers used with it
  drawn     \* history: how often each pair was drawn

tokenVars == <<reading, map, drawn>>

Reading == 0..MaxReading
Pair == Reading \X Rand
EmptyMap == [at |-> -1, used |-> {}]

GeneratorTypeOK ==
  /\ reading \in Reading
  /\ map \in [at : Reading, used : SUBSET Rand] \cup {EmptyMap}
  /\ drawn \in [Pair -> Nat]

GeneratorInit ==
  /\ reading = 0
  /\ map = EmptyMap
  /\ drawn = [d \in Pair |-> 0]
-----------------------------------------------------------------------------
\* The loop draws until a number is found that the stamp was not used with.
Unused(m, at, n) == m.at = at => n \notin m.used

\* Mutant: the map is replaced at every call.
DrawOnly(m, at, n) == [at |-> at, used |-> {n}]

\* A new stamp replaces the map.
Draw(m, at, n) ==
  [at |-> at, used |-> IF m.at = at THEN m.used \cup {n} ELSE {n}]

Passes(r) == r >= reading \/ ClockMayStepBack

\* Two calls of generateToken; the clock may go on between them.
generateAccessToken(n) ==
  \E r \in Reading, n2 \in Rand :
    LET first == Draw(map, reading, n)
    IN /\ Unused(map, reading, n)
       /\ Passes(r)
       /\ Unused(first, r, n2)
       /\ map' = Draw(first, r, n2)
       /\ reading' = r
       /\ drawn' = [drawn EXCEPT ![<<reading, n>>] = @ + 1, ![<<r, n2>>] = @ + 1]

Tick ==
  /\ reading' \in Reading \ {reading}
  /\ Passes(reading')
  /\ UNCHANGED <<map, drawn>>

\* The process is started again, which takes longer than a millisecond.
GeneratorRestarts ==
  /\ reading' \in Reading
  /\ reading' > reading
  /\ map' = EmptyMap
  /\ UNCHANGED drawn

GeneratorNext == Tick \/ GeneratorRestarts \/ \E n \in Rand : generateAccessToken(n)

GeneratorSpec == GeneratorInit /\ [][GeneratorNext]_tokenVars
-----------------------------------------------------------------------------
\* No stamp is used twice with the same number, although the numbers of earlier
\* milliseconds and of earlier runs are forgotten. (generateToken)
TokensAreIssuedOnce == \A d \in Pair : drawn[d] <= 1
=============================================================================

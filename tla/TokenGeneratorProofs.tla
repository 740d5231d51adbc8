------------------------- MODULE TokenGeneratorProofs -------------------------
(***************************************************************************)
(* A token is issued once, for any stamps and numbers, if the clock is not *)
(* set back.                                                               *)
(***************************************************************************)
EXTENDS TokenGenerator, TLAPS

\* What was drawn is of the past, or is remembered.
Remembered(d, at, m) ==
  d[1] <= at /\ (d[1] = at => m.at = at /\ d[2] \in m.used)

GeneratorInv ==
  /\ GeneratorTypeOK
  /\ map.at <= reading
  /\ \A d \in Pair : drawn[d] <= 1 /\ (drawn[d] # 0 => Remembered(d, reading, map))

\* What is remembered stays so when the clock goes on and a number is drawn, and
\* then the number is, too.
LEMMA DrawRemembers ==
  ASSUME NEW at \in Reading, NEW r \in Reading, at <= r,
         NEW m \in [at : Reading, used : SUBSET Rand] \cup {EmptyMap},
         NEW n \in Rand, NEW d \in Pair, m.at <= at,
         Remembered(d, at, m) \/ d = <<r, n>>
  PROVE  Remembered(d, r, Draw(m, r, n))
  BY TokenGeneratorAssumption DEF Remembered, Draw, Reading, Pair, EmptyMap

LEMMA DrawType ==
  ASSUME NEW r \in Reading, NEW n \in Rand,
         NEW m \in [at : Reading, used : SUBSET Rand] \cup {EmptyMap}
  PROVE  /\ Draw(m, r, n) \in [at : Reading, used : SUBSET Rand]
         /\ Draw(m, r, n).at = r
  BY DEF Draw, EmptyMap

\* A number that is unused with its stamp was not drawn with it.
LEMMA UnusedIsNew ==
  ASSUME NEW at \in Reading, NEW r \in Reading, at <= r,
         NEW m \in [at : Reading, used : SUBSET Rand] \cup {EmptyMap},
         NEW n \in Rand, Unused(m, r, n)
  PROVE  ~Remembered(<<r, n>>, at, m)
  BY TokenGeneratorAssumption DEF Remembered, Unused, Reading, EmptyMap

LEMMA GeneratorStep ==
  ASSUME ~ClockMayStepBack, GeneratorInv, [GeneratorNext]_tokenVars
  PROVE  GeneratorInv'
<1> USE DEF GeneratorInv, GeneratorTypeOK
<1>1. CASE Tick
  BY <1>1, TokenGeneratorAssumption DEF Tick, Passes, Remembered, Reading, Pair, EmptyMap
<1>2. CASE GeneratorRestarts
  BY <1>2, TokenGeneratorAssumption
     DEF GeneratorRestarts, Remembered, Reading, Pair, EmptyMap
<1>3. ASSUME NEW n \in Rand, generateAccessToken(n)
      PROVE  GeneratorInv'
  <2> DEFINE first == Draw(map, reading, n)
  <2>1. PICK r \in Reading, n2 \in Rand :
          /\ Unused(map, reading, n)
          /\ Passes(r)
          /\ Unused(first, r, n2)
          /\ map' = Draw(first, r, n2)
          /\ reading' = r
          /\ drawn' = [drawn EXCEPT ![<<reading, n>>] = @ + 1, ![<<r, n2>>] = @ + 1]
    BY <1>3 DEF generateAccessToken
  <2> DEFINE d1 == <<reading, n>>
             d2 == <<r, n2>>
  <2>2. reading <= r
    BY <2>1, TokenGeneratorAssumption DEF Passes, Reading
  <2>3. /\ first \in [at : Reading, used : SUBSET Rand] /\ first.at = reading
        /\ map' \in [at : Reading, used : SUBSET Rand] /\ map'.at = r
    BY <2>1, DrawType
  <2>4. d1 \in Pair /\ d2 \in Pair
    BY DEF Pair
  <2>5. \A d \in Pair : drawn[d] # 0 \/ d = d1 => Remembered(d, reading, first)
    <3> SUFFICES ASSUME NEW d \in Pair, drawn[d] # 0 \/ d = d1
                 PROVE  Remembered(d, reading, first)
      OBVIOUS
    <3>1. Remembered(d, reading, map) \/ d = d1
      OBVIOUS
    <3> QED
      BY <3>1, DrawRemembers, TokenGeneratorAssumption DEF Reading
  <2>6. \A d \in Pair : drawn[d] # 0 \/ d = d1 \/ d = d2 => Remembered(d, r, map')
    <3> SUFFICES ASSUME NEW d \in Pair, drawn[d] # 0 \/ d = d1 \/ d = d2
                 PROVE  Remembered(d, r, Draw(first, r, n2))
      BY <2>1
    <3> HIDE DEF first, d1, d2
    <3>1. Remembered(d, reading, first) \/ d = d2
      BY <2>5
    <3>2. first.at <= reading
      BY <2>3, TokenGeneratorAssumption DEF Reading
    <3> QED
      BY <3>1, <3>2, <2>2, <2>3, DrawRemembers DEF d2
  <2>7. drawn[d1] = 0
    <3>1. ~Remembered(d1, reading, map)
      BY <2>1, UnusedIsNew, TokenGeneratorAssumption DEF Reading
    <3> QED
      BY <3>1, <2>4
  <2>8. drawn[d2] = 0 /\ d1 # d2
    <3>1. ~Remembered(d2, reading, first)
      BY <2>1, <2>2, <2>3, UnusedIsNew
    <3> HIDE DEF first, d1, d2
    <3> QED
      BY <3>1, <2>4, <2>5
  <2> HIDE DEF first, d1, d2
  <2>9. drawn' = [drawn EXCEPT ![d1] = @ + 1, ![d2] = @ + 1]
    BY <2>1 DEF d1, d2
  <2>10. /\ drawn' \in [Pair -> Nat]
         /\ \A d \in Pair : drawn'[d] = IF d \in {d1, d2} THEN 1 ELSE drawn[d]
    BY <2>4, <2>7, <2>8, <2>9
  <2> QED
    BY <2>1, <2>3, <2>6, <2>10, TokenGeneratorAssumption DEF Reading
<1>4. CASE UNCHANGED tokenVars
  BY <1>4 DEF tokenVars, Remembered
<1> QED
  BY <1>1, <1>2, <1>3, <1>4 DEF GeneratorNext

\* No stamp is used twice with the same number, in any number of runs of the
\* server, if the clock is not set back. (generateToken, generateAccessToken)
THEOREM TokensAreUnique ==
  ASSUME ~ClockMayStepBack
  PROVE  GeneratorSpec => []TokensAreIssuedOnce
<1>1. GeneratorInit => GeneratorInv
  BY TokenGeneratorAssumption
     DEF GeneratorInit, GeneratorInv, GeneratorTypeOK, Reading, EmptyMap
<1>2. GeneratorInv /\ [GeneratorNext]_tokenVars => GeneratorInv'
  BY GeneratorStep
<1>3. GeneratorInv => TokensAreIssuedOnce
  BY DEF GeneratorInv, TokensAreIssuedOnce
<1> QED
  BY <1>1, <1>2, <1>3, PTL DEF GeneratorSpec
=============================================================================

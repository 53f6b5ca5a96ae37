------------------------ MODULE TargetFilter_proofs ------------------------
(***************************************************************************)
(* Proofs about TargetFilter, for buffers of every size, every base and    *)
(* every width of the number.                                              *)
(*                                                                         *)
(* The second loop computes Value, a recursive function.  That Value is    *)
(* what its definition says needs an induction.  It is done over a set of  *)
(* numbers (NatSetInduction), which follows from the well-foundedness of   *)
(* < without any theorem that has an operator for a parameter.             *)
(***************************************************************************)
EXTENDS TargetFilter, TLAPS, WellFoundedInduction

-----------------------------------------------------------------------------
(***************************************************************************)
(* Induction.                                                              *)
(***************************************************************************)

\* Every nonempty set of natural numbers has a least element.
LEMMA LeastElement ==
  ASSUME NEW T, T \subseteq Nat, T # {}
  PROVE  \E x \in T : \A y \in T : x <= y
<1> DEFINE R == OpToRel(<, Nat)
<1>1. IsWellFoundedOn(R, Nat)
  BY NatLessThanWellFounded, Zenon
<1>2. \A x, y \in Nat : <<y, x>> \in R <=> y < x
  BY DEF OpToRel
<1> HIDE DEF R
<1>3. PICK x \in T : \A y \in T : ~ (<<y, x>> \in R)
  BY <1>1, WFMin
<1>4. \A y \in T : ~(y < x)
  BY <1>2, <1>3
<1>5. \A y \in T : x <= y
  BY <1>4
<1> QED BY <1>5

\* A set that has 0 and the successor of each of its numbers has them all.
LEMMA NatSetInduction ==
  ASSUME NEW S, 0 \in S, \A n \in Nat : n \in S => n + 1 \in S
  PROVE  Nat \subseteq S
<1> SUFFICES ASSUME ~(Nat \subseteq S) PROVE FALSE
  OBVIOUS
<1> DEFINE T == Nat \ S
<1>1. PICK x \in T : \A y \in T : x <= y
  BY LeastElement
<1>2. x # 0 /\ x \in Nat
  OBVIOUS
<1>3. x - 1 \in Nat /\ x - 1 \notin T
  BY <1>1, <1>2
<1>4. x - 1 \in S /\ (x - 1) + 1 = x
  BY <1>2, <1>3
<1> QED BY <1>3, <1>4

-----------------------------------------------------------------------------
(***************************************************************************)
(* The number that an identifier writes.                                   *)
(***************************************************************************)

\* There is a function that satisfies the recursive definition of Value, so
\* Value does.
LEMMA ValueUnfolds ==
  Value = [n \in 0..IdLen |->
             IF n = 0 THEN 0 ELSE Value[n - 1] * Base + id[n - 1]]
<1> DEFINE Step(f, n) == IF n = 0 THEN 0 ELSE f[n - 1] * Base + id[n - 1]
           D(n) == IF n <= IdLen THEN 0..n ELSE 0..IdLen
           P(n) == \E f : f = [k \in D(n) |-> Step(f, k)]
           S    == {n \in Nat : P(n)}
<1> USE FilterAssumption
<1>1. P(0)
  <2> DEFINE f == [k \in D(0) |-> 0]
  <2>1. D(0) = {0}
    OBVIOUS
  <2>2. f = [k \in D(0) |-> Step(f, k)]
    BY <2>1
  <2> HIDE DEF f
  <2> QED BY <2>2
<1>2. ASSUME NEW n \in Nat, P(n) PROVE P(n + 1)
  <2>1. PICK f : f = [k \in D(n) |-> Step(f, k)]
    BY <1>2
  <2> DEFINE g == [k \in D(n + 1) |-> IF k \in D(n) THEN f[k] ELSE Step(f, k)]
  <2>2. ASSUME NEW k \in D(n + 1) PROVE g[k] = Step(g, k)
    <3>1. k = 0 \/ (k - 1 \in D(n) /\ k - 1 \in D(n + 1))
      OBVIOUS
    <3>2. k # 0 => g[k - 1] = f[k - 1]
      BY <3>1
    <3>3. Step(g, k) = Step(f, k)
      BY <3>2
    <3>4. k \in D(n) => f[k] = Step(f, k)
      BY <2>1
    <3> QED BY <3>3, <3>4
  <2> HIDE DEF D, Step
  <2>3. g = [k \in D(n + 1) |-> Step(g, k)]
    BY <2>2
  <2> HIDE DEF g
  <2> QED BY <2>3
<1>3. IdLen \in S
  <2> HIDE DEF P
  <2>1. 0 \in S /\ \A n \in Nat : n \in S => n + 1 \in S
    BY <1>1, <1>2
  <2> HIDE DEF S
  <2> QED BY <2>1, NatSetInduction
<1>4. \E f : f = [k \in 0..IdLen |-> Step(f, k)]
  BY <1>3
<1> QED BY <1>4 DEF Value

\* One digit more.
LEMMA ValueStep ==
  /\ Value[0] = 0
  /\ \A n \in 0..(IdLen - 1) : Value[n + 1] = Value[n] * Base + id[n]
<1>1. 0 \in 0..IdLen
  BY FilterAssumption
<1>2. \A n \in 0..(IdLen - 1) : n + 1 \in 0..IdLen /\ n + 1 # 0 /\ (n + 1) - 1 = n
  BY FilterAssumption
<1> QED BY <1>1, <1>2, ValueUnfolds

\* Where the digits end, the numeral ends, if the identifier is one.
LEMMA NumeralEnds ==
  ASSUME NEW m \in 0..IdLen, \A k \in 0..(m - 1) : id[k] \in Digit,
         m < IdLen => id[m] \notin Digit,
         NEW n \in 1..IdLen, IsNumeral(n)
  PROVE  n = m
<1>1. ~(m < n)
  BY FilterAssumption DEF IsNumeral
<1>2. ~(n < m)
  <2> SUFFICES ASSUME n < m PROVE FALSE
    OBVIOUS
  <2>1. id[n] = Nul /\ id[n] \in Digit
    BY FilterAssumption DEF IsNumeral
  <2> QED BY <2>1, FilterAssumption DEF Nul, Digit
<1> QED BY <1>1, <1>2, FilterAssumption

-----------------------------------------------------------------------------
(***************************************************************************)
(* The inductive invariant.                                                *)
(***************************************************************************)

\* The first i characters are common and none of them ends the string.
CommonPrefix ==
  \A k \in 0..(IdLen - 1) : k < i => comm[k] = id[k] /\ id[k] # Nul

\* The first i characters are digits, and the number read so far is theirs,
\* unless it was too large for its word at some point.
DigitsRead ==
  /\ \A k \in 0..(i - 1) : id[k] \in Digit
  /\ Value[i] \in Nat
  /\ Value[i] < WordSize => acc = Value[i]

LoopInv ==
  /\ pc = "compare" => CommonPrefix
  /\ pc = "digits" => DigitsRead /\ ~SameString(id, comm)

Inv ==
  /\ TypeOK
  /\ LoopInv
  /\ pc # "done" => result = 0
  /\ FilterIsExact

\* The number read is the identifier's, if that is a numeral that fits.
LEMMA NumberRead ==
  ASSUME TypeOK, DigitsRead, i < IdLen => id[i] \notin Digit, Sensible
  PROVE  IsPid <=> i > 0 /\ acc = pid
<1>1. i \in 0..IdLen
  BY DEF TypeOK
<1>2. CASE i = 0
  BY <1>2, FilterAssumption DEF IsPid, IsNumeral
<1>3. CASE i > 0
  <2>1. id[0] \in Digit
    BY <1>1, <1>3 DEF DigitsRead
  <2>2. PICK n \in 1..IdLen : IsNumeral(n) /\ Value[n] < WordSize
    BY <2>1 DEF Sensible
  <2>3. n = i
    BY <1>1, <2>2, NumeralEnds DEF DigitsRead
  <2>4. acc = Value[i] /\ IsNumeral(i) /\ i \in 1..IdLen
    BY <2>2, <2>3 DEF DigitsRead
  <2>5. \A m \in 1..IdLen : IsNumeral(m) => m = i
    BY <1>1, NumeralEnds DEF DigitsRead
  <2> QED BY <1>3, <2>4, <2>5 DEF IsPid
<1> QED BY <1>1, <1>2, <1>3

LEMMA InvInit == Init => Inv
BY FilterAssumption DEF Init, Inv, TypeOK, LoopInv, FilterIsExact

LEMMA InvNext == Inv /\ [Next]_vars => Inv'
<1> SUFFICES ASSUME Inv, [Next]_vars PROVE Inv'
  OBVIOUS
<1> USE DEF Inv, inputs, GoTo
<1>1. CASE ReadNames
  <2>1. TypeOK'
    BY <1>1, FilterAssumption DEF ReadNames, TypeOK
  <2> QED BY <1>1, <2>1 DEF ReadNames, LoopInv, CommonPrefix, FilterIsExact, TypeOK
<1>2. CASE SameChar
  <2>1. TypeOK'
    BY <1>2, FilterAssumption DEF SameChar, TypeOK
  <2>2. CommonPrefix'
    BY <1>2 DEF SameChar, CommonPrefix, LoopInv, TypeOK
  <2> QED BY <1>2, <2>1, <2>2 DEF SameChar, LoopInv, FilterIsExact
<1>3. CASE EndOfString
  <2>1. TypeOK'
    BY <1>3, FilterAssumption DEF EndOfString, TypeOK
  <2>2. CommonPrefix
    BY <1>3 DEF EndOfString, LoopInv
  <2>3. SameString(id, comm)
    <3> SUFFICES ASSUME NEW k \in 0..(IdLen - 1), \A j \in 0..(k - 1) : id[j] # Nul
                 PROVE  id[k] = comm[k]
      BY DEF SameString
    <3>1. CASE k < i
      BY <2>2, <3>1 DEF CommonPrefix
    <3>2. CASE k = i
      BY <1>3, <3>2, FilterAssumption DEF EndOfString
    <3>3. CASE k > i
      <4>1. i \in 0..(k - 1) /\ id[i] = Nul
        BY <1>3, <3>3, FilterAssumption DEF EndOfString, TypeOK
      <4> QED BY <4>1
    <3> QED BY <3>1, <3>2, <3>3, FilterAssumption DEF TypeOK
  <2>4. Target' /\ result' = pid'
    BY <1>3, <2>3 DEF EndOfString, Target, SameString
  <2> QED BY <1>3, <2>1, <2>4 DEF EndOfString, LoopInv, FilterIsExact
<1>4. CASE OtherChar
  <2>1. TypeOK'
    BY <1>4, FilterAssumption DEF OtherChar, TypeOK
  <2>2. ~SameString(id, comm)
    <3>1. CommonPrefix /\ i \in 0..(IdLen - 1) /\ comm[i] # id[i]
      BY <1>4, FilterAssumption DEF OtherChar, LoopInv, TypeOK
    <3>2. \A j \in 0..(i - 1) : id[j] # Nul
      BY <3>1, FilterAssumption DEF CommonPrefix
    <3> QED BY <3>1, <3>2 DEF SameString
  <2>3. i' = 0 /\ acc' = 0 /\ pc' = "digits" /\ id' = id /\ comm' = comm /\ result' = result
    BY <1>4 DEF OtherChar
  <2>4. Value' = Value
    BY <2>3 DEF Value
  <2>5. DigitsRead'
    BY <2>3, <2>4, ValueStep DEF DigitsRead
  <2>6. ~SameString(id, comm)'
    BY <2>2, <2>3 DEF SameString
  <2> QED BY <1>4, <2>1, <2>3, <2>5, <2>6 DEF OtherChar, LoopInv, FilterIsExact
<1>5. CASE ReadDigit
  <2>1. /\ i \in 0..(IdLen - 1) /\ id[i] \in Digit /\ id[i] \in Nat /\ acc \in Nat
        /\ i' = i + 1 /\ pc = "digits" /\ pc' = "digits" /\ result' = 0
        /\ id' = id /\ comm' = comm
        /\ acc' = (acc * Base + id[i]) % WordSize
    BY <1>5, FilterAssumption DEF ReadDigit, TypeOK, Digit
  <2> DEFINE n == acc * Base + id[i]
  <2>2. n \in Nat /\ WordSize \in Nat \ {0} /\ acc' = n % WordSize
    BY <2>1, FilterAssumption
  <2>3. n % WordSize \in 0..(WordSize - 1) /\ (n < WordSize => n % WordSize = n)
    <3> HIDE DEF n
    <3> QED BY <2>2
  <2>4. TypeOK'
    BY <1>5, <2>1, <2>2, <2>3, FilterAssumption DEF ReadDigit, TypeOK
  <2>5. Value[i + 1] = Value[i] * Base + id[i]
    BY <2>1, ValueStep
  <2>6. DigitsRead
    BY <2>1 DEF LoopInv
  <2>7. Value[i] \in Nat /\ Value[i + 1] \in Nat /\ Value[i] <= Value[i + 1]
    BY <2>1, <2>5, <2>6, FilterAssumption DEF DigitsRead
  <2>8. Value[i + 1] < WordSize => acc' = Value[i + 1]
    <3> SUFFICES ASSUME Value[i + 1] < WordSize PROVE acc' = Value[i + 1]
      OBVIOUS
    <3>1. acc = Value[i]
      BY <2>6, <2>7, FilterAssumption DEF DigitsRead
    <3>2. n = Value[i + 1]
      BY <2>5, <3>1
    <3> QED BY <2>2, <2>3, <3>2
  <2>9. Value' = Value
    BY <2>1 DEF Value
  <2>10. DigitsRead'
    <3>1. \A k \in 0..i : id[k] \in Digit
      BY <2>1, <2>6 DEF DigitsRead
    <3> QED BY <2>1, <2>7, <2>8, <2>9, <3>1 DEF DigitsRead
  <2>11. ~SameString(id, comm)'
    BY <2>1 DEF LoopInv, SameString
  <2> QED BY <2>1, <2>4, <2>10, <2>11 DEF LoopInv, FilterIsExact
<1>6. CASE EndOfNumber
  <2>1. TypeOK'
    BY <1>6, FilterAssumption DEF EndOfNumber, TypeOK
  <2>2. /\ pc' = "done" /\ id' = id /\ comm' = comm /\ pid' = pid
        /\ result' = IF acc = 0 \/ acc # pid THEN 0 ELSE pid
        /\ i < IdLen => id[i] \notin Digit
    BY <1>6 DEF EndOfNumber
  <2>3. DigitsRead /\ ~SameString(id, comm)
    BY <1>6 DEF EndOfNumber, LoopInv
  <2>4. Value' = Value
    BY <2>2 DEF Value
  <2>5. (Sensible' <=> Sensible) /\ (Target' <=> Target)
    BY <2>2, <2>4 DEF Sensible, Target, SameString, IsPid, IsNumeral
  <2>6. Sensible => result' = IF Target THEN pid ELSE 0
    <3> SUFFICES ASSUME Sensible PROVE result' = IF Target THEN pid ELSE 0
      OBVIOUS
    <3>1. Target <=> i > 0 /\ acc = pid
      BY <2>2, <2>3, NumberRead DEF Target
    <3>2. i = 0 => (Value[i] < WordSize => acc = 0)
      BY <2>3, ValueStep DEF DigitsRead
    <3>3. i = 0 => acc = 0
      BY <3>2, ValueStep, FilterAssumption
    <3> QED BY <2>2, <3>1, <3>3, FilterAssumption DEF TypeOK
  <2> QED BY <2>1, <2>2, <2>5, <2>6 DEF LoopInv, FilterIsExact
<1>7. CASE UNCHANGED vars
  <2>1. Value' = Value
    BY <1>7 DEF vars, Value
  <2> QED BY <1>7, <2>1 DEF vars, TypeOK, LoopInv, CommonPrefix, DigitsRead, SameString,
                            FilterIsExact, Sensible, Target, IsPid, IsNumeral
<1> QED BY <1>1, <1>2, <1>3, <1>4, <1>5, <1>6, <1>7 DEF Next

\* The invariant holds in every reachable state.
THEOREM FilterInvariance == Spec => []Inv
BY InvInit, InvNext, PTL DEF Spec

\* Both loops stay inside the buffers and the number inside its word.
THEOREM FilterTypeCorrect == Spec => []TypeOK
<1>1. Inv => TypeOK
  BY DEF Inv
<1> QED BY <1>1, FilterInvariance, PTL

\* The filter lets through the threads of the name and of the pid that the
\* identifier writes, and no others, whatever the identifier; only one that
\* begins with a digit has to be a numeral below 2^64.
THEOREM FilterExact == Spec => []FilterIsExact
<1>1. Inv => FilterIsExact
  BY DEF Inv
<1> QED BY <1>1, FilterInvariance, PTL
=============================================================================

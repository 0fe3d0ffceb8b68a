--------------------------- MODULE TypedDataProofs --------------------------
(***************************************************************************)
(* Proofs about TypedData: the type hashes cover what they must, and a     *)
(* hash determines the document, for any message types and transactions.   *)
(***************************************************************************)
EXTENDS TypedData, TLAPS, SequenceTheorems, FiniteSetTheorems, WellFoundedInduction

(* The recursive functions of the module exist and compute what they say: one *)
(* proof for each, of one shape, as a library theorem would need an operator.   *)

\* Induction over the natural numbers, for a set.
LEMMA SetInduction ==
    ASSUME NEW T, 0 \in T, \A n \in Nat : n \in T => n + 1 \in T
    PROVE  Nat \subseteq T
  <1> DEFINE U == Nat \ T
             R == {p \in Nat \X Nat : p[1] < p[2]}
  <1>1. IsWellFoundedOn(R, Nat)
    BY NatLessThanWellFounded DEF OpToRel
  <1>2. ASSUME U # {} PROVE FALSE
    <2>1. PICK x \in U : \A y \in U : ~(<<y, x>> \in R)
      <3>1. U \subseteq Nat
        OBVIOUS
      <3> HIDE DEF U, R
      <3> QED
        BY <1>1, <1>2, <3>1, WFMin
    <2>2. x # 0 /\ x \in Nat
      OBVIOUS
    <2>3. x - 1 \in Nat /\ x - 1 < x /\ (x - 1) + 1 = x
      BY <2>2
    <2>4. <<x - 1, x>> \in R
      BY <2>2, <2>3
    <2>5. x - 1 \notin U
      BY <2>1, <2>4
    <2> QED
      BY <2>2, <2>3, <2>5
  <1> QED
    BY <1>2

\* What Merge computes, step by step.
LEMMA MergeSteps ==
    ASSUME NEW start, NEW deps, Len(deps) \in Nat
    PROVE  \E g : /\ g[0] = start
                  /\ \A i \in 1..Len(deps) :
                         g[i] = Include(g[i - 1], deps[i])
                  /\ Merge(start, deps) = g[Len(deps)]
  <1> DEFINE first == start
             After(p, i) == Include(p, deps[i])
             Is(g, n) == g = [i \in 0..n |-> IF i = 0 THEN first ELSE After(g[i - 1], i)]
             T == {n \in Nat : \E g : Is(g, n)}
             r == CHOOSE g : Is(g, Len(deps))
  <1>0. Merge(start, deps) = r[Len(deps)]
    BY DEF Merge
  <1> HIDE DEF first, After
  <1>1. 0 \in T
    <2> DEFINE g == [i \in 0..0 |-> first]
    <2>1. Is(g, 0)
      OBVIOUS
    <2> HIDE DEF g
    <2> QED
      BY <2>1
  <1>2. ASSUME NEW n \in Nat, n \in T PROVE n + 1 \in T
    <2>1. PICK g : Is(g, n)
      BY <1>2
    <2> DEFINE last == After(g[n], n + 1)
               h == [i \in 0..(n + 1) |-> IF i = n + 1 THEN last ELSE g[i]]
    <2> HIDE DEF last
    <2>2. \A i \in 0..n : g[i] = IF i = 0 THEN first ELSE After(g[i - 1], i)
      BY <2>1
    <2>3. /\ h[n + 1] = last /\ h = [i \in 0..(n + 1) |-> h[i]]
          /\ \A i \in 0..n : h[i] = g[i]
      OBVIOUS
    <2> HIDE DEF h
    <2>4. ASSUME NEW i \in 0..(n + 1)
          PROVE  h[i] = IF i = 0 THEN first ELSE After(h[i - 1], i)
      <3>1. CASE i = n + 1
        <4>1. i # 0 /\ i - 1 = n /\ n \in 0..n
          BY <3>1
        <4>2. h[i - 1] = g[n]
          BY <2>3, <4>1
        <4> QED
          BY <2>3, <3>1, <4>1, <4>2 DEF last
      <3>2. CASE i \in 1..n
        <4>1. i \in 0..n /\ i - 1 \in 0..n /\ i # 0
          BY <3>2
        <4>2. h[i] = g[i] /\ h[i - 1] = g[i - 1]
          BY <2>3, <4>1
        <4> QED
          BY <2>2, <4>1, <4>2
      <3>3. CASE i = 0
        <4>1. 0 \in 0..n
          OBVIOUS
        <4> QED
          BY <2>2, <2>3, <3>3, <4>1
      <3> QED
        BY <3>1, <3>2, <3>3
    <2>5. Is(h, n + 1)
      BY <2>3, <2>4
    <2> QED
      BY <2>5
  <1>3. Len(deps) \in T
    <2> HIDE DEF T
    <2>1. Nat \subseteq T
      BY <1>1, <1>2, SetInduction
    <2> QED
      BY <2>1, BoundAssumption
  <1>4. Is(r, Len(deps))
    BY <1>3
  <1> HIDE DEF r
  <1>5. \A i \in 0..Len(deps) : r[i] = IF i = 0 THEN first ELSE After(r[i - 1], i)
    BY <1>4
  <1>6. /\ 0 \in 0..Len(deps)
        /\ \A i \in 1..Len(deps) : i \in 0..Len(deps) /\ i # 0
    BY <1>3
  <1>7. r[0] = first /\ \A i \in 1..Len(deps) : r[i] = After(r[i - 1], i)
    BY <1>5, <1>6
  <1> QED
    BY <1>0, <1>7 DEF first, After

\* What the loop over the fields of a type computes.
FieldTurns(table, calls, D, start, g) ==
    /\ g[0] = Append(start, D)
    /\ \A i \in 1..Len(table[D]) :
           g[i] = MergeCall(calls, TypeOfField(table[D][i]), g[i - 1])
    /\ DependenciesOfFields(table, calls, D, start) = g[Len(table[D])]

\* The loop over the fields exists, and turns as it says.
LEMMA FieldSteps ==
    ASSUME NEW table, NEW calls, NEW D, NEW start, Len(table[D]) \in Nat
    PROVE  \E g : FieldTurns(table, calls, D, start, g)
  <1> DEFINE first == Append(start, D)
             After(p, i) == MergeCall(calls, TypeOfField(table[D][i]), p)
             Is(g, n) == g = [i \in 0..n |-> IF i = 0 THEN first ELSE After(g[i - 1], i)]
             T == {n \in Nat : \E g : Is(g, n)}
             r == CHOOSE g : Is(g, Len(table[D]))
  <1>0. DependenciesOfFields(table, calls, D, start) = r[Len(table[D])]
    BY DEF DependenciesOfFields
  <1> HIDE DEF first, After
  <1>1. 0 \in T
    <2> DEFINE g == [i \in 0..0 |-> first]
    <2>1. Is(g, 0)
      OBVIOUS
    <2> HIDE DEF g
    <2> QED
      BY <2>1
  <1>2. ASSUME NEW n \in Nat, n \in T PROVE n + 1 \in T
    <2>1. PICK g : Is(g, n)
      BY <1>2
    <2> DEFINE last == After(g[n], n + 1)
               h == [i \in 0..(n + 1) |-> IF i = n + 1 THEN last ELSE g[i]]
    <2> HIDE DEF last
    <2>2. \A i \in 0..n : g[i] = IF i = 0 THEN first ELSE After(g[i - 1], i)
      BY <2>1
    <2>3. /\ h[n + 1] = last /\ h = [i \in 0..(n + 1) |-> h[i]]
          /\ \A i \in 0..n : h[i] = g[i]
      OBVIOUS
    <2> HIDE DEF h
    <2>4. ASSUME NEW i \in 0..(n + 1)
          PROVE  h[i] = IF i = 0 THEN first ELSE After(h[i - 1], i)
      <3>1. CASE i = n + 1
        <4>1. i # 0 /\ i - 1 = n /\ n \in 0..n
          BY <3>1
        <4>2. h[i - 1] = g[n]
          BY <2>3, <4>1
        <4> QED
          BY <2>3, <3>1, <4>1, <4>2 DEF last
      <3>2. CASE i \in 1..n
        <4>1. i \in 0..n /\ i - 1 \in 0..n /\ i # 0
          BY <3>2
        <4>2. h[i] = g[i] /\ h[i - 1] = g[i - 1]
          BY <2>3, <4>1
        <4> QED
          BY <2>2, <4>1, <4>2
      <3>3. CASE i = 0
        <4>1. 0 \in 0..n
          OBVIOUS
        <4> QED
          BY <2>2, <2>3, <3>3, <4>1
      <3> QED
        BY <3>1, <3>2, <3>3
    <2>5. Is(h, n + 1)
      BY <2>3, <2>4
    <2> QED
      BY <2>5
  <1>3. Len(table[D]) \in T
    <2> HIDE DEF T
    <2>1. Nat \subseteq T
      BY <1>1, <1>2, SetInduction
    <2> QED
      BY <2>1, BoundAssumption
  <1>4. Is(r, Len(table[D]))
    BY <1>3
  <1> HIDE DEF r
  <1>5. \A i \in 0..Len(table[D]) : r[i] = IF i = 0 THEN first ELSE After(r[i - 1], i)
    BY <1>4
  <1>6. /\ 0 \in 0..Len(table[D])
        /\ \A i \in 1..Len(table[D]) : i \in 0..Len(table[D]) /\ i # 0
    BY <1>3
  <1>7. r[0] = first /\ \A i \in 1..Len(table[D]) : r[i] = After(r[i - 1], i)
    BY <1>5, <1>6
  <1> QED
    BY <1>0, <1>7 DEF first, After, FieldTurns

\* The levels of calls of Dependencies.
LEMMA DependencySteps ==
    ASSUME NEW table, Cardinality(DOMAIN table) \in Nat
    PROVE  /\ DependencyCalls(table)[0] = NoCall(table)
           /\ \A i \in 1..Cardinality(DOMAIN table) :
                  DependencyCalls(table)[i] = DependenciesCall(table, DependencyCalls(table)[i - 1])
  <1> DEFINE first == NoCall(table)
             After(p) == DependenciesCall(table, p)
             Is(g, n) == g = [i \in 0..n |-> IF i = 0 THEN first ELSE After(g[i - 1])]
             T == {n \in Nat : \E g : Is(g, n)}
             r == CHOOSE g : Is(g, Cardinality(DOMAIN table))
  <1>0. DependencyCalls(table) = r
    BY DEF DependencyCalls
  <1> HIDE DEF first, After
  <1>1. 0 \in T
    <2> DEFINE g == [i \in 0..0 |-> first]
    <2>1. Is(g, 0)
      OBVIOUS
    <2> HIDE DEF g
    <2> QED
      BY <2>1
  <1>2. ASSUME NEW n \in Nat, n \in T PROVE n + 1 \in T
    <2>1. PICK g : Is(g, n)
      BY <1>2
    <2> DEFINE last == After(g[n])
               h == [i \in 0..(n + 1) |-> IF i = n + 1 THEN last ELSE g[i]]
    <2> HIDE DEF last
    <2>2. \A i \in 0..n : g[i] = IF i = 0 THEN first ELSE After(g[i - 1])
      BY <2>1
    <2>3. /\ h[n + 1] = last /\ h = [i \in 0..(n + 1) |-> h[i]]
          /\ \A i \in 0..n : h[i] = g[i]
      OBVIOUS
    <2> HIDE DEF h
    <2>4. ASSUME NEW i \in 0..(n + 1)
          PROVE  h[i] = IF i = 0 THEN first ELSE After(h[i - 1])
      <3>1. CASE i = n + 1
        <4>1. i # 0 /\ i - 1 = n /\ n \in 0..n
          BY <3>1
        <4>2. h[i - 1] = g[n]
          BY <2>3, <4>1
        <4> QED
          BY <2>3, <3>1, <4>1, <4>2 DEF last
      <3>2. CASE i \in 1..n
        <4>1. i \in 0..n /\ i - 1 \in 0..n /\ i # 0
          BY <3>2
        <4>2. h[i] = g[i] /\ h[i - 1] = g[i - 1]
          BY <2>3, <4>1
        <4> QED
          BY <2>2, <4>1, <4>2
      <3>3. CASE i = 0
        <4>1. 0 \in 0..n
          OBVIOUS
        <4> QED
          BY <2>2, <2>3, <3>3, <4>1
      <3> QED
        BY <3>1, <3>2, <3>3
    <2>5. Is(h, n + 1)
      BY <2>3, <2>4
    <2> QED
      BY <2>5
  <1>3. Cardinality(DOMAIN table) \in T
    <2> HIDE DEF T
    <2>1. Nat \subseteq T
      BY <1>1, <1>2, SetInduction
    <2> QED
      BY <2>1, BoundAssumption
  <1>4. Is(r, Cardinality(DOMAIN table))
    BY <1>3
  <1> HIDE DEF r
  <1>5. \A i \in 0..Cardinality(DOMAIN table) : r[i] = IF i = 0 THEN first ELSE After(r[i - 1])
    BY <1>4
  <1>6. /\ 0 \in 0..Cardinality(DOMAIN table)
        /\ \A i \in 1..Cardinality(DOMAIN table) : i \in 0..Cardinality(DOMAIN table) /\ i # 0
    BY <1>3
  <1>7. r[0] = first /\ \A i \in 1..Cardinality(DOMAIN table) : r[i] = After(r[i - 1])
    BY <1>5, <1>6
  <1> QED
    BY <1>0, <1>7 DEF first, After

\* The levels of a value.
LEMMA LevelSteps ==
    ASSUME NEW x
    PROVE  /\ Levels(x)[0] = {x}
           /\ \A i \in 1..Depth :
                  Levels(x)[i] = WithParts(Levels(x)[i - 1])
  <1> DEFINE first == {x}
             After(p) == WithParts(p)
             Is(g, n) == g = [i \in 0..n |-> IF i = 0 THEN first ELSE After(g[i - 1])]
             T == {n \in Nat : \E g : Is(g, n)}
             r == CHOOSE g : Is(g, Depth)
  <1>0. Levels(x) = r
    BY DEF Levels
  <1> HIDE DEF first, After
  <1>1. 0 \in T
    <2> DEFINE g == [i \in 0..0 |-> first]
    <2>1. Is(g, 0)
      OBVIOUS
    <2> HIDE DEF g
    <2> QED
      BY <2>1
  <1>2. ASSUME NEW n \in Nat, n \in T PROVE n + 1 \in T
    <2>1. PICK g : Is(g, n)
      BY <1>2
    <2> DEFINE last == After(g[n])
               h == [i \in 0..(n + 1) |-> IF i = n + 1 THEN last ELSE g[i]]
    <2> HIDE DEF last
    <2>2. \A i \in 0..n : g[i] = IF i = 0 THEN first ELSE After(g[i - 1])
      BY <2>1
    <2>3. /\ h[n + 1] = last /\ h = [i \in 0..(n + 1) |-> h[i]]
          /\ \A i \in 0..n : h[i] = g[i]
      OBVIOUS
    <2> HIDE DEF h
    <2>4. ASSUME NEW i \in 0..(n + 1)
          PROVE  h[i] = IF i = 0 THEN first ELSE After(h[i - 1])
      <3>1. CASE i = n + 1
        <4>1. i # 0 /\ i - 1 = n /\ n \in 0..n
          BY <3>1
        <4>2. h[i - 1] = g[n]
          BY <2>3, <4>1
        <4> QED
          BY <2>3, <3>1, <4>1, <4>2 DEF last
      <3>2. CASE i \in 1..n
        <4>1. i \in 0..n /\ i - 1 \in 0..n /\ i # 0
          BY <3>2
        <4>2. h[i] = g[i] /\ h[i - 1] = g[i - 1]
          BY <2>3, <4>1
        <4> QED
          BY <2>2, <4>1, <4>2
      <3>3. CASE i = 0
        <4>1. 0 \in 0..n
          OBVIOUS
        <4> QED
          BY <2>2, <2>3, <3>3, <4>1
      <3> QED
        BY <3>1, <3>2, <3>3
    <2>5. Is(h, n + 1)
      BY <2>3, <2>4
    <2> QED
      BY <2>5
  <1>3. Depth \in T
    <2> HIDE DEF T
    <2>1. Nat \subseteq T
      BY <1>1, <1>2, SetInduction
    <2> QED
      BY <2>1, BoundAssumption
  <1>4. Is(r, Depth)
    BY <1>3
  <1> HIDE DEF r
  <1>5. \A i \in 0..Depth : r[i] = IF i = 0 THEN first ELSE After(r[i - 1])
    BY <1>4
  <1>6. /\ 0 \in 0..Depth
        /\ \A i \in 1..Depth : i \in 0..Depth /\ i # 0
    BY <1>3
  <1>7. r[0] = first /\ \A i \in 1..Depth : r[i] = After(r[i - 1])
    BY <1>5, <1>6
  <1> QED
    BY <1>0, <1>7 DEF first, After

\* The lowest level of calls of EncodeData.
NoEncoding(table, V) == [ref \in Refs(table) |-> [x \in V |-> <<>>]]

\* Each level of EncodeCalls is made of the one below.
LEMMA EncodeSteps ==
    ASSUME NEW table, NEW V
    PROVE  /\ EncodeCalls(table, V)[0] = NoEncoding(table, V)
           /\ \A i \in 1..Depth :
                  EncodeCalls(table, V)[i] = EncodeCall(table, V, EncodeCalls(table, V)[i - 1])
  <1> DEFINE first == NoEncoding(table, V)
             After(p) == EncodeCall(table, V, p)
             Is(g, n) == g = [i \in 0..n |-> IF i = 0 THEN first ELSE After(g[i - 1])]
             T == {n \in Nat : \E g : Is(g, n)}
             r == CHOOSE g : Is(g, Depth)
  <1>0. EncodeCalls(table, V) = r
    BY DEF EncodeCalls, NoEncoding
  <1> HIDE DEF first, After
  <1>1. 0 \in T
    <2> DEFINE g == [i \in 0..0 |-> first]
    <2>1. Is(g, 0)
      OBVIOUS
    <2> HIDE DEF g
    <2> QED
      BY <2>1
  <1>2. ASSUME NEW n \in Nat, n \in T PROVE n + 1 \in T
    <2>1. PICK g : Is(g, n)
      BY <1>2
    <2> DEFINE last == After(g[n])
               h == [i \in 0..(n + 1) |-> IF i = n + 1 THEN last ELSE g[i]]
    <2> HIDE DEF last
    <2>2. \A i \in 0..n : g[i] = IF i = 0 THEN first ELSE After(g[i - 1])
      BY <2>1
    <2>3. /\ h[n + 1] = last /\ h = [i \in 0..(n + 1) |-> h[i]]
          /\ \A i \in 0..n : h[i] = g[i]
      OBVIOUS
    <2> HIDE DEF h
    <2>4. ASSUME NEW i \in 0..(n + 1)
          PROVE  h[i] = IF i = 0 THEN first ELSE After(h[i - 1])
      <3>1. CASE i = n + 1
        <4>1. i # 0 /\ i - 1 = n /\ n \in 0..n
          BY <3>1
        <4>2. h[i - 1] = g[n]
          BY <2>3, <4>1
        <4> QED
          BY <2>3, <3>1, <4>1, <4>2 DEF last
      <3>2. CASE i \in 1..n
        <4>1. i \in 0..n /\ i - 1 \in 0..n /\ i # 0
          BY <3>2
        <4>2. h[i] = g[i] /\ h[i - 1] = g[i - 1]
          BY <2>3, <4>1
        <4> QED
          BY <2>2, <4>1, <4>2
      <3>3. CASE i = 0
        <4>1. 0 \in 0..n
          OBVIOUS
        <4> QED
          BY <2>2, <2>3, <3>3, <4>1
      <3> QED
        BY <3>1, <3>2, <3>3
    <2>5. Is(h, n + 1)
      BY <2>3, <2>4
    <2> QED
      BY <2>5
  <1>3. Depth \in T
    <2> HIDE DEF T
    <2>1. Nat \subseteq T
      BY <1>1, <1>2, SetInduction
    <2> QED
      BY <2>1, BoundAssumption
  <1>4. Is(r, Depth)
    BY <1>3
  <1> HIDE DEF r
  <1>5. \A i \in 0..Depth : r[i] = IF i = 0 THEN first ELSE After(r[i - 1])
    BY <1>4
  <1>6. /\ 0 \in 0..Depth
        /\ \A i \in 1..Depth : i \in 0..Depth /\ i # 0
    BY <1>3
  <1>7. r[0] = first /\ \A i \in 1..Depth : r[i] = After(r[i - 1])
    BY <1>5, <1>6
  <1> QED
    BY <1>0, <1>7 DEF first, After

\* The lowest level of calls of Decode.
NoDecoding(V) == [e \in V |-> [how \in {"text", "bool", "number"} |-> Nil]]

\* Each level of DecodeCalls is made of the one below.
LEMMA DecodeSteps ==
    ASSUME NEW V
    PROVE  /\ DecodeCalls(V)[0] = NoDecoding(V)
           /\ \A i \in 1..Depth :
                  DecodeCalls(V)[i] = DecodeCall(V, DecodeCalls(V)[i - 1])
  <1> DEFINE first == NoDecoding(V)
             After(p) == DecodeCall(V, p)
             Is(g, n) == g = [i \in 0..n |-> IF i = 0 THEN first ELSE After(g[i - 1])]
             T == {n \in Nat : \E g : Is(g, n)}
             r == CHOOSE g : Is(g, Depth)
  <1>0. DecodeCalls(V) = r
    BY DEF DecodeCalls, NoDecoding
  <1> HIDE DEF first, After
  <1>1. 0 \in T
    <2> DEFINE g == [i \in 0..0 |-> first]
    <2>1. Is(g, 0)
      OBVIOUS
    <2> HIDE DEF g
    <2> QED
      BY <2>1
  <1>2. ASSUME NEW n \in Nat, n \in T PROVE n + 1 \in T
    <2>1. PICK g : Is(g, n)
      BY <1>2
    <2> DEFINE last == After(g[n])
               h == [i \in 0..(n + 1) |-> IF i = n + 1 THEN last ELSE g[i]]
    <2> HIDE DEF last
    <2>2. \A i \in 0..n : g[i] = IF i = 0 THEN first ELSE After(g[i - 1])
      BY <2>1
    <2>3. /\ h[n + 1] = last /\ h = [i \in 0..(n + 1) |-> h[i]]
          /\ \A i \in 0..n : h[i] = g[i]
      OBVIOUS
    <2> HIDE DEF h
    <2>4. ASSUME NEW i \in 0..(n + 1)
          PROVE  h[i] = IF i = 0 THEN first ELSE After(h[i - 1])
      <3>1. CASE i = n + 1
        <4>1. i # 0 /\ i - 1 = n /\ n \in 0..n
          BY <3>1
        <4>2. h[i - 1] = g[n]
          BY <2>3, <4>1
        <4> QED
          BY <2>3, <3>1, <4>1, <4>2 DEF last
      <3>2. CASE i \in 1..n
        <4>1. i \in 0..n /\ i - 1 \in 0..n /\ i # 0
          BY <3>2
        <4>2. h[i] = g[i] /\ h[i - 1] = g[i - 1]
          BY <2>3, <4>1
        <4> QED
          BY <2>2, <4>1, <4>2
      <3>3. CASE i = 0
        <4>1. 0 \in 0..n
          OBVIOUS
        <4> QED
          BY <2>2, <2>3, <3>3, <4>1
      <3> QED
        BY <3>1, <3>2, <3>3
    <2>5. Is(h, n + 1)
      BY <2>3, <2>4
    <2> QED
      BY <2>5
  <1>3. Depth \in T
    <2> HIDE DEF T
    <2>1. Nat \subseteq T
      BY <1>1, <1>2, SetInduction
    <2> QED
      BY <2>1, BoundAssumption
  <1>4. Is(r, Depth)
    BY <1>3
  <1> HIDE DEF r
  <1>5. \A i \in 0..Depth : r[i] = IF i = 0 THEN first ELSE After(r[i - 1])
    BY <1>4
  <1>6. /\ 0 \in 0..Depth
        /\ \A i \in 1..Depth : i \in 0..Depth /\ i # 0
    BY <1>3
  <1>7. r[0] = first /\ \A i \in 1..Depth : r[i] = After(r[i - 1])
    BY <1>5, <1>6
  <1> QED
    BY <1>0, <1>7 DEF first, After

\* The lowest level of calls of AsRead.
NoReading(table, V) == [ref \in Refs(table) |-> [x \in V |-> Nil]]

\* Each level of AsReadCalls is made of the one below.
LEMMA AsReadSteps ==
    ASSUME NEW table, NEW V
    PROVE  /\ AsReadCalls(table, V)[0] = NoReading(table, V)
           /\ \A i \in 1..Depth :
                  AsReadCalls(table, V)[i] = AsReadCall(table, V, AsReadCalls(table, V)[i - 1])
  <1> DEFINE first == NoReading(table, V)
             After(p) == AsReadCall(table, V, p)
             Is(g, n) == g = [i \in 0..n |-> IF i = 0 THEN first ELSE After(g[i - 1])]
             T == {n \in Nat : \E g : Is(g, n)}
             r == CHOOSE g : Is(g, Depth)
  <1>0. AsReadCalls(table, V) = r
    BY DEF AsReadCalls, NoReading
  <1> HIDE DEF first, After
  <1>1. 0 \in T
    <2> DEFINE g == [i \in 0..0 |-> first]
    <2>1. Is(g, 0)
      OBVIOUS
    <2> HIDE DEF g
    <2> QED
      BY <2>1
  <1>2. ASSUME NEW n \in Nat, n \in T PROVE n + 1 \in T
    <2>1. PICK g : Is(g, n)
      BY <1>2
    <2> DEFINE last == After(g[n])
               h == [i \in 0..(n + 1) |-> IF i = n + 1 THEN last ELSE g[i]]
    <2> HIDE DEF last
    <2>2. \A i \in 0..n : g[i] = IF i = 0 THEN first ELSE After(g[i - 1])
      BY <2>1
    <2>3. /\ h[n + 1] = last /\ h = [i \in 0..(n + 1) |-> h[i]]
          /\ \A i \in 0..n : h[i] = g[i]
      OBVIOUS
    <2> HIDE DEF h
    <2>4. ASSUME NEW i \in 0..(n + 1)
          PROVE  h[i] = IF i = 0 THEN first ELSE After(h[i - 1])
      <3>1. CASE i = n + 1
        <4>1. i # 0 /\ i - 1 = n /\ n \in 0..n
          BY <3>1
        <4>2. h[i - 1] = g[n]
          BY <2>3, <4>1
        <4> QED
          BY <2>3, <3>1, <4>1, <4>2 DEF last
      <3>2. CASE i \in 1..n
        <4>1. i \in 0..n /\ i - 1 \in 0..n /\ i # 0
          BY <3>2
        <4>2. h[i] = g[i] /\ h[i - 1] = g[i - 1]
          BY <2>3, <4>1
        <4> QED
          BY <2>2, <4>1, <4>2
      <3>3. CASE i = 0
        <4>1. 0 \in 0..n
          OBVIOUS
        <4> QED
          BY <2>2, <2>3, <3>3, <4>1
      <3> QED
        BY <3>1, <3>2, <3>3
    <2>5. Is(h, n + 1)
      BY <2>3, <2>4
    <2> QED
      BY <2>5
  <1>3. Depth \in T
    <2> HIDE DEF T
    <2>1. Nat \subseteq T
      BY <1>1, <1>2, SetInduction
    <2> QED
      BY <2>1, BoundAssumption
  <1>4. Is(r, Depth)
    BY <1>3
  <1> HIDE DEF r
  <1>5. \A i \in 0..Depth : r[i] = IF i = 0 THEN first ELSE After(r[i - 1])
    BY <1>4
  <1>6. /\ 0 \in 0..Depth
        /\ \A i \in 1..Depth : i \in 0..Depth /\ i # 0
    BY <1>3
  <1>7. r[0] = first /\ \A i \in 1..Depth : r[i] = After(r[i - 1])
    BY <1>5, <1>6
  <1> QED
    BY <1>0, <1>7 DEF first, After

-----------------------------------------------------------------------------
(* Dependencies. *)

\* A field, whose type is that of a value or of an array, and a sequence of them.
IsField(f) == f.type = Ref(f.type.name, f.type.array) /\ f.type.array \in BOOLEAN
IsFields(q) == q \in Seq(ToSet(q)) /\ \A i \in DOMAIN q : IsField(q[i])

\* A table of types as the walk leaves it: finitely many types, none with the
\* name of a primitive one, each with a sequence of fields.
IsTable(table) ==
    /\ IsFiniteSet(DOMAIN table)
    /\ DOMAIN table \cap Primitives = {}
    /\ \A D \in DOMAIN table : IsFields(table[D])

\* What is known of the fields of a type.
LEMMA TableFields ==
    ASSUME NEW table, IsTable(table), NEW D \in DOMAIN table
    PROVE  /\ Len(table[D]) \in Nat /\ DOMAIN table[D] = 1..Len(table[D])
           /\ \A i \in DOMAIN table[D] : IsField(table[D][i])
  <1>1. IsFields(table[D])
    BY DEF IsTable
  <1> QED
    BY <1>1, LenProperties DEF IsFields

\* r goes on where s ends.
Extends(r, s) == Len(s) <= Len(r) /\ \A i \in 1..Len(s) : r[i] = s[i]

\* Merging an extension of a into a gives the extension: the result of a nested call
\* starts with all that was found before it.
LEMMA MergeIsLast ==
    ASSUME NEW S, NEW a \in Seq(S), NEW d \in Seq(S), IsInjective(d), Extends(d, a)
    PROVE  Merge(a, d) = d
  <1>1. Len(a) \in Nat /\ Len(d) \in Nat /\ Len(a) <= Len(d) /\ DOMAIN d = 1..Len(d)
    BY LenProperties DEF Extends
  <1>2. PICK g : /\ g[0] = a
                 /\ \A i \in 1..Len(d) : g[i] = Include(g[i - 1], d[i])
                 /\ Merge(a, d) = g[Len(d)]
    BY <1>1, MergeSteps
  <1> DEFINE Good(i) == /\ g[i] \in Seq(S)
                        /\ Len(g[i]) = IF i <= Len(a) THEN Len(a) ELSE i
                        /\ \A j \in 1..Len(g[i]) : g[i][j] = d[j]
             T == {i \in Nat : i <= Len(d) => Good(i)}
  <1>3. 0 \in T
    BY <1>1, <1>2 DEF Extends
  <1>4. ASSUME NEW i \in Nat, i \in T PROVE i + 1 \in T
    <2> SUFFICES ASSUME i + 1 <= Len(d) PROVE Good(i + 1)
      OBVIOUS
    <2> DEFINE p == g[i]
               e == d[i + 1]
    <2>1. g[i + 1] = Include(p, e) /\ e \in S
      <3>1. i + 1 \in 1..Len(d) /\ (i + 1) - 1 = i
        BY <1>1
      <3> QED
        BY <1>2, <3>1, ElementOfSeq
    <2>2. p \in Seq(S) /\ Len(p) = (IF i <= Len(a) THEN Len(a) ELSE i)
          /\ \A j \in 1..Len(p) : p[j] = d[j]
      BY <1>1, <1>4
    <2> HIDE DEF p, e
    <2>3. CASE i + 1 <= Len(a)
      <3>1. i + 1 \in 1..Len(p) /\ p[i + 1] = e
        BY <1>1, <2>2, <2>3 DEF e
      <3>2. g[i + 1] = p
        BY <2>1, <3>1 DEF Include, Contains
      <3> QED
        BY <1>1, <2>2, <2>3, <3>2
    <2>4. CASE ~(i + 1 <= Len(a))
      <3>1. Len(p) = i
        BY <1>1, <2>2, <2>4
      <3>2. ASSUME NEW j \in 1..Len(p), p[j] = e PROVE FALSE
        <4>1. j \in DOMAIN d /\ i + 1 \in DOMAIN d /\ d[j] = d[i + 1] /\ j # i + 1
          BY <1>1, <2>2, <3>1, <3>2 DEF e
        <4> QED
          BY <4>1 DEF IsInjective
      <3>3. g[i + 1] = Append(p, e)
        BY <2>1, <3>2 DEF Include, Contains
      <3>4. /\ Append(p, e) \in Seq(S) /\ Len(Append(p, e)) = i + 1
            /\ \A j \in 1..(i + 1) : Append(p, e)[j] = IF j = i + 1 THEN e ELSE p[j]
        BY <2>1, <2>2, <3>1
      <3>5. \A j \in 1..(i + 1) : Append(p, e)[j] = d[j]
        BY <2>2, <3>1, <3>4 DEF e
      <3> QED
        BY <1>1, <2>4, <3>3, <3>4, <3>5
    <2> QED
      BY <2>3, <2>4
  <1> HIDE DEF T
  <1>5. Len(d) \in T
    BY <1>1, <1>3, <1>4, SetInduction
  <1>6. Good(Len(d))
    BY <1>1, <1>5 DEF T
  <1>7. Len(g[Len(d)]) = Len(d)
    BY <1>1, <1>6
  <1> QED
    BY <1>1, <1>2, <1>6, <1>7, SeqEqual

\* The fields of the p-th type of r are primitive or in r; the p-th type is the
\* type of a field of one at q or after it.
Settled(table, r, p) ==
    \A k \in DOMAIN table[r[p]] :
        table[r[p]][k].type.name \in DOMAIN table => Contains(r, table[r[p]][k].type.name)
Needed(table, r, q, p) ==
    \E j \in q..(p - 1) : \E k \in DOMAIN table[r[j]] : table[r[j]][k].type.name = r[p]

\* What a call for type D returns, s having been found before it: s, and if D
\* is a type not in s, D and all types it needs.
Result(table, D, s, r) ==
    /\ r \in Seq(DOMAIN table) /\ IsInjective(r) /\ Extends(r, s)
    /\ D \in DOMAIN table => Contains(r, D)
    /\ Len(r) > Len(s) => r[Len(s) + 1] = D
    /\ \A p \in (Len(s) + 1)..Len(r) : Settled(table, r, p)
    /\ \A p \in (Len(s) + 2)..Len(r) : Needed(table, r, Len(s) + 1, p)

\* The calls may nest n levels deep, which is enough.
GoodCalls(table, calls, n) ==
    \A D \in TypeNames(table), s \in Seq(DOMAIN table) :
        IsInjective(s) /\ n + Len(s) >= Cardinality(DOMAIN table) =>
            Result(table, D, s, calls[D][s])

\* An extension contains what it extends.
LEMMA ExtendsContains ==
    ASSUME NEW S, NEW s \in Seq(S), NEW r \in Seq(S), Extends(r, s), NEW e, Contains(s, e)
    PROVE  Contains(r, e)
  <1>1. Len(s) \in Nat /\ Len(r) \in Nat
    BY LenProperties
  <1> QED
    BY <1>1 DEF Extends, Contains

\* A type stays settled when more is found.
LEMMA SettledStays ==
    ASSUME NEW table, NEW s \in Seq(DOMAIN table), NEW r \in Seq(DOMAIN table),
           Extends(r, s), NEW p \in 1..Len(s), Settled(table, s, p)
    PROVE  Settled(table, r, p)
  <1>1. r[p] = s[p]
    BY DEF Extends
  <1> QED
    BY <1>1, ExtendsContains DEF Settled

\* A type stays needed when more is found.
LEMMA NeededStays ==
    ASSUME NEW table, NEW s \in Seq(DOMAIN table), NEW r \in Seq(DOMAIN table),
           Extends(r, s), NEW q \in Nat \ {0}, NEW p \in 1..Len(s), Needed(table, s, q, p)
    PROVE  Needed(table, r, q, p)
  <1>1. Len(s) \in Nat
    BY LenProperties
  <1>2. PICK j \in q..(p - 1) : \E k \in DOMAIN table[s[j]] : table[s[j]][k].type.name = s[p]
    BY DEF Needed
  <1>3. j \in 1..Len(s)
    BY <1>1
  <1>4. r[p] = s[p] /\ r[j] = s[j]
    BY <1>3 DEF Extends
  <1> QED
    BY <1>2, <1>4 DEF Needed

\* A sequence without repetitions that is as long as there are types has them all.
LEMMA FullHasAll ==
    ASSUME NEW S, IsFiniteSet(S), NEW s \in Seq(S), IsInjective(s),
           Len(s) >= Cardinality(S)
    PROVE  \A D \in S : Contains(s, D)
  <1>1. Len(s) \in Nat /\ DOMAIN s = 1..Len(s) /\ s \in [1..Len(s) -> S]
    BY LenProperties
  <1>2. s \in Injection(1..Len(s), S)
    BY <1>1 DEF IsInjective, Injection
  <1>3. IsFiniteSet(1..Len(s)) /\ Cardinality(1..Len(s)) = Len(s)
    <2>1. 1 \in Int /\ Len(s) \in Int
      BY <1>1
    <2>2. IsFiniteSet(1..Len(s))
          /\ Cardinality(1..Len(s)) = (IF 1 > Len(s) THEN 0 ELSE Len(s) - 1 + 1)
      BY <2>1, FS_Interval, Zenon
    <2> QED
      BY <1>1, <2>2
  <1>4. Cardinality(S) \in Nat /\ Len(s) <= Cardinality(S)
    BY <1>2, <1>3, FS_Injection, FS_CardinalityType
  <1>5. Cardinality(1..Len(s)) = Cardinality(S)
    BY <1>1, <1>3, <1>4
  <1>6. s \in Surjection(1..Len(s), S)
    BY <1>2, <1>5, FS_Injection
  <1> QED
    BY <1>6 DEF Surjection, Contains

\* A call for a type that was found, or for none, adds nothing.
LEMMA StartIsResult ==
    ASSUME NEW table, NEW D, NEW s \in Seq(DOMAIN table), IsInjective(s),
           D \in DOMAIN table => Contains(s, D)
    PROVE  Result(table, D, s, s)
  <1>1. Len(s) \in Nat
    BY LenProperties
  <1> QED
    BY <1>1 DEF Result, Extends


\* An extension of an extension is one.
LEMMA ExtendsTransitive ==
    ASSUME NEW S, NEW s \in Seq(S), NEW a \in Seq(S), NEW r \in Seq(S),
           Extends(a, s), Extends(r, a)
    PROVE  Extends(r, s)
  <1>1. Len(s) \in Nat /\ Len(a) \in Nat /\ Len(r) \in Nat
    BY LenProperties
  <1>2. Len(s) <= Len(a) /\ Len(a) <= Len(r)
    BY DEF Extends
  <1>3. ASSUME NEW i \in 1..Len(s) PROVE r[i] = s[i]
    <2>1. i \in 1..Len(a)
      BY <1>1, <1>2
    <2> QED
      BY <2>1 DEF Extends
  <1> QED
    BY <1>1, <1>2, <1>3 DEF Extends

\* What the loop over the fields of D has found after its first i turns.
FoundAfter(table, D, s, i, a) ==
    /\ a \in Seq(DOMAIN table) /\ IsInjective(a) /\ Extends(a, Append(s, D))
    /\ \A p \in (Len(s) + 2)..Len(a) : Settled(table, a, p)
    /\ \A p \in (Len(s) + 2)..Len(a) : Needed(table, a, Len(s) + 1, p)
    /\ \A k \in 1..i : table[D][k].type.name \in DOMAIN table =>
                           Contains(a, table[D][k].type.name)

\* Before the first turn D has been found.
LEMMA FoundFirst ==
    ASSUME NEW table, NEW D \in DOMAIN table, NEW s \in Seq(DOMAIN table),
           IsInjective(s), ~Contains(s, D)
    PROVE  FoundAfter(table, D, s, 0, Append(s, D))
  <1> DEFINE a == Append(s, D)
  <1>1. Len(s) \in Nat /\ DOMAIN s = 1..Len(s)
    BY LenProperties
  <1>2. /\ a \in Seq(DOMAIN table) /\ Len(a) = Len(s) + 1 /\ DOMAIN a = 1..(Len(s) + 1)
        /\ \A i \in 1..(Len(s) + 1) : a[i] = IF i = Len(s) + 1 THEN D ELSE s[i]
    BY <1>1, AppendProperties, LenProperties
  <1> HIDE DEF a
  <1>3. ASSUME NEW i \in DOMAIN a, NEW j \in DOMAIN a, a[i] = a[j] PROVE i = j
    <2>1. i \in 1..(Len(s) + 1) /\ j \in 1..(Len(s) + 1)
      BY <1>2
    <2>2. CASE i = Len(s) + 1 /\ j # Len(s) + 1
      <3>1. j \in 1..Len(s) /\ s[j] = D
        BY <1>1, <1>2, <1>3, <2>1, <2>2
      <3> QED
        BY <3>1 DEF Contains
    <2>3. CASE j = Len(s) + 1 /\ i # Len(s) + 1
      <3>1. i \in 1..Len(s) /\ s[i] = D
        BY <1>1, <1>2, <1>3, <2>1, <2>3
      <3> QED
        BY <3>1 DEF Contains
    <2>4. CASE i # Len(s) + 1 /\ j # Len(s) + 1
      <3>1. i \in DOMAIN s /\ j \in DOMAIN s /\ s[i] = s[j]
        BY <1>1, <1>2, <1>3, <2>1, <2>4
      <3> QED
        BY <3>1 DEF IsInjective
    <2> QED
      BY <2>2, <2>3, <2>4
  <1>4. IsInjective(a) /\ Extends(a, a)
    BY <1>1, <1>2, <1>3 DEF IsInjective, Extends
  <1>5. (Len(s) + 2)..Len(a) = {} /\ 1..0 = {}
    BY <1>1, <1>2
  <1> QED
    BY <1>2, <1>4, <1>5 DEF FoundAfter, a

\* One turn: the call for the type of the next field.
LEMMA FoundNext ==
    ASSUME NEW table, NEW D \in DOMAIN table, NEW s \in Seq(DOMAIN table),
           NEW i \in Nat, NEW a, FoundAfter(table, D, s, i, a),
           i + 1 \in DOMAIN table[D],
           NEW r, Result(table, table[D][i + 1].type.name, a, r)
    PROVE  FoundAfter(table, D, s, i + 1, r)
  <1> DEFINE E == table[D][i + 1].type.name
             q == Len(s) + 1
  <1>1. a \in Seq(DOMAIN table) /\ r \in Seq(DOMAIN table) /\ IsInjective(r) /\ Extends(r, a)
    BY DEF FoundAfter, Result
  <1>2. /\ Append(s, D) \in Seq(DOMAIN table) /\ Len(Append(s, D)) = q
        /\ Append(s, D)[q] = D /\ q \in Nat \ {0}
    BY AppendProperties, LenProperties
  <1>3. Extends(a, Append(s, D)) /\ Extends(r, Append(s, D))
    BY <1>1, <1>2, ExtendsTransitive DEF FoundAfter
  <1>4. Len(a) \in Nat /\ Len(r) \in Nat /\ q <= Len(a) /\ Len(a) <= Len(r) /\ r[q] = D
    BY <1>1, <1>2, <1>3, LenProperties DEF Extends
  <1>5. ASSUME NEW p \in (q + 1)..Len(r) PROVE Settled(table, r, p)
    <2>1. CASE p <= Len(a)
      <3>1. p \in 1..Len(a) /\ Settled(table, a, p)
        BY <1>2, <1>4, <1>5, <2>1 DEF FoundAfter
      <3> QED
        BY <1>1, <3>1, SettledStays
    <2>2. CASE p > Len(a)
      <3>1. p \in (Len(a) + 1)..Len(r)
        BY <1>4, <1>5, <2>2
      <3> QED
        BY <3>1 DEF Result
    <2> QED
      BY <1>2, <1>4, <1>5, <2>1, <2>2
  <1>6. ASSUME NEW p \in (q + 1)..Len(r) PROVE Needed(table, r, q, p)
    <2>1. CASE p <= Len(a)
      <3>1. p \in 1..Len(a) /\ Needed(table, a, q, p)
        BY <1>2, <1>4, <1>5, <2>1 DEF FoundAfter
      <3> QED
        BY <1>1, <1>2, <3>1, NeededStays
    <2>2. CASE p = Len(a) + 1
      <3>1. Len(r) > Len(a)
        BY <1>4, <1>6, <2>2
      <3>2. r[p] = E
        BY <2>2, <3>1 DEF Result
      <3>3. q \in q..(p - 1)
        BY <1>2, <1>4, <2>2
      <3> QED
        BY <1>4, <3>2, <3>3 DEF Needed
    <2>3. CASE p > Len(a) + 1
      <3>1. p \in (Len(a) + 2)..Len(r)
        BY <1>4, <1>6, <2>3
      <3>2. Needed(table, r, Len(a) + 1, p)
        BY <3>1 DEF Result
      <3>3. \A j \in (Len(a) + 1)..(p - 1) : j \in q..(p - 1)
        BY <1>2, <1>4, <3>1
      <3> QED
        BY <3>2, <3>3 DEF Needed
    <2> QED
      BY <1>2, <1>4, <1>6, <2>1, <2>2, <2>3
  <1>7. ASSUME NEW k \in 1..(i + 1), table[D][k].type.name \in DOMAIN table
        PROVE  Contains(r, table[D][k].type.name)
    <2>1. CASE k = i + 1
      BY <1>7, <2>1 DEF Result
    <2>2. CASE k \in 1..i
      <3>1. Contains(a, table[D][k].type.name)
        BY <1>7, <2>2 DEF FoundAfter
      <3> QED
        BY <1>1, <3>1, ExtendsContains
    <2> QED
      BY <2>1, <2>2
  <1>8. q + 1 = Len(s) + 2
    BY LenProperties
  <1> HIDE DEF q
  <1>9. /\ \A p \in (Len(s) + 2)..Len(r) : Settled(table, r, p)
        /\ \A p \in (Len(s) + 2)..Len(r) : Needed(table, r, Len(s) + 1, p)
    BY <1>5, <1>6, <1>8 DEF q
  <1> QED
    BY <1>1, <1>3, <1>7, <1>9 DEF FoundAfter

\* Once the loop is through, it has found D and all that D needs.
LEMMA FoundLast ==
    ASSUME NEW table, IsTable(table), NEW D \in DOMAIN table, NEW s \in Seq(DOMAIN table),
           NEW r, FoundAfter(table, D, s, Len(table[D]), r)
    PROVE  Result(table, D, s, r)
  <1> DEFINE q == Len(s) + 1
  <1>1. /\ Append(s, D) \in Seq(DOMAIN table) /\ Len(Append(s, D)) = q
        /\ \A j \in 1..q : Append(s, D)[j] = IF j = q THEN D ELSE s[j]
        /\ q \in Nat \ {0} /\ Len(s) \in Nat /\ Len(s) < q
    BY AppendProperties, LenProperties
  <1>2. r \in Seq(DOMAIN table) /\ IsInjective(r) /\ Extends(r, Append(s, D)) /\ Len(r) \in Nat
    BY LenProperties DEF FoundAfter
  <1>3. q <= Len(r) /\ r[q] = D /\ Len(s) <= Len(r)
    BY <1>1, <1>2 DEF Extends
  <1>4. Extends(r, s)
    BY <1>1, <1>2, <1>3 DEF Extends
  <1>5. Contains(r, D)
    BY <1>1, <1>2, <1>3 DEF Contains
  <1>6. ASSUME NEW p \in q..Len(r) PROVE Settled(table, r, p)
    <2>1. CASE p = q
      BY <1>3, <2>1, TableFields DEF FoundAfter, Settled
    <2>2. CASE p # q
      <3>1. p \in (Len(s) + 2)..Len(r)
        BY <1>1, <1>2, <1>6, <2>2
      <3> QED
        BY <3>1 DEF FoundAfter
    <2> QED
      BY <2>1, <2>2
  <1>7. \A p \in (Len(s) + 2)..Len(r) : Needed(table, r, Len(s) + 1, p)
    BY DEF FoundAfter
  <1> QED
    BY <1>2, <1>3, <1>4, <1>5, <1>6, <1>7 DEF Result

\* The loop over the fields, if the calls in it are good.
LEMMA FieldsResult ==
    ASSUME NEW table, IsTable(table), NEW calls, NEW n \in Nat, GoodCalls(table, calls, n),
           NEW D \in DOMAIN table, NEW s \in Seq(DOMAIN table), IsInjective(s),
           ~Contains(s, D), (n + 1) + Len(s) >= Cardinality(DOMAIN table)
    PROVE  Result(table, D, s, DependenciesOfFields(table, calls, D, s))
  <1>1. Len(table[D]) \in Nat /\ DOMAIN table[D] = 1..Len(table[D])
    BY TableFields
  <1>2. PICK g : FieldTurns(table, calls, D, s, g)
    BY <1>1, FieldSteps
  <1>3. /\ g[0] = Append(s, D)
        /\ \A i \in 1..Len(table[D]) :
               g[i] = MergeCall(calls, TypeOfField(table[D][i]), g[i - 1])
        /\ DependenciesOfFields(table, calls, D, s) = g[Len(table[D])]
    BY <1>2 DEF FieldTurns
  <1> DEFINE T == {i \in Nat : i <= Len(table[D]) => FoundAfter(table, D, s, i, g[i])}
  <1>4. 0 \in T
    BY <1>3, FoundFirst
  <1>5. ASSUME NEW i \in Nat, i \in T PROVE i + 1 \in T
    <2> SUFFICES ASSUME i + 1 <= Len(table[D]) PROVE FoundAfter(table, D, s, i + 1, g[i + 1])
      OBVIOUS
    <2> DEFINE E == table[D][i + 1].type.name
               a == g[i]
               r == calls[E][a]
    <2>1. i + 1 \in 1..Len(table[D]) /\ (i + 1) - 1 = i /\ i <= Len(table[D])
      BY <1>1
    <2>2. FoundAfter(table, D, s, i, a)
      BY <1>5, <2>1
    <2>3. E \in TypeNames(table)
      BY <1>1, <2>1 DEF TypeNames, TypeOfField
    <2>4. g[i + 1] = Merge(a, r)
      BY <1>3, <2>1 DEF MergeCall, TypeOfField
    <2> HIDE DEF E, a, r
    <2>5. a \in Seq(DOMAIN table) /\ IsInjective(a) /\ n + Len(a) >= Cardinality(DOMAIN table)
      <3>1. Len(Append(s, D)) = Len(s) + 1 /\ Len(s) \in Nat
        BY AppendProperties, LenProperties
      <3>2. a \in Seq(DOMAIN table) /\ IsInjective(a) /\ Len(s) + 1 <= Len(a)
        BY <2>2, <3>1 DEF FoundAfter, Extends
      <3>3. Len(a) \in Nat /\ Cardinality(DOMAIN table) \in Nat
        BY <3>2, LenProperties, FS_CardinalityType DEF IsTable
      <3> QED
        BY <3>1, <3>2, <3>3
    <2>6. Result(table, E, a, r)
      BY <2>3, <2>5 DEF GoodCalls, r
    <2>7. Merge(a, r) = r
      BY <2>5, <2>6, MergeIsLast DEF Result
    <2> QED
      BY <1>1, <2>1, <2>2, <2>4, <2>6, <2>7, FoundNext DEF E
  <1> HIDE DEF T
  <1>6. Len(table[D]) \in T
    BY <1>1, <1>4, <1>5, SetInduction
  <1>7. FoundAfter(table, D, s, Len(table[D]), g[Len(table[D])])
    BY <1>1, <1>6 DEF T
  <1> QED
    BY <1>3, <1>7, FoundLast

\* Without nested calls, all types must have been found.
LEMMA NoCallGood ==
    ASSUME NEW table, IsTable(table)
    PROVE  GoodCalls(table, NoCall(table), 0)
  <1> SUFFICES ASSUME NEW D \in TypeNames(table), NEW s \in Seq(DOMAIN table),
                      IsInjective(s), 0 + Len(s) >= Cardinality(DOMAIN table)
               PROVE  Result(table, D, s, NoCall(table)[D][s])
    BY DEF GoodCalls
  <1>1. NoCall(table)[D][s] = s
    BY DEF NoCall
  <1>2. Len(s) \in Nat
    BY LenProperties
  <1>3. \A E \in DOMAIN table : Contains(s, E)
    BY <1>2, FullHasAll DEF IsTable
  <1> QED
    BY <1>1, <1>3, StartIsResult

\* A call whose nested calls are good is good.
LEMMA NextCallGood ==
    ASSUME NEW table, IsTable(table), NEW calls, NEW n \in Nat, GoodCalls(table, calls, n)
    PROVE  GoodCalls(table, DependenciesCall(table, calls), n + 1)
  <1> SUFFICES ASSUME NEW D \in TypeNames(table), NEW s \in Seq(DOMAIN table),
                      IsInjective(s), (n + 1) + Len(s) >= Cardinality(DOMAIN table)
               PROVE  Result(table, D, s, DependenciesCall(table, calls)[D][s])
    BY DEF GoodCalls
  <1> DEFINE r == IF Contains(s, D) \/ D \notin DOMAIN table THEN s
                  ELSE DependenciesOfFields(table, calls, D, s)
  <1>1. DependenciesCall(table, calls)[D][s] = r
    BY DEF DependenciesCall
  <1>2. CASE Contains(s, D) \/ D \notin DOMAIN table
    BY <1>1, <1>2, StartIsResult
  <1>3. CASE ~Contains(s, D) /\ D \in DOMAIN table
    BY <1>1, <1>3, FieldsResult
  <1> QED
    BY <1>2, <1>3

\* There are as many levels of calls as types, so the outermost call is good.
LEMMA DependenciesResult ==
    ASSUME NEW table, IsTable(table), NEW D \in DOMAIN table
    PROVE  Result(table, D, <<>>, Dependencies(table, D))
  <1> DEFINE N == Cardinality(DOMAIN table)
  <1>1. N \in Nat
    BY FS_CardinalityType DEF IsTable
  <1> DEFINE g == DependencyCalls(table)
  <1>2. g[0] = NoCall(table) /\ \A i \in 1..N : g[i] = DependenciesCall(table, g[i - 1])
    BY <1>1, DependencySteps
  <1> HIDE DEF g
  <1> DEFINE T == {i \in Nat : i <= N => GoodCalls(table, g[i], i)}
  <1>3. 0 \in T
    BY <1>2, NoCallGood
  <1>4. ASSUME NEW i \in Nat, i \in T PROVE i + 1 \in T
    <2> SUFFICES ASSUME i + 1 <= N PROVE GoodCalls(table, g[i + 1], i + 1)
      OBVIOUS
    <2>1. i + 1 \in 1..N /\ (i + 1) - 1 = i /\ i <= N
      BY <1>1
    <2>2. GoodCalls(table, g[i], i) /\ g[i + 1] = DependenciesCall(table, g[i])
      BY <1>2, <1>4, <2>1
    <2> QED
      BY <2>2, NextCallGood
  <1> HIDE DEF T
  <1>5. N \in T
    BY <1>1, <1>3, <1>4, SetInduction
  <1>6. GoodCalls(table, g[N], N)
    BY <1>1, <1>5 DEF T
  <1>7. /\ D \in TypeNames(table) /\ <<>> \in Seq(DOMAIN table) /\ IsInjective(<<>>)
        /\ N + Len(<<>>) >= N
    BY <1>1 DEF TypeNames, IsInjective
  <1>8. Dependencies(table, D) = g[N][D][<<>>]
    BY DEF Dependencies, g
  <1> QED
    BY <1>6, <1>7, <1>8 DEF GoodCalls

\* The types that the type hash of D covers are the ones a value of D can
\* contain, and no more.
LEMMA DependenciesCover ==
    ASSUME NEW table, IsTable(table), ValidTypes(table), NEW D \in DOMAIN table
    PROVE  Covers(table, D, Dependencies(table, D))
  <1> DEFINE r == Dependencies(table, D)
  <1>1. Result(table, D, <<>>, r)
    BY DependenciesResult
  <1> HIDE DEF r
  <1>2. /\ r \in Seq(DOMAIN table) /\ IsInjective(r) /\ Contains(r, D)
        /\ Len(r) \in Nat /\ DOMAIN r = 1..Len(r) /\ Len(<<>>) = 0
    BY <1>1, LenProperties DEF Result
  <1>3. Len(r) > 0 /\ r[1] = D
    BY <1>1, <1>2 DEF Result, Contains
  <1>4. ToSet(r) = {r[p] : p \in 1..Len(r)} /\ \A p \in 1..Len(r) : r[p] \in DOMAIN table
    BY <1>2, ElementOfSeq DEF ToSet
  <1>5. Closed(table, ToSet(r))
    <2> SUFFICES ASSUME NEW p \in 1..Len(r), NEW k \in DOMAIN table[r[p]]
                 PROVE  table[r[p]][k].type.name \in ToSet(r) \cup Primitives
      BY <1>4 DEF Closed
    <2>1. Settled(table, r, p)
      BY <1>1, <1>2 DEF Result
    <2>2. table[r[p]][k].type.name \in Primitives \cup DOMAIN table
      BY <1>4 DEF ValidTypes
    <2> QED
      BY <1>4, <2>1, <2>2 DEF Settled, Contains
  <1>6. ASSUME NEW E \in ToSet(r) \ {D}, Closed(table, ToSet(r) \ {E}) PROVE FALSE
    <2>1. PICK p \in 1..Len(r) : r[p] = E
      BY <1>4, <1>6
    <2>2. p \in (Len(<<>>) + 2)..Len(r) /\ Len(<<>>) + 1 = 1
      BY <1>2, <1>3, <1>6, <2>1
    <2>3. Needed(table, r, 1, p)
      BY <1>1, <2>2 DEF Result
    <2>4. PICK j \in 1..(p - 1) :
              \E k \in DOMAIN table[r[j]] : table[r[j]][k].type.name = r[p]
      BY <2>3 DEF Needed
    <2>5. j \in 1..Len(r) /\ p \in 1..Len(r) /\ j # p
      BY <1>2, <2>2, <2>4
    <2>6. r[j] # E
      BY <1>2, <2>1, <2>5 DEF IsInjective
    <2>7. r[j] \in ToSet(r) \ {E} /\ E \in DOMAIN table
      BY <1>4, <2>1, <2>5, <2>6
    <2>8. E \in (ToSet(r) \ {E}) \cup Primitives
      BY <1>6, <2>1, <2>4, <2>7 DEF Closed
    <2> QED
      BY <2>7, <2>8 DEF IsTable
  <1> QED
    BY <1>2, <1>3, <1>5, <1>6 DEF Covers, r

-----------------------------------------------------------------------------
(* The walk. *)

\* A table of the walk: the types of the header are there from the start, and
\* the type of the domain is never changed.
WalkTable(table) ==
    /\ IsTable(table)
    /\ {<<"EIP712Domain">>, <<"Tx">>, <<"Fee">>} \subseteq DOMAIN table
    /\ table[<<"EIP712Domain">>] = RootTypes[<<"EIP712Domain">>]

\* The lists of fields that the walk starts with.
LEMMA TuplesAreFields ==
    ASSUME NEW a, NEW b, NEW c, NEW d, NEW e, NEW f, NEW g,
           IsField(a), IsField(b), IsField(c), IsField(d), IsField(e), IsField(f), IsField(g)
    PROVE  /\ IsFields(<<>>) /\ IsFields(<<a, b>>) /\ IsFields(<<a, b, c>>)
           /\ IsFields(<<a, b, c, d, e>>) /\ IsFields(<<a, b, c, d, e, f, g>>)
  <1>1. IsFields(<<>>) /\ IsFields(<<a, b>>)
    BY DEF IsFields, ToSet
  <1>2. IsFields(<<a, b, c>>)
    BY DEF IsFields, ToSet
  <1>3. IsFields(<<a, b, c, d, e>>)
    BY DEF IsFields, ToSet
  <1>4. IsFields(<<a, b, c, d, e, f, g>>)
    BY DEF IsFields, ToSet
  <1> QED
    BY <1>1, <1>2, <1>3, <1>4

\* The fields that are made by the constructors.
LEMMA RefsAreFields ==
    /\ \A name, t : \A b \in BOOLEAN : IsField(Field(name, Ref(t, b)))
    /\ \A name, t : IsField(Field(name, Basic(t)))
    /\ \A name : IsField(Named(name))
  BY DEF IsField, Field, Ref, Basic, Named

\* A set of three elements is finite.
LEMMA ThreeFinite ==
    ASSUME NEW a, NEW b, NEW c
    PROVE  IsFiniteSet({a, b, c})
  <1>1. IsFiniteSet({a}) /\ IsFiniteSet({b}) /\ IsFiniteSet({c})
    BY FS_Singleton, Zenon
  <1>2. IsFiniteSet({a} \cup {b})
    BY <1>1, FS_Union, Zenon
  <1>3. IsFiniteSet(({a} \cup {b}) \cup {c})
    BY <1>1, <1>2, FS_Union, Zenon
  <1>4. {a, b, c} = ({a} \cup {b}) \cup {c}
    OBVIOUS
  <1> QED
    BY <1>3, <1>4

\* The walk starts with a table.
LEMMA RootTable == WalkTable(RootTypes)
  <1> DEFINE EIP == <<"EIP712Domain">>
             R == {EIP, <<"Tx">>, <<"Fee">>, <<"Coin">>, <<"Msg">>, Root}
  <1>1. DOMAIN RootTypes = R
    BY DEF RootTypes
  <1>2. IsFiniteSet(R)
    <2>1. IsFiniteSet({EIP, <<"Tx">>, <<"Fee">>})
      BY ThreeFinite
    <2>2. IsFiniteSet({<<"Coin">>, <<"Msg">>, Root})
      BY ThreeFinite
    <2>3. R = {EIP, <<"Tx">>, <<"Fee">>} \cup {<<"Coin">>, <<"Msg">>, Root}
      OBVIOUS
    <2> QED
      BY <2>1, <2>2, <2>3, FS_Union, Zenon
  <1>3. R \cap Primitives = {}
    BY DEF Root, Primitives, IntegerTypes
  <1>4. ASSUME NEW D \in R PROVE IsFields(RootTypes[D])
    <2>1. CASE D = EIP
      <3>1. RootTypes[D] = <<Named(<<"name">>), Named(<<"version">>),
                             Field(<<"chainId">>, Basic("uint256")),
                             Named(<<"verifyingContract">>), Named(<<"salt">>)>>
        BY <2>1 DEF RootTypes, Root
      <3> QED
        BY <3>1, RefsAreFields, TuplesAreFields
    <2>2. CASE D = <<"Tx">>
      <3>1. RootTypes[D] =
                <<Named(<<"account", "number">>), Named(<<"chain", "id">>),
                  Field(<<"fee">>, Ref(<<"Fee">>, FALSE)), Named(<<"memo">>),
                  Field(<<"msgs">>, Ref(<<"Msg">>, TRUE)), Named(<<"sequence">>),
                  Named(<<"timeout", "height">>)>>
        BY <2>2 DEF RootTypes, Root
      <3> QED
        BY <3>1, RefsAreFields, TuplesAreFields
    <2>3. CASE D = <<"Fee">>
      <3>1. RootTypes[D] = <<Field(<<"amount">>, Ref(<<"Coin">>, TRUE)), Named(<<"gas">>)>>
        BY <2>3 DEF RootTypes, Root
      <3> QED
        BY <3>1, RefsAreFields, TuplesAreFields
    <2>4. CASE D = <<"Coin">>
      <3>1. RootTypes[D] = <<Named(<<"denom">>), Named(<<"amount">>)>>
        BY <2>4 DEF RootTypes, Root
      <3> QED
        BY <3>1, RefsAreFields, TuplesAreFields
    <2>5. CASE D = <<"Msg">>
      <3>1. RootTypes[D] = <<Named(<<"type">>), Field(<<"value">>, Ref(Root, FALSE))>>
        BY <2>5 DEF RootTypes, Root
      <3> QED
        BY <3>1, RefsAreFields, TuplesAreFields
    <2>6. CASE D = Root
      <3>1. RootTypes[D] = <<>>
        BY <2>6 DEF RootTypes, Root
      <3> QED
        BY <3>1, RefsAreFields, TuplesAreFields
    <2> QED
      BY <2>1, <2>2, <2>3, <2>4, <2>5, <2>6
  <1> HIDE DEF R
  <1>5. {EIP, <<"Tx">>, <<"Fee">>} \subseteq R
    BY DEF R
  <1> QED
    BY <1>1, <1>2, <1>3, <1>4, <1>5 DEF WalkTable, IsTable

\* The walk adds fields to the type of a message or of a structure in it only.
LEMMA DefinedNames ==
    ASSUME NEW path
    PROVE  TypeDef(path) \notin Primitives \cup {<<"EIP712Domain">>}
  BY DEF TypeDef, SanitizeTypedef, Root, Primitives, IntegerTypes

\* The walk keeps the table one.
LEMMA WithFieldTable ==
    ASSUME NEW table, WalkTable(table), NEW path, NEW f, IsField(f)
    PROVE  WalkTable(WithField(table, TypeDef(path), f))
  <1> DEFINE def == TypeDef(path)
             old == IF def \in DOMAIN table THEN table[def] ELSE <<>>
             new == WithField(table, def, f)
  <1>1. /\ DOMAIN new = DOMAIN table \cup {def} /\ new[def] = Append(old, f)
        /\ \A T \in DOMAIN table : T # def => new[T] = table[T]
    BY DEF WithField
  <1>2. def \notin Primitives \cup {<<"EIP712Domain">>}
    BY DefinedNames
  <1> HIDE DEF def, new
  <1>3. IsFiniteSet(DOMAIN new)
    BY <1>1, FS_AddElement DEF WalkTable, IsTable
  <1>4. IsFields(old)
    <2>1. IsFields(<<>>)
      BY DEF IsFields, ToSet
    <2> QED
      BY <2>1 DEF WalkTable, IsTable
  <1> HIDE DEF old
  <1>5. IsFields(Append(old, f))
    <2> DEFINE new2 == Append(old, f)
               S == ToSet(old) \cup {f}
    <2>1. old \in Seq(S) /\ f \in S /\ Len(old) \in Nat /\ DOMAIN old = 1..Len(old)
      BY <1>4, LenProperties DEF IsFields
    <2>2. /\ new2 \in Seq(S) /\ DOMAIN new2 = 1..(Len(old) + 1) /\ Len(new2) = Len(old) + 1
          /\ \A i \in 1..(Len(old) + 1) : new2[i] = IF i = Len(old) + 1 THEN f ELSE old[i]
      BY <2>1
    <2> HIDE DEF new2
    <2>3. \A i \in DOMAIN new2 : IsField(new2[i])
      BY <1>4, <2>1, <2>2 DEF IsFields
    <2>4. new2 \in Seq(ToSet(new2))
      <3>1. \A i \in 1..Len(new2) : new2[i] \in ToSet(new2)
        BY <2>1, <2>2 DEF ToSet
      <3> HIDE DEF S
      <3> QED
        BY <2>1, <2>2, <3>1
    <2> QED
      BY <2>3, <2>4 DEF IsFields, new2
  <1>6. \A D \in DOMAIN new : IsFields(new[D])
    BY <1>1, <1>5 DEF WalkTable, IsTable
  <1> QED
    BY <1>1, <1>2, <1>3, <1>6 DEF WalkTable, IsTable, def, new

\* The types and the document agree with the transaction at every stage, and a
\* hash is that of the typed data.
WrapInv ==
    /\ doc \in Docs
    /\ WalkTable(types)
    /\ stage \in {"wrapped", "hashed"} =>
           /\ WalkTable(typed[1].types)
           /\ typed[1].message = Agreed(doc)
           /\ typed[1].domain = Domain(doc.chain)
    /\ stage = "hashed" => hash = ComputeTypedDataHash(typed[1]) /\ ~Failed(hash)

\* The patch for a fee payer keeps the table one.
LEMMA WrappedTable ==
    ASSUME NEW table, WalkTable(table), NEW message, NEW payer
    PROVE  WalkTable(WithFeePayer(table, message, payer).types)
  <1> DEFINE q == <<Named(<<"feePayer">>), Field(<<"amount">>, Ref(<<"Coin">>, TRUE)),
                    Named(<<"gas">>)>>
             new == [table EXCEPT ![<<"Fee">>] = q]
  <1>1. WithFeePayer(table, message, payer).types = new
    BY DEF WithFeePayer
  <1>2. IsFields(q)
    BY RefsAreFields, TuplesAreFields
  <1> HIDE DEF q
  <1>3. /\ DOMAIN new = DOMAIN table
        /\ \A T \in DOMAIN table : new[T] = IF T = <<"Fee">> THEN q ELSE table[T]
    OBVIOUS
  <1> HIDE DEF new
  <1>4. <<"EIP712Domain">> # <<"Fee">>
    OBVIOUS
  <1> QED
    BY <1>1, <1>2, <1>3, <1>4 DEF WalkTable, IsTable

\* Every step keeps the invariant.
LEMMA WrapInvNext == WrapInv /\ [Next]_vars => WrapInv'
  <1> SUFFICES ASSUME WrapInv, [Next]_vars PROVE WrapInv'
    OBVIOUS
  <1>1. CASE ExtractMsgTypes
    BY <1>1, RootTable DEF WrapInv, ExtractMsgTypes
  <1>2. CASE FieldPanics
    BY <1>2 DEF WrapInv, FieldPanics
  <1>3. CASE FieldSkipped
    <2>1. stage = "walk"
      BY <1>3 DEF FieldSkipped, Reached, Walking
    <2> QED
      BY <1>3, <2>1 DEF WrapInv, FieldSkipped
  <1>4. CASE FieldBasic
    <2>1. stage = "walk" /\ stage' = "walk" /\ doc' = doc
      BY <1>4 DEF FieldBasic, Reached, Walking
    <2> DEFINE t == item[1][1]
               f == Field(field.name, TypToEth(t)[1])
    <2>2. IsField(f)
      <3>1. \/ TypToEth(t) = <<Basic(t.kind)>>
            \/ TypToEth(t) = <<Ref(<<"uint8">>, TRUE)>>
        BY <1>4 DEF FieldBasic, TypToEth, Failed
      <3> DEFINE e == TypToEth(t)
                 b == Basic(t.kind)
                 u == Ref(<<"uint8">>, TRUE)
      <3>0. e = <<b>> \/ e = <<u>>
        BY <3>1
      <3> HIDE DEF e, b, u
      <3>2. e[1] = b \/ e[1] = u
        BY <3>0
      <3> QED
        BY <3>2, RefsAreFields, Zenon DEF e, b, u
    <2>3. types' = WithField(types, TypeDef(top.path), f)
      BY <1>4 DEF FieldBasic
    <2>4. WalkTable(types')
      BY <2>2, <2>3, WithFieldTable DEF WrapInv
    <2> QED
      BY <2>1, <2>4 DEF WrapInv
  <1>5. CASE FieldStruct
    <2>1. stage = "walk" /\ stage' = "walk" /\ doc' = doc
      BY <1>5 DEF FieldStruct, Reached, Walking
    <2> DEFINE f == Field(field.name, Ref(TypeDef(Append(top.path, field.name)),
                                          IsCollection(ftype)))
    <2>2. IsField(f)
      <3>1. IsCollection(ftype) \in BOOLEAN
        BY DEF IsCollection
      <3> QED
        BY <3>1, RefsAreFields, Zenon
    <2>3. types' = WithField(types, TypeDef(top.path), f)
      BY <1>5 DEF FieldStruct
    <2>4. WalkTable(types')
      BY <2>2, <2>3, WithFieldTable DEF WrapInv
    <2> QED
      BY <2>1, <2>4 DEF WrapInv
  <1>6. CASE FieldsDone
    BY <1>6 DEF WrapInv, FieldsDone
  <1>7. CASE Wrap
    <2> DEFINE wrapped == IF doc.payer = 0 THEN [types |-> types, message |-> SignBytes(doc)]
                          ELSE WithFeePayer(types, SignBytes(doc), doc.payer)
               td == [types |-> wrapped.types, message |-> wrapped.message,
                      domain |-> Domain(doc.chain)]
    <2>1. typed' = <<td>> /\ stage' = "wrapped" /\ UNCHANGED <<doc, types>>
      BY <1>7 DEF Wrap
    <2>2. WalkTable(wrapped.types)
      BY WrappedTable DEF WrapInv
    <2>3. wrapped.message = Agreed(doc)
      BY DEF Agreed, WithFeePayer
    <2> HIDE DEF wrapped
    <2>4. typed'[1] = td
      BY <2>1
    <2> QED
      BY <2>1, <2>2, <2>3, <2>4 DEF WrapInv
  <1>8. CASE Hash
    <2>1. /\ stage = "wrapped" /\ hash' = ComputeTypedDataHash(typed[1])
          /\ stage' = (IF Failed(hash') THEN "refused" ELSE "hashed")
          /\ UNCHANGED <<doc, types, stack, typed>>
      BY <1>8 DEF Hash
    <2>2. CASE Failed(hash')
      BY <2>1, <2>2 DEF WrapInv
    <2>3. CASE ~Failed(hash')
      BY <2>1, <2>3 DEF WrapInv
    <2> QED
      BY <2>2, <2>3
  <1>9. CASE UNCHANGED vars
    BY <1>9 DEF WrapInv, vars
  <1> QED
    BY <1>1, <1>2, <1>3, <1>4, <1>5, <1>6, <1>7, <1>8, <1>9 DEF Next

\* The invariant holds.
LEMMA WrapInvHolds == Spec => []WrapInv
  <1>1. Init => WrapInv
    BY RootTable DEF Init, WrapInv
  <1> QED
    BY <1>1, WrapInvNext, PTL DEF Spec

-----------------------------------------------------------------------------
(* Values and their levels. *)

\* A value n levels above the last: so are the parts of it n - 1 levels above.
At(x, n) == Levels(x)[Depth - n]

\* What is in a value is one level further down.
LEMMA PartsAt ==
    ASSUME NEW x, NEW n \in Nat, n + 1 <= Depth, NEW y \in At(x, n + 1)
    PROVE  y \in At(x, n) /\ Parts(y) \subseteq At(x, n)
  <1> DEFINE k == Depth - n
  <1>1. k \in 1..Depth /\ k - 1 = Depth - (n + 1)
    BY BoundAssumption
  <1>2. Levels(x)[k] = WithParts(Levels(x)[k - 1])
    BY <1>1, LevelSteps
  <1>3. At(x, n) = WithParts(At(x, n + 1))
    BY <1>1, <1>2 DEF At
  <1> QED
    BY <1>3 DEF WithParts

\* Every level is among the nested values.
LEMMA NestedAt ==
    ASSUME NEW x
    PROVE  /\ x \in At(x, Depth) /\ At(x, 0) \subseteq Nested(x)
           /\ \A n \in 0..Depth : At(x, n) \subseteq Nested(x)
  <1> DEFINE T == {n \in Nat : n <= Depth => At(x, n) \subseteq At(x, 0)}
  <1>1. 0 \in T
    OBVIOUS
  <1>2. ASSUME NEW n \in Nat, n \in T PROVE n + 1 \in T
    <2> SUFFICES ASSUME n + 1 <= Depth PROVE At(x, n + 1) \subseteq At(x, 0)
      OBVIOUS
    <2>1. n <= Depth
      BY BoundAssumption
    <2>2. At(x, n) \subseteq At(x, 0)
      BY <1>2, <2>1
    <2> QED
      BY <2>2, PartsAt
  <1> HIDE DEF T
  <1>3. Nat \subseteq T
    BY <1>1, <1>2, SetInduction
  <1>4. ASSUME NEW n \in 0..Depth PROVE At(x, n) \subseteq At(x, 0)
    BY <1>3, BoundAssumption DEF T
  <1>5. At(x, 0) = Levels(x)[Depth] /\ At(x, Depth) = Levels(x)[0]
    BY BoundAssumption DEF At
  <1> QED
    BY <1>4, <1>5, LevelSteps DEF Nested

-----------------------------------------------------------------------------
(* Encoding. *)

\* All results are there if none is an error.
LEMMA TogetherAll ==
    ASSUME NEW rs, ~Failed(Together(rs))
    PROVE  /\ \A i \in DOMAIN rs : ~Failed(rs[i])
           /\ Together(rs)[1] = [i \in DOMAIN rs |-> rs[i][1]]
  <1>1. ASSUME NEW i \in DOMAIN rs, Failed(rs[i]) PROVE FALSE
    BY <1>1 DEF Together, Failed
  <1>2. Together(rs) = <<[i \in DOMAIN rs |-> rs[i][1]]>>
    BY <1>1 DEF Together
  <1> QED
    BY <1>1, <1>2

\* An encoding has one result or none, and there is none of what is missing.
EncodeGood(table, V, enc) ==
    /\ \A ref \in Refs(table), x \in V : ~Failed(enc[ref][x]) => enc[ref][x] = <<enc[ref][x][1]>>
    /\ \A ref \in Refs(table) : Failed(enc[ref][Nil])

\* Every level of EncodeCalls is good.
LEMMA EncodeGoodNext ==
    ASSUME NEW table, NEW V, Nil \in V, NEW enc
    PROVE  EncodeGood(table, V, EncodeCall(table, V, enc))
  <1>1. ASSUME NEW ref \in Refs(table), NEW x \in V
        PROVE  EncodeCall(table, V, enc)[ref][x] =
                   IF ref.array THEN EncodeArray(enc, ref.name, x)
                   ELSE IF ref.name \in DOMAIN table THEN EncodeData(table, enc, ref.name, x)
                   ELSE EncodePrimitiveValue(ref.name, x)
    BY DEF EncodeCall
  <1>2. ASSUME NEW name, NEW x, NEW r, r = EncodeArray(enc, name, x)
        PROVE  Failed(r) \/ r = <<r[1]>>
    BY <1>2 DEF EncodeArray, Failed
  <1>3. ASSUME NEW name, NEW x, NEW r, r = EncodeData(table, enc, name, x)
        PROVE  Failed(r) \/ r = <<r[1]>>
    <2> DEFINE values == Together([i \in DOMAIN table[name] |->
                             enc[table[name][i].type][Get(x[2], table[name][i].name)]])
               y == <<"struct", values[1], TypeHash(table, name)>>
               bad == x[1] # "object" \/ ~ValidTypes(table) \/ ExtraData(table, name, x[2])
    <2>1. r = IF bad THEN <<>> ELSE IF Failed(values) THEN <<>> ELSE <<y>>
      BY <1>3, Zenon DEF EncodeData
    <2> HIDE DEF values, y, bad
    <2>2. r = <<>> \/ r = <<y>>
      BY <2>1
    <2> QED
      BY <2>2 DEF Failed
  <1>4. ASSUME NEW name, NEW x, NEW r, r = EncodePrimitiveValue(name, x)
        PROVE  Failed(r) \/ r = <<r[1]>>
    BY <1>4 DEF EncodePrimitiveValue, ParseInteger, Failed
  <1>5. Nil[1] = "nil"
    BY DEF Nil
  <1>6. ASSUME NEW name PROVE Failed(EncodeArray(enc, name, Nil))
    BY <1>5 DEF EncodeArray, Failed
  <1>7. ASSUME NEW name PROVE Failed(EncodeData(table, enc, name, Nil))
    BY <1>5 DEF EncodeData, Failed
  <1>8. ASSUME NEW name PROVE Failed(EncodePrimitiveValue(name, Nil))
    BY <1>5 DEF EncodePrimitiveValue, ParseInteger, Failed
  <1>9. ASSUME NEW ref \in Refs(table), NEW x \in V, ~Failed(EncodeCall(table, V, enc)[ref][x])
        PROVE  EncodeCall(table, V, enc)[ref][x] = <<EncodeCall(table, V, enc)[ref][x][1]>>
    BY <1>1, <1>2, <1>3, <1>4, <1>9
  <1>10. ASSUME NEW ref \in Refs(table) PROVE Failed(EncodeCall(table, V, enc)[ref][Nil])
    BY <1>1, <1>6, <1>7, <1>8
  <1> QED
    BY <1>9, <1>10 DEF EncodeGood

\* Every level of calls is as good, and calls the one below.
LEMMA EncodeLevels ==
    ASSUME NEW table, NEW V, Nil \in V
    PROVE  /\ \A n \in 0..Depth : EncodeGood(table, V, EncodeCalls(table, V)[n])
           /\ \A ref \in Refs(table), x \in V : Failed(EncodeCalls(table, V)[0][ref][x])
           /\ \A n \in 1..Depth :
                  EncodeCalls(table, V)[n] = EncodeCall(table, V, EncodeCalls(table, V)[n - 1])
  <1> DEFINE c == EncodeCalls(table, V)
  <1>1. \A n \in 1..Depth : c[n] = EncodeCall(table, V, c[n - 1])
    BY EncodeSteps
  <1>2. \A ref \in Refs(table), x \in V : c[0][ref][x] = <<>>
    <2>1. c[0] = NoEncoding(table, V)
      BY EncodeSteps
    <2> HIDE DEF c
    <2> QED
      BY <2>1 DEF NoEncoding
  <1> HIDE DEF c
  <1>3. EncodeGood(table, V, c[0])
    BY <1>2 DEF EncodeGood, Failed
  <1>4. ASSUME NEW n \in 1..Depth PROVE EncodeGood(table, V, c[n])
    BY <1>1, EncodeGoodNext
  <1>5. \A n \in 0..Depth : n = 0 \/ n \in 1..Depth
    BY BoundAssumption
  <1> QED
    BY <1>1, <1>2, <1>3, <1>4, <1>5 DEF c, Failed

\* What is hashed as a structure has valid types.
LEMMA HashStructEncodes ==
    ASSUME NEW table, NEW D \in DOMAIN table, NEW x, ~Failed(HashStruct(table, D, x))
    PROVE  /\ Depth \in 1..Depth
           /\ HashStruct(table, D, x) =
                  EncodeData(table, EncodeCalls(table, Nested(x))[Depth - 1], D, x)
           /\ ValidTypes(table)
  <1> DEFINE V == Nested(x)
             c == EncodeCalls(table, V)
             ref == Ref(D, FALSE)
  <1>1. x \in V /\ Nil \in V
    <2>1. Depth \in 0..Depth
      BY BoundAssumption
    <2> QED
      BY <2>1, NestedAt DEF Nested
  <1>2. ref \in Refs(table) /\ ref.name = D /\ ref.array = FALSE
    BY DEF Ref, Refs
  <1>3. HashStruct(table, D, x) = c[Depth][ref][x]
    BY DEF HashStruct
  <1> HIDE DEF V, ref
  <1>4. Depth # 0
    BY <1>1, <1>2, <1>3, EncodeLevels
  <1>5. Depth \in 1..Depth
    BY <1>4, BoundAssumption
  <1>6. c[Depth] = EncodeCall(table, V, c[Depth - 1])
    BY <1>1, <1>5, EncodeLevels
  <1>7. c[Depth][ref][x] = EncodeData(table, c[Depth - 1], D, x)
    BY <1>1, <1>2, <1>6 DEF EncodeCall
  <1>8. ValidTypes(table)
    <2>1. EncodeData(table, c[Depth - 1], D, x) # <<>>
      BY <1>3, <1>7 DEF Failed
    <2> QED
      BY <2>1 DEF EncodeData
  <1> QED
    BY <1>3, <1>5, <1>7, <1>8 DEF V

\* The two hashes of typed data.
LEMMA HashedIs ==
    ASSUME NEW td, ~Failed(ComputeTypedDataHash(td))
    PROVE  LET domain == HashStruct(td.types, <<"EIP712Domain">>, Object(td.domain))
               message == HashStruct(td.types, <<"Tx">>, Object(td.message))
           IN /\ ~Failed(domain) /\ ~Failed(message)
              /\ ComputeTypedDataHash(td)[1] = [domain |-> domain[1], message |-> message[1]]
  BY DEF ComputeTypedDataHash, Failed

\* Dependencies and EncodeType: the type hash of every type of a document that
\* was hashed covers exactly the types a value of it can contain.
THEOREM TypeHashesComplete == Spec => []DependenciesComplete
  <1>1. WrapInv => DependenciesComplete
    <2> SUFFICES ASSUME WrapInv, stage = "hashed", NEW D \in DOMAIN typed[1].types
                 PROVE  Covers(typed[1].types, D, Dependencies(typed[1].types, D))
      BY DEF DependenciesComplete
    <2> DEFINE table == typed[1].types
               message == Object(typed[1].message)
    <2>1. WalkTable(table) /\ ~Failed(ComputeTypedDataHash(typed[1]))
      BY DEF WrapInv
    <2>2. ~Failed(HashStruct(table, <<"Tx">>, message))
      BY <2>1, HashedIs
    <2>3. <<"Tx">> \in DOMAIN table /\ IsTable(table)
      BY <2>1 DEF WalkTable
    <2> HIDE DEF table, message
    <2>4. ValidTypes(table)
      BY <2>2, <2>3, HashStructEncodes
    <2> QED
      BY <2>3, <2>4, DependenciesCover DEF table
  <1> QED
    BY <1>1, WrapInvHolds, PTL

-----------------------------------------------------------------------------
(* Reading an encoding back. *)

IsJSON(x) == x = <<x[1], x[2]>> /\ (x[1] \in {"object", "list"} => IsFiniteSet(DOMAIN x[2]))

\* What the calls encode of the values X, the words W are read back as.
Binds(table, X, W, enc, dec, read) ==
    \A ref \in Refs(table), x \in X, e \in W :
        enc[ref][x] = <<e>> => dec[e][Reading(ref.name)] = read[ref][x]

\* The kinds of words.
LEMMA ReadingKinds ==
    ASSUME NEW name
    PROVE  Reading(name) \in {"text", "bool", "number"}
  BY DEF Reading

\* The references of a table, those of items too.
LEMMA RefIsIn ==
    ASSUME NEW table, NEW ref \in Refs(table)
    PROVE  /\ ref.name \in Primitives \cup DOMAIN table /\ ref.array \in BOOLEAN
           /\ Ref(ref.name, FALSE) \in Refs(table) /\ Ref(ref.name, FALSE).name = ref.name
  BY DEF Refs, Ref

\* The cases of a call, by name.
ReadArray(dec, e, how) == <<"list", [i \in DOMAIN e[2] |-> dec[e[2][i]][how]]>>
ReadStruct(dec, e) ==
    LET fs == e[3].defs[e[3].primary]
    IN Object([k \in FieldNames(fs) |->
                  LET i == FieldNamed(fs, k) IN dec[e[2][i]][Reading(fs[i].type.name)]])
ReadList(read, ref, x) == <<"list", [i \in DOMAIN x[2] |-> read[Ref(ref.name, FALSE)][x[2][i]]]>>
ReadObject(table, read, ref, x) ==
    Object([k \in DOMAIN x[2] |->
               IF ref.name \in DOMAIN table /\ k \in FieldNames(table[ref.name])
               THEN read[table[ref.name][FieldNamed(table[ref.name], k)].type][x[2][k]]
               ELSE x[2][k]])
Items(enc, name, x) == [i \in DOMAIN x[2] |-> enc[Ref(name, FALSE)][x[2][i]]]
Values(table, enc, D, x) ==
    [i \in DOMAIN table[D] |-> enc[table[D][i].type][Get(x[2], table[D][i].name)]]

\* A call of Decode, by cases.
LEMMA DecodeIs ==
    ASSUME NEW U, NEW dec, NEW e \in U, NEW how \in {"text", "bool", "number"}
    PROVE  /\ e[1] = "array" => DecodeCall(U, dec)[e][how] = ReadArray(dec, e, how)
           /\ e[1] = "struct" => DecodeCall(U, dec)[e][how] = ReadStruct(dec, e)
           /\ e[1] \notin {"array", "struct"} => DecodeCall(U, dec)[e][how] = <<how, e[2]>>
  <1>1. DecodeCall(U, dec)[e][how] =
            IF e[1] = "array" THEN ReadArray(dec, e, how)
            ELSE IF e[1] = "struct" THEN ReadStruct(dec, e)
            ELSE <<how, e[2]>>
    BY Zenon DEF DecodeCall, ReadArray, ReadStruct
  <1> QED
    BY <1>1

\* A call of AsRead, by cases.
LEMMA AsReadIs ==
    ASSUME NEW table, NEW V, NEW read, NEW ref \in Refs(table), NEW x \in V
    PROVE  AsReadCall(table, V, read)[ref][x] =
               IF x[1] = "list" THEN ReadList(read, ref, x)
               ELSE IF x[1] = "object" THEN ReadObject(table, read, ref, x)
               ELSE IF Reading(ref.name) = "number" THEN <<"number", NumberOf(x)>>
               ELSE x
  BY Zenon DEF AsReadCall, ReadList, ReadObject

\* A call of AsRead on a list.
LEMMA AsReadList ==
    ASSUME NEW table, NEW V, NEW read, NEW ref \in Refs(table), NEW x \in V, x[1] = "list"
    PROVE  AsReadCall(table, V, read)[ref][x] = ReadList(read, ref, x)
  <1>1. AsReadCall(table, V, read)[ref][x] =
            IF x[1] = "list" THEN ReadList(read, ref, x)
            ELSE IF x[1] = "object" THEN ReadObject(table, read, ref, x)
            ELSE IF Reading(ref.name) = "number" THEN <<"number", NumberOf(x)>>
            ELSE x
    BY Zenon DEF AsReadCall, ReadList, ReadObject
  <1> QED
    BY <1>1

\* A call of AsRead on an object.
LEMMA AsReadObject ==
    ASSUME NEW table, NEW V, NEW read, NEW ref \in Refs(table), NEW x \in V, x[1] = "object"
    PROVE  AsReadCall(table, V, read)[ref][x] = ReadObject(table, read, ref, x)
  <1>1. AsReadCall(table, V, read)[ref][x] =
            IF x[1] = "list" THEN ReadList(read, ref, x)
            ELSE IF x[1] = "object" THEN ReadObject(table, read, ref, x)
            ELSE IF Reading(ref.name) = "number" THEN <<"number", NumberOf(x)>>
            ELSE x
    BY Zenon DEF AsReadCall, ReadList, ReadObject
  <1> QED
    BY <1>1

\* EncodeArray, with its items named.
LEMMA EncodeArrayIs ==
    ASSUME NEW enc, NEW name, NEW x
    PROVE  LET t == Together(Items(enc, name, x))
           IN EncodeArray(enc, name, x) =
                  IF x[1] # "list" THEN <<>> ELSE IF Failed(t) THEN <<>> ELSE <<<<"array", t[1]>>>>
  BY Zenon DEF EncodeArray, Items

\* EncodeData, with its values named.
LEMMA EncodeDataIs ==
    ASSUME NEW table, NEW enc, NEW D, NEW x
    PROVE  LET t == Together(Values(table, enc, D, x))
           IN EncodeData(table, enc, D, x) =
                  IF x[1] # "object" \/ ~ValidTypes(table) \/ ExtraData(table, D, x[2])
                  THEN <<>>
                  ELSE IF Failed(t) THEN <<>> ELSE <<<<"struct", t[1], TypeHash(table, D)>>>>
  BY Zenon DEF EncodeData, Values

\* Arrays.
LEMMA ArrayBinds ==
    ASSUME NEW table, NEW V, NEW U, NEW X, NEW W, NEW enc, NEW dec, NEW read,
           EncodeGood(table, V, enc), Binds(table, X, W, enc, dec, read), X \subseteq V,
           NEW ref \in Refs(table), NEW x \in V, Parts(x) \subseteq X,
           NEW e \in U, Parts(e) \subseteq W,
           EncodeArray(enc, ref.name, x) = <<e>>
    PROVE  DecodeCall(U, dec)[e][Reading(ref.name)] = AsReadCall(table, V, read)[ref][x]
  <1> DEFINE item1 == Ref(ref.name, FALSE)
             how == Reading(ref.name)
             rs == Items(enc, ref.name, x)
             t == Together(rs)
             f == t[1]
  <1>1. x[1] = "list" /\ ~Failed(t) /\ e = <<"array", f>>
    <2>1. <<e>> = IF x[1] # "list" THEN <<>> ELSE IF Failed(t) THEN <<>> ELSE <<<<"array", t[1]>>>>
      BY EncodeArrayIs
    <2> HIDE DEF t
    <2> QED
      BY <2>1
  <1>2. DOMAIN rs = DOMAIN x[2] /\ \A i \in DOMAIN x[2] : rs[i] = enc[item1][x[2][i]]
    BY DEF Items
  <1>3. f = [i \in DOMAIN rs |-> rs[i][1]] /\ \A i \in DOMAIN rs : ~Failed(rs[i])
    <2>1. ~Failed(Together(rs))
      BY <1>1
    <2> HIDE DEF rs
    <2> QED
      BY <2>1, TogetherAll
  <1> HIDE DEF rs, t, f
  <1>4. Parts(x) = {x[2][i] : i \in DOMAIN x[2]}
    BY <1>1 DEF Parts
  <1>5. DOMAIN f = DOMAIN x[2] /\ e[1] = "array" /\ e[2] = f
    BY <1>3, <1>1, <1>2
  <1>6. Parts(e) = {f[i] : i \in DOMAIN x[2]}
    BY <1>5 DEF Parts
  <1>7. item1 \in Refs(table) /\ Reading(item1.name) = how
    BY RefIsIn
  <1> HIDE DEF item1
  <1>8. ASSUME NEW i \in DOMAIN x[2] PROVE dec[f[i]][how] = read[item1][x[2][i]]
    <2> DEFINE y == x[2][i]
    <2>1. y \in X /\ y \in V /\ f[i] \in W
      BY <1>4, <1>6
    <2>2. f[i] = enc[item1][y][1] /\ ~Failed(enc[item1][y])
      BY <1>3, <1>2
    <2> HIDE DEF y
    <2>3. enc[item1][y] = <<f[i]>>
      BY <1>7, <2>1, <2>2 DEF EncodeGood
    <2>4. dec[f[i]][Reading(item1.name)] = read[item1][y]
      BY <1>7, <2>1, <2>3 DEF Binds
    <2> QED
      BY <1>7, <2>4 DEF y
  <1>9. how \in {"text", "bool", "number"}
    BY ReadingKinds
  <1> HIDE DEF how
  <1>10. DecodeCall(U, dec)[e][how] = ReadArray(dec, e, how)
    BY <1>5, <1>9, DecodeIs
  <1>11. AsReadCall(table, V, read)[ref][x] = ReadList(read, ref, x)
    BY <1>1, AsReadList
  <1>12. ReadArray(dec, e, how) = ReadList(read, ref, x)
    BY <1>5, <1>8 DEF ReadArray, ReadList, item1
  <1> QED
    BY <1>10, <1>11, <1>12 DEF how

\* x is read back from e.
ReadsBack(table, V, U, dec, read, ref, x, e) ==
    DecodeCall(U, dec)[e][Reading(ref.name)] = AsReadCall(table, V, read)[ref][x]

\* Primitive values.
LEMMA PrimitiveBinds ==
    ASSUME NEW table, NEW V, NEW U, NEW dec, NEW read,
           NEW ref \in Refs(table), ref.name \notin DOMAIN table,
           NEW x \in V, IsJSON(x), NEW e \in U,
           EncodePrimitiveValue(ref.name, x) = <<e>>
    PROVE  ReadsBack(table, V, U, dec, read, ref, x, e)
  <1> DEFINE how == Reading(ref.name)
  <1>1. how \in {"text", "bool", "number"}
    BY ReadingKinds
  <1>2. ASSUME e[1] \notin {"array", "struct"}
        PROVE  DecodeCall(U, dec)[e][how] = <<how, e[2]>>
    BY <1>1, <1>2, DecodeIs
  <1>3. ASSUME x[1] \notin {"list", "object"}
        PROVE  AsReadCall(table, V, read)[ref][x] =
                   IF how = "number" THEN <<"number", NumberOf(x)>> ELSE x
    BY <1>3, AsReadIs
  <1>4. x = <<x[1], x[2]>>
    BY DEF IsJSON
  <1>5. CASE ref.name = <<"string">>
    <2>1. x[1] = "text" /\ e = <<"keccak", x[2]>>
      BY <1>5 DEF EncodePrimitiveValue
    <2>2. how = "text"
      BY <1>5 DEF Reading
    <2>3. DecodeCall(U, dec)[e][how] = AsReadCall(table, V, read)[ref][x]
      BY <1>2, <1>3, <1>4, <2>1, <2>2
    <2> QED
      BY <2>3, Zenon DEF ReadsBack
  <1>6. CASE ref.name = <<"bool">>
    <2>1. x[1] = "bool" /\ e = <<"word", x[2]>>
      BY <1>6 DEF EncodePrimitiveValue
    <2>2. how = "bool"
      BY <1>6 DEF Reading
    <2>3. DecodeCall(U, dec)[e][how] = AsReadCall(table, V, read)[ref][x]
      BY <1>2, <1>3, <1>4, <2>1, <2>2
    <2> QED
      BY <2>3, Zenon DEF ReadsBack
  <1>7. CASE ref.name \notin {<<"string">>, <<"bool">>}
    <2>1. ParseInteger(ref.name, x) = <<e>>
      BY <1>7 DEF EncodePrimitiveValue
    <2>2. x[1] \in {"text", "number", "bigint"} /\ e = <<"word", NumberOf(x)>>
      BY <2>1 DEF ParseInteger
    <2>3. how = "number"
      BY <1>7 DEF Reading
    <2>4. DecodeCall(U, dec)[e][how] = AsReadCall(table, V, read)[ref][x]
      BY <1>2, <1>3, <2>2, <2>3
    <2> QED
      BY <2>4, Zenon DEF ReadsBack
  <1> QED
    BY <1>5, <1>6, <1>7

\* What a structure that is encoded is, and its encoding.
LEMMA StructEncoding ==
    ASSUME NEW table, NEW enc, NEW D, NEW x, NEW e, EncodeData(table, enc, D, x) = <<e>>
    PROVE  /\ x[1] = "object" /\ ValidTypes(table) /\ ~ExtraData(table, D, x[2])
           /\ e[1] = "struct" /\ e[3] = TypeHash(table, D)
           /\ DOMAIN e[2] = DOMAIN table[D]
           /\ \A i \in DOMAIN table[D] :
                  LET r == enc[table[D][i].type][Get(x[2], table[D][i].name)]
                  IN ~Failed(r) /\ e[2][i] = r[1]
  <1> DEFINE rs == Values(table, enc, D, x)
             t == Together(rs)
             y == <<"struct", t[1], TypeHash(table, D)>>
             bad == x[1] # "object" \/ ~ValidTypes(table) \/ ExtraData(table, D, x[2])
  <1>1. <<e>> = IF bad THEN <<>> ELSE IF Failed(t) THEN <<>> ELSE <<y>>
    BY EncodeDataIs
  <1>2. /\ DOMAIN rs = DOMAIN table[D]
        /\ \A i \in DOMAIN table[D] : rs[i] = enc[table[D][i].type][Get(x[2], table[D][i].name)]
    BY DEF Values
  <1> HIDE DEF rs
  <1>3. ~Failed(t) => t[1] = [i \in DOMAIN rs |-> rs[i][1]] /\ \A i \in DOMAIN rs : ~Failed(rs[i])
    BY TogetherAll
  <1> HIDE DEF y, t, bad
  <1>4. ~bad /\ ~Failed(t) /\ e = y
    BY <1>1
  <1>5. e[1] = "struct" /\ e[2] = t[1] /\ e[3] = TypeHash(table, D)
    BY <1>4 DEF y
  <1>6. /\ DOMAIN e[2] = DOMAIN table[D]
        /\ \A i \in DOMAIN table[D] : e[2][i] = rs[i][1] /\ ~Failed(rs[i])
    BY <1>2, <1>3, <1>4, <1>5
  <1>7. \A i \in DOMAIN table[D] :
            LET r == enc[table[D][i].type][Get(x[2], table[D][i].name)]
            IN ~Failed(r) /\ e[2][i] = r[1]
    BY <1>2, <1>6
  <1>8. x[1] = "object" /\ ValidTypes(table) /\ ~ExtraData(table, D, x[2])
    BY <1>4 DEF bad
  <1> QED
    BY <1>5, <1>6, <1>7, <1>8

\* The type hash of a structure says what its fields are.
LEMMA TypeHashDefines ==
    ASSUME NEW table, IsTable(table), NEW D \in DOMAIN table
    PROVE  TypeHash(table, D).defs[TypeHash(table, D).primary] = table[D]
  <1> DEFINE r == Dependencies(table, D)
  <1>1. Result(table, D, <<>>, r)
    BY DependenciesResult
  <1> HIDE DEF r
  <1>2. D \in ToSet(r)
    BY <1>1, LenProperties DEF Result, Contains, ToSet
  <1> QED
    BY <1>2 DEF TypeHash, r

\* A field that there is can be found by its name.
LEMMA FieldNamedIs ==
    ASSUME NEW fs, NEW k \in FieldNames(fs)
    PROVE  FieldNamed(fs, k) \in DOMAIN fs /\ fs[FieldNamed(fs, k)].name = k
  <1>1. \E i \in DOMAIN fs : fs[i].name = k
    BY DEF FieldNames
  <1> QED
    BY <1>1 DEF FieldNamed

\* The fields of a document are those of its type, one for one.
LEMMA NoOtherFields ==
    ASSUME NEW fs, Len(fs) \in Nat, DOMAIN fs = 1..Len(fs),
           \A i, j \in DOMAIN fs : fs[i].name = fs[j].name => i = j,
           NEW S, IsFiniteSet(S), FieldNames(fs) \subseteq S, ~(Len(fs) < Cardinality(S))
    PROVE  FieldNames(fs) = S
  <1> DEFINE f == [i \in 1..Len(fs) |-> fs[i].name]
             I == 1..Len(fs)
  <1>1. IsFiniteSet(I) /\ Cardinality(I) = Len(fs)
    <2>1. 1 \in Int /\ Len(fs) \in Int
      OBVIOUS
    <2>2. IsFiniteSet(1..Len(fs))
          /\ Cardinality(1..Len(fs)) = (IF 1 > Len(fs) THEN 0 ELSE Len(fs) - 1 + 1)
      BY <2>1, FS_Interval, Zenon
    <2> QED
      BY <2>2
  <1>2. f \in Injection(I, S)
    <2>1. \A i \in I : f[i] \in S
      BY DEF FieldNames
    <2> QED
      BY <2>1 DEF Injection, IsInjective
  <1>3. Cardinality(S) \in Nat /\ Cardinality(I) <= Cardinality(S)
    BY <1>1, <1>2, FS_Injection, FS_CardinalityType
  <1>4. Cardinality(I) = Cardinality(S)
    BY <1>1, <1>3
  <1>5. f \in Surjection(I, S)
    BY <1>2, <1>4, FS_Injection
  <1>6. \A k \in S : \E i \in DOMAIN fs : fs[i].name = k
    BY <1>5 DEF Surjection
  <1> QED
    BY <1>6 DEF FieldNames

\* Structures: their fields are all there and no others, and each is bound.
LEMMA StructBinds ==
    ASSUME NEW table, IsTable(table), DistinctNames(table),
           NEW V, NEW U, NEW X, NEW W, NEW enc, NEW dec, NEW read,
           EncodeGood(table, V, enc), Binds(table, X, W, enc, dec, read), X \subseteq V,
           NEW ref \in Refs(table), ref.name \in DOMAIN table,
           NEW x \in V, IsJSON(x), Parts(x) \subseteq X,
           NEW e \in U, Parts(e) \subseteq W,
           EncodeData(table, enc, ref.name, x) = <<e>>
    PROVE  DecodeCall(U, dec)[e][Reading(ref.name)] = AsReadCall(table, V, read)[ref][x]
  <1> DEFINE D == ref.name
             fs == table[D]
             data == x[2]
  <1>1. /\ x[1] = "object" /\ ValidTypes(table) /\ ~ExtraData(table, D, data)
        /\ e[1] = "struct" /\ e[3] = TypeHash(table, D) /\ DOMAIN e[2] = DOMAIN fs
    BY StructEncoding
  <1>2. \A i \in DOMAIN fs : LET r == enc[fs[i].type][Get(data, fs[i].name)]
                            IN ~Failed(r) /\ e[2][i] = r[1]
    BY StructEncoding
  <1>3. /\ D \in DOMAIN table /\ Len(fs) \in Nat /\ DOMAIN fs = 1..Len(fs)
        /\ \A i \in DOMAIN fs : IsField(fs[i])
        /\ \A i \in DOMAIN fs : fs[i].type.name \in Primitives \cup DOMAIN table
        /\ \A i, j \in DOMAIN fs : fs[i].name = fs[j].name => i = j
    <2>1. \A i \in DOMAIN fs : fs[i].type.name \in Primitives \cup DOMAIN table
      BY <1>1 DEF ValidTypes
    <2> QED
      BY <2>1, TableFields DEF DistinctNames
  <1>4. e[3].defs[e[3].primary] = fs
    BY <1>1, <1>3, TypeHashDefines
  <1>5. IsFiniteSet(DOMAIN data) /\ ~(Len(fs) < Cardinality(DOMAIN data))
        /\ Parts(x) = {data[k] : k \in DOMAIN data}
    BY <1>1 DEF IsJSON, ExtraData, Parts
  <1>6. Parts(e) = {e[2][i] : i \in DOMAIN fs}
    BY <1>1 DEF Parts
  <1>7. ReadObject(table, read, ref, x) =
            Object([k \in DOMAIN data |-> IF D \in DOMAIN table /\ k \in FieldNames(fs)
                                          THEN read[fs[FieldNamed(fs, k)].type][data[k]]
                                          ELSE data[k]])
    BY Zenon DEF ReadObject
  <1>8. AsReadCall(table, V, read)[ref][x] = ReadObject(table, read, ref, x)
    BY <1>1, AsReadObject
  <1>9. DecodeCall(U, dec)[e][Reading(D)] = ReadStruct(dec, e)
    BY <1>1, ReadingKinds, DecodeIs
  <1> HIDE DEF D, fs, data
  <1>10. ASSUME NEW i \in DOMAIN fs PROVE fs[i].type \in Refs(table)
    <2>1. fs[i].type.name \in Primitives \cup DOMAIN table /\ IsField(fs[i])
      BY <1>3, <1>10
    <2> QED
      BY <2>1 DEF IsField, Refs, Ref
  <1>11. FieldNames(fs) \subseteq DOMAIN data
    <2> SUFFICES ASSUME NEW i \in DOMAIN fs, fs[i].name \notin DOMAIN data PROVE FALSE
      BY DEF FieldNames
    <2>1. Get(data, fs[i].name) = Nil
      BY DEF Get
    <2>2. Failed(enc[fs[i].type][Nil])
      BY <1>10 DEF EncodeGood
    <2> QED
      BY <1>2, <2>1, <2>2
  <1>12. FieldNames(fs) = DOMAIN data
    BY <1>3, <1>5, <1>11, NoOtherFields
  <1>13. ASSUME NEW k \in DOMAIN data
         PROVE  LET i == FieldNamed(fs, k)
                IN dec[e[2][i]][Reading(fs[i].type.name)] = read[fs[i].type][data[k]]
    <2> DEFINE i == FieldNamed(fs, k)
               w == e[2][i]
               y == data[k]
               type == fs[i].type
    <2>1. i \in DOMAIN fs /\ fs[i].name = k
      BY <1>12, FieldNamedIs
    <2>2. Get(data, fs[i].name) = y
      BY <2>1 DEF Get
    <2>3. y \in X /\ y \in V /\ w \in W
      BY <1>5, <1>6, <2>1
    <2>4. type \in Refs(table)
      BY <1>10, <2>1
    <2>5. ~Failed(enc[type][y]) /\ w = enc[type][y][1]
      BY <1>2, <2>1, <2>2
    <2> HIDE DEF i, w, y, type
    <2>6. enc[type][y] = <<w>>
      BY <2>3, <2>4, <2>5 DEF EncodeGood
    <2>7. dec[w][Reading(type.name)] = read[type][y]
      BY <2>3, <2>4, <2>6 DEF Binds
    <2> QED
      BY <2>7 DEF i, w, y, type
  <1>14. ReadStruct(dec, e) =
             Object([k \in FieldNames(fs) |->
                        LET i == FieldNamed(fs, k) IN dec[e[2][i]][Reading(fs[i].type.name)]])
    BY <1>4, Zenon DEF ReadStruct
  <1>15. [k \in FieldNames(fs) |->
             LET i == FieldNamed(fs, k) IN dec[e[2][i]][Reading(fs[i].type.name)]]
         = [k \in DOMAIN data |-> IF D \in DOMAIN table /\ k \in FieldNames(fs)
                                  THEN read[fs[FieldNamed(fs, k)].type][data[k]]
                                  ELSE data[k]]
    BY <1>3, <1>12, <1>13
  <1> QED
    BY <1>7, <1>8, <1>9, <1>14, <1>15, Zenon DEF D

\* A call of EncodeData, by cases.
LEMMA EncodeCallIs ==
    ASSUME NEW table, NEW V, NEW enc, NEW ref \in Refs(table), NEW x \in V
    PROVE  EncodeCall(table, V, enc)[ref][x] =
               IF ref.array THEN EncodeArray(enc, ref.name, x)
               ELSE IF ref.name \in DOMAIN table THEN EncodeData(table, enc, ref.name, x)
               ELSE EncodePrimitiveValue(ref.name, x)
  BY Zenon DEF EncodeCall

\* One level of calls after the other.
LEMMA CallBinds ==
    ASSUME NEW table, IsTable(table), DistinctNames(table),
           NEW V, NEW U, NEW X, NEW W, NEW enc, NEW dec, NEW read,
           EncodeGood(table, V, enc), Binds(table, X, W, enc, dec, read), X \subseteq V,
           NEW Y, Y \subseteq V, \A x \in Y : IsJSON(x) /\ Parts(x) \subseteq X,
           NEW Z, Z \subseteq U, \A e \in Z : Parts(e) \subseteq W
    PROVE  Binds(table, Y, Z, EncodeCall(table, V, enc), DecodeCall(U, dec),
                 AsReadCall(table, V, read))
  <1> SUFFICES ASSUME NEW ref \in Refs(table), NEW x \in Y, NEW e \in Z,
                      EncodeCall(table, V, enc)[ref][x] = <<e>>
               PROVE  DecodeCall(U, dec)[e][Reading(ref.name)] = AsReadCall(table, V, read)[ref][x]
    BY Zenon DEF Binds
  <1>1. x \in V /\ IsJSON(x) /\ Parts(x) \subseteq X /\ e \in U /\ Parts(e) \subseteq W
    OBVIOUS
  <1>2. <<e>> = IF ref.array THEN EncodeArray(enc, ref.name, x)
                ELSE IF ref.name \in DOMAIN table THEN EncodeData(table, enc, ref.name, x)
                ELSE EncodePrimitiveValue(ref.name, x)
    BY <1>1, Zenon DEF EncodeCall
  <1>3. CASE ref.array
    <2>1. EncodeArray(enc, ref.name, x) = <<e>>
      BY <1>2, <1>3
    <2> QED
      BY <1>1, <2>1, ArrayBinds
  <1>4. CASE ~ref.array /\ ref.name \in DOMAIN table
    <2>1. EncodeData(table, enc, ref.name, x) = <<e>>
      BY <1>2, <1>4
    <2> QED
      BY <1>1, <1>4, <2>1, StructBinds
  <1>5. CASE ~ref.array /\ ref.name \notin DOMAIN table
    <2>1. EncodePrimitiveValue(ref.name, x) = <<e>>
      BY <1>2, <1>5
    <2>2. x \in V /\ IsJSON(x) /\ e \in U /\ ref.name \notin DOMAIN table
      BY <1>1, <1>5
    <2>3. ReadsBack(table, V, U, dec, read, ref, x, e)
      BY <2>1, <2>2, PrimitiveBinds
    <2> QED
      BY <2>3, Zenon DEF ReadsBack
  <1> QED
    BY <1>3, <1>4, <1>5

\* The values m levels above the last are bound by their encodings.
LEMMA AllBind ==
    ASSUME NEW table, IsTable(table), DistinctNames(table),
           NEW x0, \A x \in Nested(x0) : IsJSON(x), NEW e0, NEW m \in 0..Depth
    PROVE  Binds(table, At(x0, m), At(e0, m), EncodeCalls(table, Nested(x0))[m],
                 DecodeCalls(Nested(e0))[m], AsReadCalls(table, Nested(x0))[m])
  <1> DEFINE V == Nested(x0)
             U == Nested(e0)
             enc == EncodeCalls(table, V)
             dec == DecodeCalls(U)
             read == AsReadCalls(table, V)
             Good(n) == Binds(table, At(x0, n), At(e0, n), enc[n], dec[n], read[n])
             T == {n \in Nat : n <= Depth => Good(n)}
  <1>1. /\ \A n \in 0..Depth : At(x0, n) \subseteq V /\ At(e0, n) \subseteq U
        /\ Nil \in V
    BY NestedAt DEF Nested
  <1>2. /\ \A n \in 0..Depth : EncodeGood(table, V, enc[n])
        /\ \A ref \in Refs(table), x \in V : Failed(enc[0][ref][x])
        /\ \A n \in 1..Depth : enc[n] = EncodeCall(table, V, enc[n - 1])
    <2> HIDE DEF V
    <2> QED
      BY <1>1, EncodeLevels
  <1>3. \A n \in 1..Depth : dec[n] = DecodeCall(U, dec[n - 1])
    <2> HIDE DEF U
    <2> QED
      BY DecodeSteps
  <1>4. \A n \in 1..Depth : read[n] = AsReadCall(table, V, read[n - 1])
    <2> HIDE DEF V
    <2> QED
      BY AsReadSteps
  <1> HIDE DEF V, U, enc, dec, read
  <1>5. 0 \in T
    <2>1. 0 \in 0..Depth
      BY BoundAssumption
    <2>2. \A ref \in Refs(table), x \in At(x0, 0) : enc[0][ref][x] = <<>>
      BY <1>1, <1>2, <2>1 DEF Failed
    <2>3. \A ref \in Refs(table), x \in At(x0, 0), e \in At(e0, 0) : enc[0][ref][x] # <<e>>
      BY <2>2
    <2>4. Binds(table, At(x0, 0), At(e0, 0), enc[0], dec[0], read[0])
      BY <2>3, Zenon DEF Binds
    <2> QED
      BY <2>4
  <1>6. ASSUME NEW n \in Nat, n \in T PROVE n + 1 \in T
    <2> SUFFICES ASSUME n + 1 <= Depth PROVE Good(n + 1)
      OBVIOUS
    <2>1. /\ n \in 0..Depth /\ n + 1 \in 0..Depth /\ n + 1 \in 1..Depth
          /\ (n + 1) - 1 = n /\ n <= Depth
      BY BoundAssumption
    <2>2. Good(n)
      BY <1>6, <2>1
    <2>3. /\ EncodeGood(table, V, enc[n]) /\ At(x0, n) \subseteq V
          /\ At(x0, n + 1) \subseteq V /\ At(e0, n + 1) \subseteq U
      BY <1>1, <1>2, <2>1
    <2>4. \A x \in At(x0, n + 1) : IsJSON(x) /\ Parts(x) \subseteq At(x0, n)
      BY <2>3, PartsAt DEF V
    <2>5. \A e \in At(e0, n + 1) : Parts(e) \subseteq At(e0, n)
      BY PartsAt
    <2>6. Binds(table, At(x0, n + 1), At(e0, n + 1), EncodeCall(table, V, enc[n]),
                DecodeCall(U, dec[n]), AsReadCall(table, V, read[n]))
      BY <2>2, <2>3, <2>4, <2>5, CallBinds
    <2>7. /\ enc[n + 1] = EncodeCall(table, V, enc[n]) /\ dec[n + 1] = DecodeCall(U, dec[n])
          /\ read[n + 1] = AsReadCall(table, V, read[n])
      BY <1>2, <1>3, <1>4, <2>1
    <2> QED
      BY <2>6, <2>7
  <1> HIDE DEF T
  <1>7. m \in T
    BY <1>5, <1>6, SetInduction, BoundAssumption
  <1>8. Good(m)
    BY <1>7, BoundAssumption DEF T
  <1> QED
    BY <1>8 DEF V, U, enc, dec, read

\* What is decoded of a structure does not depend on how words are read.
LEMMA HashStructIs ==
    ASSUME NEW table, NEW D \in DOMAIN table, NEW x, NEW e,
           HashStruct(table, D, x) # <<>>, e = HashStruct(table, D, x)[1]
    PROVE  /\ HashStruct(table, D, x) = <<e>> /\ e[1] = "struct"
           /\ EncodeData(table, EncodeCalls(table, Nested(x))[Depth - 1], D, x) = <<e>>
           /\ Depth \in 1..Depth /\ e \in Nested(e) /\ Parts(e) \subseteq At(e, Depth - 1)
           /\ \A how \in {"text", "bool", "number"} :
                  DecodeCalls(Nested(e))[Depth][e][how]
                      = ReadStruct(DecodeCalls(Nested(e))[Depth - 1], e)
  <1> DEFINE h == HashStruct(table, D, x)
             enc == EncodeCalls(table, Nested(x))
             dec == DecodeCalls(Nested(e))
             ref == Ref(D, FALSE)
  <1>1. Depth \in 1..Depth /\ h = EncodeData(table, enc[Depth - 1], D, x)
    BY HashStructEncodes DEF Failed
  <1>2. h = <<e>>
    <2>1. h = enc[Depth][ref][x] /\ ref \in Refs(table)
      BY DEF HashStruct, Ref, Refs
    <2>2. x \in Nested(x) /\ Nil \in Nested(x) /\ Depth \in 0..Depth
      BY <1>1, NestedAt DEF Nested
    <2>3. EncodeGood(table, Nested(x), enc[Depth])
      BY <2>2, EncodeLevels
    <2> HIDE DEF enc, h, ref
    <2>4. h = <<h[1]>>
      BY <2>1, <2>2, <2>3 DEF EncodeGood, Failed, h
    <2> QED
      BY <2>4 DEF h
  <1>3. e[1] = "struct"
    <2> DEFINE c == enc[Depth - 1]
    <2>1. EncodeData(table, c, D, x) = <<e>>
      BY <1>1, <1>2
    <2> HIDE DEF c
    <2> QED
      BY <2>1, StructEncoding
  <1>4. e \in Nested(e) /\ e \in At(e, Depth)
    BY <1>1, NestedAt
  <1>5. Parts(e) \subseteq At(e, Depth - 1)
    <2>1. Depth - 1 \in Nat /\ (Depth - 1) + 1 <= Depth /\ (Depth - 1) + 1 = Depth
      BY <1>1, BoundAssumption
    <2> QED
      BY <1>4, <2>1, PartsAt
  <1>6. dec[Depth] = DecodeCall(Nested(e), dec[Depth - 1])
    <2> DEFINE U == Nested(e)
    <2> HIDE DEF U
    <2>1. DecodeCalls(U)[Depth] = DecodeCall(U, DecodeCalls(U)[Depth - 1])
      BY <1>1, DecodeSteps
    <2> QED
      BY <2>1 DEF U
  <1>7. ASSUME NEW how \in {"text", "bool", "number"}
        PROVE  dec[Depth][e][how] = ReadStruct(dec[Depth - 1], e)
    <2> DEFINE U == Nested(e)
               d == dec[Depth - 1]
    <2>1. dec[Depth] = DecodeCall(U, d) /\ e \in U
      BY <1>4, <1>6
    <2> HIDE DEF U, d, dec
    <2>2. DecodeCall(U, d)[e][how] = ReadStruct(d, e)
      BY <1>3, <2>1, DecodeIs
    <2> QED
      BY <2>1, <2>2 DEF d
  <1> QED
    BY <1>1, <1>2, <1>3, <1>4, <1>5, <1>7

\* A structure can be read back from its hash.
LEMMA StructBound ==
    ASSUME NEW table, IsTable(table), DistinctNames(table), NEW D \in DOMAIN table,
           NEW x, \A y \in Nested(x) : IsJSON(y), HashStruct(table, D, x) # <<>>
    PROVE  Decode(HashStruct(table, D, x)[1]) = AsRead(table, D, x)
  <1> DEFINE e == HashStruct(table, D, x)[1]
             ref == Ref(D, FALSE)
             dec == DecodeCalls(Nested(e))
             enc == EncodeCalls(table, Nested(x))
             read == AsReadCalls(table, Nested(x))
             how == Reading(D)
  <1>1. /\ HashStruct(table, D, x) = <<e>> /\ Depth \in 0..Depth
        /\ \A w \in {"text", "bool", "number"} : dec[Depth][e][w] = ReadStruct(dec[Depth - 1], e)
    BY HashStructIs, BoundAssumption
  <1>2. enc[Depth][ref][x] = <<e>>
    <2>1. HashStruct(table, D, x) = enc[Depth][ref][x]
      BY DEF HashStruct
    <2> QED
      BY <1>1, <2>1, Zenon
  <1>3. x \in At(x, Depth) /\ e \in At(e, Depth) /\ ref \in Refs(table) /\ ref.name = D
    BY NestedAt DEF Ref, Refs
  <1>4. Binds(table, At(x, Depth), At(e, Depth), enc[Depth], dec[Depth], read[Depth])
    BY <1>1, AllBind
  <1>5. AsRead(table, D, x) = read[Depth][ref][x] /\ Decode(e) = dec[Depth][e]["text"]
    BY DEF AsRead, Decode
  <1>6. how \in {"text", "bool", "number"}
    BY ReadingKinds
  <1> HIDE DEF e, ref, dec, enc, read, how
  <1>7. dec[Depth][e][how] = read[Depth][ref][x]
    BY <1>2, <1>3, <1>4 DEF Binds, how
  <1>8. Decode(e) = AsRead(table, D, x)
    BY <1>1, <1>5, <1>6, <1>7
  <1> QED
    BY <1>8 DEF e

\* The chain id is a word of its own.
LEMMA ChainBound ==
    ASSUME NEW table, WalkTable(table), NEW chain \in 0..(2^WordSize - 1),
           HashStruct(table, <<"EIP712Domain">>, Object(Domain(chain))) # <<>>
    PROVE  Decode(HashStruct(table, <<"EIP712Domain">>, Object(Domain(chain)))[1])[2][<<"chainId">>]
               = <<"number", chain>>
  <1> DEFINE D == <<"EIP712Domain">>
             x == Object(Domain(chain))
             h == HashStruct(table, D, x)
             e == h[1]
             fs == table[D]
             enc == EncodeCalls(table, Nested(x))
             dec == DecodeCalls(Nested(e))
             key == <<"chainId">>
             uint == Ref(<<"uint256">>, FALSE)
             y == <<"bigint", ToSigned(chain)>>
             n == Depth - 1
  <1>1. D \in DOMAIN table /\ IsTable(table)
    BY DEF WalkTable
  <1>2. fs = <<Named(<<"name">>), Named(<<"version">>),
               Field(<<"chainId">>, Basic("uint256")),
               Named(<<"verifyingContract">>), Named(<<"salt">>)>>
    BY DEF WalkTable, RootTypes, Root
  <1>3. /\ h = <<e>> /\ e[1] = "struct" /\ EncodeData(table, enc[n], D, x) = <<e>>
        /\ Depth \in 1..Depth /\ Parts(e) \subseteq At(e, n)
        /\ dec[Depth][e]["text"] = ReadStruct(dec[n], e)
    <2> HIDE DEF D, x
    <2>1. h # <<>>
      BY DEF D, x
    <2>2. h = <<e>> /\ e[1] = "struct" /\ Depth \in 1..Depth
      BY <1>1, <2>1, HashStructIs
    <2>3. EncodeData(table, enc[n], D, x) = <<e>>
      BY <1>1, <2>1, HashStructIs
    <2>4. Parts(e) \subseteq At(e, n)
      <3> HIDE DEF e, h
      <3>1. n \in Nat /\ n + 1 = Depth /\ n + 1 <= Depth /\ e \in At(e, Depth)
        BY <2>2, BoundAssumption, NestedAt
      <3> HIDE DEF n
      <3> QED
        BY <3>1, PartsAt
    <2>5. \A how \in {"text", "bool", "number"} : dec[Depth][e][how] = ReadStruct(dec[n], e)
      BY <1>1, <2>1, HashStructIs
    <2> HIDE DEF h, e, enc, dec, n
    <2> QED
      BY <2>2, <2>3, <2>4, <2>5
  <1>4. n \in 0..Depth /\ n \in Nat /\ n + 1 = Depth /\ n + 1 <= Depth
    BY <1>3, BoundAssumption
  <1>5. /\ e[3] = TypeHash(table, D) /\ DOMAIN e[2] = DOMAIN fs
        /\ \A i \in DOMAIN fs : LET r == enc[n][fs[i].type][Get(x[2], fs[i].name)]
                                IN ~Failed(r) /\ e[2][i] = r[1]
    <2> DEFINE c == enc[n]
    <2>1. EncodeData(table, c, D, x) = <<e>>
      BY <1>3
    <2> HIDE DEF c, e, x
    <2>2. e[3] = TypeHash(table, D) /\ DOMAIN e[2] = DOMAIN fs
      BY <2>1, StructEncoding
    <2>3. \A i \in DOMAIN fs : LET r == c[fs[i].type][Get(x[2], fs[i].name)]
                               IN ~Failed(r) /\ e[2][i] = r[1]
      BY <2>1, StructEncoding
    <2> QED
      BY <2>2, <2>3, Zenon DEF c
  <1>6. e[3].defs[e[3].primary] = fs
    BY <1>1, <1>5, TypeHashDefines
  <1>7. 3 \in DOMAIN fs /\ fs[3].name = key /\ fs[3].type = uint
    <2>1. 3 \in DOMAIN fs /\ fs[3] = Field(<<"chainId">>, Basic("uint256"))
      BY <1>2
    <2> HIDE DEF fs
    <2> QED
      BY <2>1 DEF Field, Basic, Ref
  <1>8. key \in FieldNames(fs) /\ FieldNamed(fs, key) = 3
    <2>1. key \in FieldNames(fs)
      BY <1>7 DEF FieldNames
    <2>2. \A i \in DOMAIN fs : fs[i].name = key => i = 3
      BY <1>2 DEF Named, Field
    <2> HIDE DEF fs, key
    <2> QED
      BY <2>1, <2>2, FieldNamedIs
  <1>9. x[1] = "object" /\ x[2] = Domain(chain) /\ Get(x[2], key) = y /\ y \in Parts(x)
    <2>1. x[1] = "object" /\ x[2] = Domain(chain)
      BY DEF Object
    <2>2. key \in DOMAIN Domain(chain) /\ Domain(chain)[key] = y
      BY DEF Domain
    <2> HIDE DEF x, key, y
    <2> QED
      BY <2>1, <2>2 DEF Get, Parts
  <1>10. y \in Nested(x) /\ Nil \in Nested(x)
    <2>1. x \in At(x, n + 1)
      BY <1>4, NestedAt
    <2>2. y \in At(x, n)
      BY <1>4, <1>9, <2>1, PartsAt
    <2> QED
      BY <1>4, <2>2, NestedAt DEF Nested
  <1>11. ~Failed(enc[n][uint][y]) /\ e[2][3] = enc[n][uint][y][1]
    <2> HIDE DEF fs, e, uint, y, enc, n, x, key
    <2>1. LET r == enc[n][fs[3].type][Get(x[2], fs[3].name)] IN ~Failed(r) /\ e[2][3] = r[1]
      BY <1>5, <1>7, Zenon
    <2>2. fs[3].type = uint /\ Get(x[2], fs[3].name) = y
      BY <1>7, <1>9
    <2> QED
      BY <2>1, <2>2
  <1>12. uint \in Refs(table) /\ uint.name = <<"uint256">> /\ uint.array = FALSE
         /\ uint.name \notin DOMAIN table
    BY <1>1 DEF Ref, Refs, Primitives, IntegerTypes, IsTable
  <1>13. n \in 1..Depth /\ n - 1 \in Nat
    <2>1. n # 0
      BY <1>10, <1>11, <1>12, EncodeLevels
    <2> QED
      BY <1>4, <2>1
  <1>14. enc[n][uint][y] = EncodePrimitiveValue(<<"uint256">>, y)
    <2> DEFINE V == Nested(x)
               c == enc[n - 1]
    <2>1. enc[n] = EncodeCall(table, V, c)
      BY <1>10, <1>13, EncodeLevels
    <2> HIDE DEF V, c, enc, uint, y
    <2>2. y \in V
      BY <1>10 DEF V
    <2>3. EncodeCall(table, V, c)[uint][y] =
              IF uint.array THEN EncodeArray(c, uint.name, y)
              ELSE IF uint.name \in DOMAIN table THEN EncodeData(table, c, uint.name, y)
              ELSE EncodePrimitiveValue(uint.name, y)
      BY <1>12, <2>2, EncodeCallIs
    <2> QED
      BY <1>12, <2>1, <2>3
  <1>15. e[2][3] = <<"word", chain>>
    <2> DEFINE z == ToSigned(chain)
               r == EncodePrimitiveValue(<<"uint256">>, y)
    <2>1. z = chain \/ z = chain - 2^WordSize
      BY DEF ToSigned
    <2>2. chain \in Nat /\ 2^WordSize \in Nat /\ chain < 2^WordSize
      BY ChainAssumption
    <2> HIDE DEF z
    <2>3. r = ParseInteger(<<"uint256">>, <<"bigint", z>>)
      BY DEF EncodePrimitiveValue, z
    <2>4. ParseInteger(<<"uint256">>, <<"bigint", z>>) = IF z < 0 THEN <<>> ELSE <<<<"word", z>>>>
      BY DEF ParseInteger, NumberOf
    <2>5. r # <<>> /\ e[2][3] = r[1]
      BY <1>11, <1>14 DEF Failed
    <2> HIDE DEF r, e
    <2>6. ~(z < 0) /\ r = <<<<"word", z>>>>
      BY <2>3, <2>4, <2>5
    <2>7. z = chain
      BY <2>1, <2>2, <2>6
    <2> QED
      BY <2>5, <2>6, <2>7
  <1> DEFINE w == e[2][3]
  <1>16. w \in Nested(e)
    <2> HIDE DEF e, fs
    <2>1. w \in Parts(e)
      <3>1. e[1] = "struct" /\ 3 \in DOMAIN e[2]
        BY <1>3, <1>5, <1>7
      <3> QED
        BY <3>1 DEF Parts
    <2> HIDE DEF w
    <2> QED
      BY <1>3, <1>4, <2>1, NestedAt
  <1>17. dec[n][w]["number"] = <<"number", chain>>
    <2> DEFINE U == Nested(e)
               d == DecodeCalls(U)[n - 1]
    <2>1. w \in U /\ w = <<"word", chain>>
      BY <1>15, <1>16
    <2> HIDE DEF U, w
    <2>2. DecodeCalls(U)[n] = DecodeCall(U, d)
      BY <1>13, DecodeSteps
    <2> HIDE DEF d
    <2>3. DecodeCall(U, d)[w]["number"] = <<"number", w[2]>>
      <3>1. w[1] \notin {"array", "struct"} /\ w[2] = chain
        BY <2>1
      <3> QED
        BY <2>1, <3>1, DecodeIs
    <2>4. DecodeCalls(U)[n][w]["number"] = <<"number", chain>>
      BY <2>1, <2>2, <2>3
    <2> QED
      BY <2>4 DEF U
  <1>18. ReadStruct(dec[n], e) =
             Object([k \in FieldNames(fs) |->
                        LET i == FieldNamed(fs, k) IN dec[n][e[2][i]][Reading(fs[i].type.name)]])
    <2> HIDE DEF dec, e, fs
    <2> QED
      BY <1>6, Zenon DEF ReadStruct
  <1>19. Reading(fs[3].type.name) = "number"
    <2>1. fs[3].type.name = <<"uint256">>
      BY <1>7, <1>12
    <2>2. Reading(<<"uint256">>) = "number"
      BY DEF Reading
    <2> QED
      BY <2>1, <2>2, Zenon
  <1> HIDE DEF fs, key, dec, e, w
  <1>20. ReadStruct(dec[n], e)[2][key] = dec[n][w]["number"]
    <2> DEFINE d == dec[n]
               f == [k \in FieldNames(fs) |->
                        LET i == FieldNamed(fs, k) IN d[e[2][i]][Reading(fs[i].type.name)]]
    <2>1. ReadStruct(d, e) = <<"object", f>>
      BY <1>18, Zenon DEF Object
    <2> HIDE DEF d
    <2>2. f[key] = d[e[2][FieldNamed(fs, key)]][Reading(fs[FieldNamed(fs, key)].type.name)]
      BY <1>8, Zenon
    <2>3. f[key] = d[w]["number"]
      BY <1>8, <1>19, <2>2 DEF w
    <2> HIDE DEF f
    <2> QED
      BY <2>1, <2>3 DEF d
  <1>21. Decode(e) = dec[Depth][e]["text"]
    BY DEF Decode, dec
  <1> QED
    BY <1>3, <1>17, <1>20, <1>21 DEF e, key

\* What is signed is the transaction: the message, read back from the hash, is
\* the document a signer agrees to (of a text with an integer type, its number),
\* and the domain has the chain.
THEOREM HashBinds == Spec => []HashBindsDocument
  <1>1. WrapInv => HashBindsDocument
    <2> SUFFICES ASSUME WrapInv, stage = "hashed", DistinctNames(typed[1].types)
                 PROVE  /\ Decode(hash[1].message) =
                               AsRead(typed[1].types, <<"Tx">>, Object(Agreed(doc)))
                        /\ Decode(hash[1].domain)[2][<<"chainId">>] = <<"number", doc.chain>>
      BY DEF HashBindsDocument
    <2> DEFINE table == typed[1].types
               domain == HashStruct(table, <<"EIP712Domain">>, Object(Domain(doc.chain)))
               message == HashStruct(table, <<"Tx">>, Object(Agreed(doc)))
    <2>1. /\ doc \in Docs /\ WalkTable(table) /\ DistinctNames(table)
          /\ typed[1].message = Agreed(doc) /\ typed[1].domain = Domain(doc.chain)
          /\ ~Failed(ComputeTypedDataHash(typed[1])) /\ hash = ComputeTypedDataHash(typed[1])
      BY DEF WrapInv
    <2>2. /\ ~Failed(domain) /\ ~Failed(message)
          /\ hash[1] = [domain |-> domain[1], message |-> message[1]]
      BY <2>1, HashedIs
    <2> HIDE DEF table
    <2>3. Decode(message[1]) = AsRead(table, <<"Tx">>, Object(Agreed(doc)))
      <3>1. \A y \in Nested(Object(Agreed(doc))) : IsJSON(y)
        BY <2>1, JSONAssumption DEF IsJSON
      <3>2. <<"Tx">> \in DOMAIN table /\ IsTable(table)
        BY <2>1 DEF WalkTable
      <3>3. HashStruct(table, <<"Tx">>, Object(Agreed(doc))) # <<>>
        BY <2>2 DEF Failed
      <3> QED
        BY <2>1, <3>1, <3>2, <3>3, StructBound
    <2>4. Decode(domain[1])[2][<<"chainId">>] = <<"number", doc.chain>>
      <3>1. doc.chain \in 0..(2^WordSize - 1)
        BY <2>1, ChainAssumption
      <3>2. HashStruct(table, <<"EIP712Domain">>, Object(Domain(doc.chain))) # <<>>
        BY <2>2 DEF Failed
      <3> QED
        BY <2>1, <3>1, <3>2, ChainBound
    <2> HIDE DEF domain, message
    <2> QED
      BY <2>2, <2>3, <2>4 DEF table
  <1> QED
    BY <1>1, WrapInvHolds, PTL
=============================================================================
